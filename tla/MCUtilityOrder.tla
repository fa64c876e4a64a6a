--------------------------- MODULE MCUtilityOrder ---------------------------
(***************************************************************************)
(* Instances of UtilityOrder for TLC.                                      *)
(***************************************************************************)
EXTENDS UtilityOrder

CONSTANTS h1, h2
=============================================================================
