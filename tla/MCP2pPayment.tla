--------------------------- MODULE MCP2pPayment ---------------------------
(***************************************************************************)
(* Instances of P2pPayment for TLC.                                        *)
(***************************************************************************)
EXTENDS P2pPayment

CONSTANTS w1, w2
=============================================================================
