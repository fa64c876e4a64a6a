---------------------------- MODULE MCRefundSaga ----------------------------
(***************************************************************************)
(* Instances of RefundSaga for TLC.                                        *)
(***************************************************************************)
EXTENDS RefundSaga

CONSTANTS w1, w2, w3
=============================================================================
