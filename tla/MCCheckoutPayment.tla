------------------------- MODULE MCCheckoutPayment -------------------------
(***************************************************************************)
(* Instances of CheckoutPayment for TLC.                                   *)
(***************************************************************************)
EXTENDS CheckoutPayment

CONSTANTS w1, w2
=============================================================================
