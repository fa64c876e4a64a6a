-------------------------- MODULE MCPaymentOutbox --------------------------
(***************************************************************************)
(* Instances of PaymentOutbox for TLC.                                     *)
(***************************************************************************)
EXTENDS PaymentOutbox

CONSTANT o1, o2
=============================================================================
