-------------------------- MODULE PaymentContract --------------------------
(***************************************************************************)
(* What payment-service promises about one payment: it ends once, paid or  *)
(* unpaid; it ends paid only after the payer's money has moved; and when   *)
(* it has ended unpaid the money never moves.                              *)
(***************************************************************************)

VARIABLES
    outcome,   \* "open", "paid" or "unpaid"
    moved      \* whether the payer's money has gone to the payee

vars == <<outcome, moved>>

Init == outcome = "open" /\ moved = FALSE

Move == outcome = "open" /\ ~moved /\ moved' = TRUE /\ UNCHANGED outcome

Complete == outcome = "open" /\ moved /\ outcome' = "paid" /\ UNCHANGED moved

Abandon == outcome = "open" /\ ~moved /\ outcome' = "unpaid" /\ UNCHANGED moved

Next == Move \/ Complete \/ Abandon

Spec == Init /\ [][Next]_vars
=============================================================================
