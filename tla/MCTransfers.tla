---------------------------- MODULE MCTransfers ----------------------------
(***************************************************************************)
(* Instances of P2pPayment, CashOut, Topup and PaymentOutbox for TLC.      *)
(* They share no state: one run checks them all, and a behaviour is one of *)
(* any of them, the others staying as they began.                          *)
(***************************************************************************)
EXTENDS P2pPayment, CashOut, Topup, PaymentOutbox

CONSTANTS w1, w2, d1, d2, i1, i2, p1, o1, o2

TransfersInit == P2pInit /\ CashOutInit /\ TopupInit /\ PayOutInit

P2pUntouched == pay.status = "NONE"
CashOutUntouched == order.status = "NONE"
TopupUntouched == topup.status = "NONE"
PayOutUntouched == PayOutInit /\ kind = "legacy"

\* Only a row of the older kind is sent over the connection: with any other it
\* stays as it began.
LinkMatters == kind = "legacy" \/ UNCHANGED link

TransfersNext ==
    \/ /\ CashOutUntouched /\ TopupUntouched /\ PayOutUntouched
       /\ P2pNext /\ UNCHANGED <<cashVars, topupVars, payOutVars>>
    \/ /\ P2pUntouched /\ TopupUntouched /\ PayOutUntouched
       /\ CashOutNext /\ UNCHANGED <<p2pVars, topupVars, payOutVars>>
    \/ /\ P2pUntouched /\ CashOutUntouched /\ PayOutUntouched
       /\ TopupNext /\ UNCHANGED <<p2pVars, cashVars, payOutVars>>
    \/ /\ P2pUntouched /\ CashOutUntouched /\ TopupUntouched
       /\ PayOutNext /\ LinkMatters /\ UNCHANGED <<p2pVars, cashVars, topupVars>>

TransfersVars == <<p2pVars, cashVars, topupVars, payOutVars>>

TransfersSpec == TransfersInit /\ [][TransfersNext]_TransfersVars
=============================================================================
