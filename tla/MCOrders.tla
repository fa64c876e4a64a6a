------------------------------ MODULE MCOrders ------------------------------
(***************************************************************************)
(* Instances of RefundSaga, UtilityOrder, TierPropagation and              *)
(* EventConsumer for TLC.  They share no state: one run checks them all,   *)
(* and a behaviour is one of any of them, the others staying as they       *)
(* began.                                                                  *)
(***************************************************************************)
EXTENDS RefundSaga, UtilityOrder, TierPropagation, EventConsumer

CONSTANTS w1, w2, w3, h1, h2, h3, p1, c1, l1, l2

OrdersInit == RefundInit /\ OrderInit /\ TierInit /\ ConsumerInit

OrdersNext ==
    \/ /\ OrderInit /\ TierInit /\ ConsumerInit
       /\ RefundNext /\ UNCHANGED <<orderVars, tierVars, consumerVars>>
    \/ /\ RefundInit /\ TierInit /\ ConsumerInit
       /\ OrderNext /\ UNCHANGED <<refundVars, tierVars, consumerVars>>
    \/ /\ RefundInit /\ OrderInit /\ ConsumerInit
       /\ TierNext /\ UNCHANGED <<refundVars, orderVars, consumerVars>>
    \/ /\ RefundInit /\ OrderInit /\ TierInit
       /\ ConsumerNext /\ UNCHANGED <<refundVars, orderVars, tierVars>>

OrdersVars == <<refundVars, orderVars, tierVars, consumerVars>>

OrdersSpec == OrdersInit /\ [][OrdersNext]_OrdersVars

OrdersTypeOK == RefundTypeOK /\ OrderTypeOK /\ TierTypeOK /\ ConsumerTypeOK
=============================================================================
