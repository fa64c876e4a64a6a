---------------------------- MODULE HoldContract ----------------------------
(***************************************************************************)
(* What wallet-service promises its callers about the money of a hold: an  *)
(* amount is reserved once; it is then either freed without moving or paid *)
(* out once in full; and what was paid out comes back at most once.        *)
(* Calls that are refused, retried or replayed do not show.                *)
(***************************************************************************)
EXTENDS Naturals

CONSTANTS Keys, Amounts

VARIABLES
    phase,    \* where each reservation stands
    amount,   \* what was reserved
    out       \* what has left the owner's wallet for it and not come back

vars == <<phase, amount, out>>

Init ==
    /\ phase = [k \in Keys |-> "none"]
    /\ amount = [k \in Keys |-> 0]
    /\ out = [k \in Keys |-> 0]

Reserve(k) ==
    /\ phase[k] = "none"
    /\ phase' = [phase EXCEPT ![k] = "reserved"]
    /\ \E a \in Amounts : amount' = [amount EXCEPT ![k] = a]
    /\ UNCHANGED out

Free(k) ==
    /\ phase[k] = "reserved"
    /\ phase' = [phase EXCEPT ![k] = "freed"]
    /\ UNCHANGED <<amount, out>>

Settle(k) ==
    /\ phase[k] = "reserved"
    /\ phase' = [phase EXCEPT ![k] = "settled"]
    /\ out' = [out EXCEPT ![k] = amount[k]]
    /\ UNCHANGED amount

Return(k) ==
    /\ phase[k] = "settled"
    /\ phase' = [phase EXCEPT ![k] = "returned"]
    /\ out' = [out EXCEPT ![k] = 0]
    /\ UNCHANGED amount

Next == \E k \in Keys : Reserve(k) \/ Free(k) \/ Settle(k) \/ Return(k)

Spec == Init /\ [][Next]_vars
=============================================================================
