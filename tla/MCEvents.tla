------------------------------ MODULE MCEvents ------------------------------
(***************************************************************************)
(* Instances of TierPropagation, KycDocuments, FinanceNotices,             *)
(* ReconciliationDesk, WalletOutbox and Registration for TLC.  They share  *)
(* no state: one run checks them all, and a behaviour is one of any of     *)
(* them, the others staying as they began.  So they may share two actors   *)
(* and two things, too, which are alike to every component: exchanging the *)
(* actors, or the things, makes no difference to any.                      *)
(***************************************************************************)
EXTENDS TierPropagation, KycDocuments, FinanceNotices, ReconciliationDesk,
        WalletOutbox, Registration, TLC

CONSTANTS a1, a2, t1, t2

Actors == {a1, a2}
Things == {t1, t2}
Exchanges == Permutations(Actors) \cup Permutations(Things)

EventsInit == TierInit /\ KycInit /\ FinanceInit /\ DeskInit /\ WalletOutInit /\ RegInit

TierUntouched == ~declared /\ \A v \in Versions : row[v].status = "NONE"
KycUntouched == kycStatus = "NONE" /\ \A s \in Submissions : submission[s] = "none"
FinanceUntouched == recipients = {} /\ \A h \in Handlings : handling[h].at = "none"
AdjustUntouched == adjustment = "NONE" /\ \A a \in Admins : desk[a][1] = "idle"
RunsUntouched == \A r \in Runs : runlog[r] = "NONE"
WalletOutUntouched == WalletOutInit /\ notable = "notice"

Untouched(tierToo, kycToo, financeToo, deskToo, outboxToo, regToo) ==
    /\ tierToo => TierUntouched
    /\ kycToo => KycUntouched
    /\ financeToo => FinanceUntouched
    /\ deskToo => AdjustUntouched /\ RunsUntouched
    /\ outboxToo => WalletOutUntouched
    /\ regToo => RegInit

EventsNext ==
    \/ /\ Untouched(FALSE, TRUE, TRUE, TRUE, TRUE, TRUE)
       /\ TierNext /\ UNCHANGED <<kycVars, financeVars, deskVars, walletOutVars, regVars>>
    \/ /\ Untouched(TRUE, FALSE, TRUE, TRUE, TRUE, TRUE)
       /\ KycNext /\ UNCHANGED <<tierVars, financeVars, deskVars, walletOutVars, regVars>>
    \/ /\ Untouched(TRUE, TRUE, FALSE, TRUE, TRUE, TRUE)
       /\ FinanceNext /\ UNCHANGED <<tierVars, kycVars, deskVars, walletOutVars, regVars>>
    \/ /\ Untouched(TRUE, TRUE, TRUE, FALSE, TRUE, TRUE) /\ RunsUntouched
       /\ AdjustStep /\ UNCHANGED <<tierVars, kycVars, financeVars, runVars, walletOutVars, regVars>>
    \/ /\ Untouched(TRUE, TRUE, TRUE, FALSE, TRUE, TRUE) /\ AdjustUntouched
       /\ RunStep /\ UNCHANGED <<tierVars, kycVars, financeVars, adjustVars, walletOutVars, regVars>>
    \/ /\ Untouched(TRUE, TRUE, TRUE, TRUE, FALSE, TRUE)
       /\ WalletOutNext /\ UNCHANGED <<tierVars, kycVars, financeVars, deskVars, regVars>>
    \/ /\ Untouched(TRUE, TRUE, TRUE, TRUE, TRUE, FALSE)
       /\ RegNext /\ UNCHANGED <<tierVars, kycVars, financeVars, deskVars, walletOutVars>>

EventsVars == <<tierVars, kycVars, financeVars, deskVars, walletOutVars, regVars>>

EventsSpec == EventsInit /\ [][EventsNext]_EventsVars

EventsTypeOK ==
    /\ TierTypeOK /\ KycTypeOK /\ FinanceTypeOK /\ DeskTypeOK
    /\ WalletOutTypeOK /\ RegTypeOK
=============================================================================
