--------------------------- MODULE MCWalletLedger ---------------------------
(***************************************************************************)
(* Instances of WalletLedgerProps for TLC.  Every reference is used at     *)
(* most once per wallet, so finitely many references bound the ledger.     *)
(* One run checks two instances, of two users without holds and of one     *)
(* user with them: a behaviour is one of either.                           *)
(***************************************************************************)
EXTENDS WalletLedgerProps, TLC

CONSTANTS s1, s2, u1, u2, m1, h1, h2, f1, f2, c1, c2

\* One day boundary, at instant 2, inside the life of a hold.
MCDayOf == [t \in Time |-> t \div 2]
MCMonthOf == [d \in 0 .. MaxTime |-> 0]

\* payment-service sends one refund reference per payment: refund_<id>.
MCOneRefundRef == [r \in HoldRefs |-> {f1}]
MCTwoRefundRefs == [r \in HoldRefs |-> {f1, f2}]

MCPerTxn == [t \in Tiers |-> 2]
MCPerDay == [t \in Tiers |-> 2 + t]
MCPerMonth == [t \in Tiers |-> 3]

\* Two users who hold nothing, one of the first tier, and a shorter time.
TwoUsersMove ==
    /\ now < MaxTime /\ kycTier[u2] = 0
    /\ \A w \in Owners, r \in HoldRefs : hold[w][r] = NoHold

\* One user of the first tier, and one reference of a movement.
OneUserHolds ==
    /\ status[u2] = "ABSENT" /\ kycTier[u1] = 0
    /\ \A w \in Wallets : entry[w][c2] = NoEntry

\* The sweepers are alike, and so are the holds, which share their refund reference.
Exchanges == Permutations(Sweepers) \cup Permutations(HoldRefs)

UsersSpec == Init /\ [][Next /\ (TwoUsersMove' \/ OneUserHolds')]_vars
=============================================================================
