-------------------------- MODULE WalletLedgerProps -------------------------
(***************************************************************************)
(* What the wallet promises about money, holds and usage.                  *)
(***************************************************************************)
EXTENDS WalletLedger

\* The callers' naming convention: a reference names one kind of operation.
RefDiscipline ==
    /\ HoldRefs \cap MoveRefs = {}
    /\ RefundRefs \cap (HoldRefs \cup MoveRefs) = {}

\* payment-service refunds a payment under refund_<payment id> only: a hold has
\* at most one refund reference, and shares it with no hold.
OwnRefundRef ==
    /\ \A r \in HoldRefs : \A f, g \in RefundRefOf[r] : f = g
    /\ \A r, q \in HoldRefs : r # q => RefundRefOf[r] \cap RefundRefOf[q] = {}

\* No USER or MERCHANT wallet is ever overdrawn, and what is reserved never
\* exceeds what is there: the database CHECKs on Wallet are never what stops
\* a transaction, the service's own guards are.
Solvent ==
    \A w \in Owners : 0 <= held[w] /\ held[w] <= balance[w]

\* The amounts of w's holds and entries, these also signed as they change its
\* balance.
HoldAmounts(w) == [r \in HoldRefs |-> hold[w][r].amount]
EntryAmounts(w) == [ref \in Refs |-> entry[w][ref].amount]
SignedAmounts(w) ==
    [ref \in Refs |-> IF entry[w][ref].dir = "CREDIT" THEN entry[w][ref].amount
                                                      ELSE 0 - entry[w][ref].amount]

PendingHolds(w) == {r \in HoldRefs : hold[w][r].status = "PENDING"}

\* heldBalance is exactly the sum of the wallet's PENDING holds, whichever of
\* capture, release, inline expiry and sweeper ended the others.
HeldIsPending ==
    \A w \in Owners : held[w] = SumFunctionOnSet(HoldAmounts(w), PendingHolds(w))

\* Every wallet's balance is the sum of its ledger entries (the reconciliation
\* job's BALANCE_DRIFT_FULL never fires).
BalanceIsLedger ==
    \A w \in Wallets : balance[w] = SumFunctionOnSet(SignedAmounts(w), Refs)

\* Entry e of wallet w under ref has its mirror image at the other wallet.
Mirrored(w, ref) ==
    LET e == entry[w][ref]
        m == entry[e.peer][ref]
    IN /\ e.peer \in Wallets \ {w}
       /\ m.dir = IF e.dir = "DEBIT" THEN "CREDIT" ELSE "DEBIT"
       /\ m.type = e.type
       /\ m.amount = e.amount
       /\ m.peer = w

\* Double entry: no reference ever leaves a transaction one-sided, also when
\* several operations reuse it (TRANSACTION_UNBALANCED never fires).
DoubleEntry ==
    \A w \in Wallets, ref \in Refs : entry[w][ref].dir # "NONE" => Mirrored(w, ref)

\* A payment entry of the hold's amount from its owner to its destination.
PaidOut(w, r) ==
    LET h == hold[w][r] IN
    /\ entry[w][r].dir = "DEBIT"
    /\ entry[w][r].type = "PAYMENT"
    /\ entry[w][r].amount = h.amount
    /\ entry[w][r].peer = DestOf(h)

\* A hold is CAPTURED or REFUNDED exactly when its owner has paid under its
\* reference, and then the amount held, to the hold's destination: no capture
\* without the money, no money gone from a hold that was released or expired.
CaptureSettles ==
    \A w \in Owners, r \in HoldRefs :
        /\ hold[w][r].status \in {"CAPTURED", "REFUNDED"} => PaidOut(w, r)
        /\ entry[w][r].dir = "DEBIT" => hold[w][r].status \in {"CAPTURED", "REFUNDED"}

\* What counts against u's limits of day d: live or paid holds, and transfers.
HoldsOfDay(u, d) ==
    {r \in HoldRefs : /\ hold[u][r].status \in {"PENDING", "CAPTURED", "REFUNDED"}
                      /\ hold[u][r].usageDay = d}
TransfersOfDay(u, d) ==
    {ref \in Refs : /\ entry[u][ref].dir = "DEBIT"
                    /\ entry[u][ref].type = "P2P_TRANSFER"
                    /\ entry[u][ref].day = d}

DayUsage(u, d) == SumFunctionOnSet(HoldAmounts(u), HoldsOfDay(u, d))
                  + SumFunctionOnSet(EntryAmounts(u), TransfersOfDay(u, d))

\* Usage of a day is what the day's live or paid holds and its transfers come
\* to: expiry and release give the reservation back to the day that took it,
\* also after midnight, once.
UsageIsAccounted == \A u \in Users, d \in Days : spentDay[u][d] = DayUsage(u, d)

\* What is reserved is what the pending holds come to, in the wallet and in the
\* limits, however capture, release, expiry and midnight meet.
HoldsAreAccounted == HeldIsPending /\ UsageIsAccounted

\* A pending hold can always be given back: by the time it is released, expired
\* or swept, nothing that was captured, freed or transferred meanwhile, on this
\* day or an earlier one, has used up what it reserved (NEGATIVE_HELD_BALANCE and
\* NEGATIVE_SPENT_DAY never roll the call back, which would strand the funds).
PendingIsFreeable ==
    \A w \in Owners, r \in HoldRefs :
        hold[w][r].status = "PENDING" => Freeable(w, hold[w][r])

\* What a user's live and paid holds and transfers of a day come to, and those
\* of its month, is within the limits of a tier: what is released or expires
\* late, on another day, makes no room there is not.  (The tier is the one at
\* the last reservation; a lower one later takes nothing back.)
LimitsAreKept ==
    \A u \in Users, day \in Days :
        /\ \E tier \in Tiers : DayUsage(u, day) <= PerDay[tier]
        /\ \E tier \in Tiers :
              SumFunctionOnSet([d \in Days |-> DayUsage(u, d)],
                               {d \in Days : MonthOf[d] = MonthOf[day]}) <= PerMonth[tier]

\* A hold never revives: what was released or expired stays so, and a capture
\* is only ever followed by a refund (or, see CaptureHold, by its re-capture).
HoldNeverRevives ==
    [][\A w \in Owners, r \in HoldRefs :
          /\ hold[w][r].status \in {"RELEASED", "EXPIRED"} => hold'[w][r] = hold[w][r]
          /\ hold[w][r].status \in {"CAPTURED", "REFUNDED"} =>
                hold'[w][r].status \in {"CAPTURED", "REFUNDED"}
      ]_vars

\* A hold is expired only by a step taken after its deadline, however stale
\* the sweeper's scan is and however often the hold was extended meanwhile.
NeverExpiredEarly ==
    [][\A w \in Owners, r \in HoldRefs :
          hold'[w][r].status = "EXPIRED" /\ hold[w][r].status # "EXPIRED" =>
              hold[w][r].expiresAt <= now
      ]_vars

-----------------------------------------------------------------------------
(* Each hold, seen through the ledger, implements HoldContract             *)

RefundEntry(w, r, f) ==
    LET e == entry[DestOf(hold[w][r])][f] IN
    e.dir = "DEBIT" /\ e.type = "REFUND" /\ e.peer = w

Phase(w, r) ==
    CASE hold[w][r].status = "NONE" -> "none"
      [] hold[w][r].status = "PENDING" -> "reserved"
      [] hold[w][r].status \in {"RELEASED", "EXPIRED"} -> "freed"
      [] OTHER -> IF \E f \in RefundRefOf[r] : RefundEntry(w, r, f)
                  THEN "returned" ELSE "settled"

CreditedAmounts(w) ==
    [ref \in Refs |-> IF entry[w][ref].dir = "CREDIT" THEN entry[w][ref].amount ELSE 0]

\* What the ledger says has left w for its hold r and not come back.
NetOut(w, r) ==
    (IF entry[w][r].dir = "DEBIT" THEN entry[w][r].amount ELSE 0)
    - SumFunctionOnSet(CreditedAmounts(w), RefundRefOf[r])

Contract == INSTANCE HoldContract WITH
    Keys <- HoldKeys,
    phase <- [k \in HoldKeys |-> Phase(k[1], k[2])],
    amount <- [k \in HoldKeys |-> hold[k[1]][k[2]].amount],
    out <- [k \in HoldKeys |-> NetOut(k[1], k[2])]

\* The money of every hold leaves its owner at most once, in full, and comes
\* back at most once, whatever calls, retries and sweeps meet.
HoldsKeepContract == Contract!Spec

-----------------------------------------------------------------------------
(* Fairness: the scheduler re-runs the sweep every interval, and does not  *)
(* crash every time before it reaches a hold.                              *)

Fairness ==
    /\ WF_vars(Tick)
    /\ \A s \in Sweepers :
        /\ WF_vars(SweepScan(s))
        /\ \A w \in Owners, r \in HoldRefs :
               SF_vars(SweepHold(s, w, r)) /\ WF_vars(SweepSkip(s, w, r))

FairSpec == Spec /\ Fairness

\* A hold nobody settles, releases or extends is freed by the sweeper: the
\* funds are never stuck.  (A hold due at MaxTime is past only after it.)
ExpiredHoldsAreFreed ==
    \A w \in Owners, r \in HoldRefs :
        (hold[w][r].status = "PENDING" /\ hold[w][r].expiresAt < MaxTime)
        ~> (hold[w][r].status # "PENDING" \/ hold[w][r].expiresAt = MaxTime)

-----------------------------------------------------------------------------
(* What the documents say and the code does not do                         *)

\* docs/k13-contract.md: a capture already refunded under one reference is
\* never refunded under another.
RefundAtMostOnce ==
    \A w \in Owners, r \in HoldRefs :
        hold[w][r].status # "NONE" =>
            Cardinality({f \in RefundRefOf[r] : RefundEntry(w, r, f)}) <= 1
=============================================================================
