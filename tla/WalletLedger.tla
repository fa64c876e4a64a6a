---------------------------- MODULE WalletLedger ----------------------------
(***************************************************************************)
(* The money core of wallet-service: wallets, the double-entry ledger,     *)
(* holds (reserve, extend, capture, release, expire, refund) and the daily *)
(* usage rows that enforce the KYC limits.                                 *)
(*                                                                         *)
(* One action is one committed database transaction.  Each transaction     *)
(* locks the rows of the wallets it touches before it reads anything it    *)
(* decides on (lockAndFetchWalletsTx), so transactions on a wallet are     *)
(* serialised and a transaction that throws leaves no trace: a refused or  *)
(* replayed call is a stuttering step and has no action here.  The expiry  *)
(* sweeper is the exception: it reads its candidates without a lock and    *)
(* handles them one transaction at a time, hence two actions.              *)
(***************************************************************************)
EXTENDS Integers, FiniteSetsExt

CONSTANTS
    Users,            \* USER wallets: limits and KYC tiers apply
    Merchants,        \* MERCHANT wallets: no limits
    SETTLEMENT,       \* system wallet, may go negative
    CLEARING_TOPUP,   \* system wallet, may go negative
    NoWallet,         \* a hold's null destinationWalletId
    NoRef,            \* a null refundReferenceId
    HoldRefs,         \* referenceIds callers give to holds
    MoveRefs,         \* referenceIds of credit, debit, transfer and adjust
    RefundRefOf,      \* HoldRef -> referenceIds its refund may carry
    Amounts,          \* the amounts callers ask for
    MaxTime,          \* bound: the clock stops here
    MaxLifetime,      \* HOLD_MAX_LIFETIME_MS
    DayOf,            \* instant -> getVnDay
    MonthOf,          \* day -> getVnMonthKey
    Tiers,            \* KYC tiers; a wallet is created with tier 0
    PerTxn, PerDay, PerMonth,   \* the limit policy of each tier
    Sweepers          \* instances of the expiry sweeper

Owners == Users \cup Merchants
SystemWallets == {SETTLEMENT, CLEARING_TOPUP}
Wallets == Owners \cup SystemWallets
RefundRefs == UNION {RefundRefOf[r] : r \in HoldRefs}
Refs == HoldRefs \cup MoveRefs \cup RefundRefs
Time == 0 .. MaxTime
Days == {DayOf[t] : t \in Time}
HoldKeys == Owners \X HoldRefs

ASSUME WalletAssumption ==
    /\ Owners \cap SystemWallets = {}
    /\ Users \cap Merchants = {}
    /\ SETTLEMENT # CLEARING_TOPUP
    /\ NoWallet \notin Wallets

ASSUME RefAssumption ==
    /\ IsFiniteSet(Refs)
    /\ NoRef \notin Refs
    /\ RefundRefOf \in [HoldRefs -> SUBSET RefundRefs]

ASSUME AmountAssumption == Amounts \subseteq Nat \ {0}

ASSUME TimeAssumption ==
    /\ MaxTime \in Nat
    /\ MaxLifetime \in Nat
    /\ DayOf \in [Time -> Days]

ASSUME LimitAssumption ==
    /\ 0 \in Tiers
    /\ PerTxn \in [Tiers -> Nat]
    /\ PerDay \in [Tiers -> Nat]
    /\ PerMonth \in [Tiers -> Nat]

VARIABLES
    balance,    \* Wallet.balance
    held,       \* Wallet.heldBalance
    status,     \* Wallet.status; ABSENT before the row is inserted
    kycTier,    \* Wallet.kycTier of a USER wallet
    hold,       \* WalletHold by (sourceWalletId, referenceId)
    entry,      \* LedgerEntry by (walletId, referenceId), the unique index
    spentDay,   \* UserDailyUsage.spentDay by (userId, day); absent = 0
    now,        \* the clock
    scan        \* per sweeper: the instant it scanned at, the holds it found

vars == <<balance, held, status, kycTier, hold, entry, spentDay, now, scan>>
money == <<balance, entry>>

HoldStatus == {"NONE", "PENDING", "CAPTURED", "RELEASED", "EXPIRED", "REFUNDED"}
WalletStatus == {"ABSENT", "ACTIVE", "LOCKED"}
TransferType == {"TOPUP", "PAYMENT", "REFUND", "ADJUSTMENT", "P2P_TRANSFER"}

NoEntry == [dir |-> "NONE", type |-> "NONE", amount |-> 0, peer |-> NoWallet,
            day |-> DayOf[0]]
Entries == [dir : {"NONE", "DEBIT", "CREDIT"}, type : TransferType \cup {"NONE"},
            amount : Nat, peer : Wallets \cup {NoWallet}, day : Days]

NoHold == [status |-> "NONE", amount |-> 0, dest |-> NoWallet, createdAt |-> 0,
           expiresAt |-> 0, usageDay |-> DayOf[0], refundRef |-> NoRef]
Holds == [status : HoldStatus, amount : Nat, dest : Owners \cup {NoWallet},
          createdAt : Time, expiresAt : Time, usageDay : Days,
          refundRef : RefundRefs \cup {NoRef}]

TypeOK ==
    /\ balance \in [Wallets -> Int]
    /\ held \in [Wallets -> Int]
    /\ status \in [Wallets -> WalletStatus]
    /\ kycTier \in [Users -> Tiers]
    /\ hold \in [Owners -> [HoldRefs -> Holds]]
    /\ entry \in [Wallets -> [Refs -> Entries]]
    /\ spentDay \in [Users -> [Days -> Int]]
    /\ now \in Time
    /\ scan \in [Sweepers -> [at : Time, todo : SUBSET HoldKeys]]

Init ==
    /\ balance = [w \in Wallets |-> 0]
    /\ held = [w \in Wallets |-> 0]
    /\ status = [w \in Wallets |-> IF w \in SystemWallets THEN "ACTIVE" ELSE "ABSENT"]
    /\ kycTier = [u \in Users |-> 0]
    /\ hold = [w \in Owners |-> [r \in HoldRefs |-> NoHold]]
    /\ entry = [w \in Wallets |-> [ref \in Refs |-> NoEntry]]
    /\ spentDay = [u \in Users |-> [d \in Days |-> 0]]
    /\ now = 0
    /\ scan = [s \in Sweepers |-> [at |-> 0, todo |-> {}]]

-----------------------------------------------------------------------------
(* Moving money: moveMoneyTxInternal                                       *)

Available(w) == balance[w] - held[w]

\* Mutant: any entry under the reference counts as the replay.
Replayed_AnyEntry(from, amount, ref, type) == entry[from][ref].dir # "NONE"

\* An earlier DEBIT of `from` under the same reference, type and amount makes
\* the call a replay; the destination is not compared.
Replayed(from, amount, ref, type) ==
    /\ entry[from][ref].dir = "DEBIT"
    /\ entry[from][ref].type = type
    /\ entry[from][ref].amount = amount

\* Mutant: no unique index on the destination's side.
Unused_SourceOnly(from, to, ref) == entry[from][ref] = NoEntry

\* The unique index (walletId, referenceId) aborts a second entry of a wallet.
Unused(from, to, ref) == entry[from][ref] = NoEntry /\ entry[to][ref] = NoEntry

Active(w) == status[w] = "ACTIVE"

\* Mutant: the funds check forgets the reservations.
Funded_IgnoresHeld(from, amount) == from \in SystemWallets \/ balance[from] >= amount

Funded(from, amount) == from \in SystemWallets \/ Available(from) >= amount

Post(from, to, amount, ref, type) ==
    /\ balance' = [balance EXCEPT ![from] = @ - amount, ![to] = @ + amount]
    /\ entry' = [entry EXCEPT
          ![from][ref] = [dir |-> "DEBIT", type |-> type, amount |-> amount,
                          peer |-> to, day |-> DayOf[now]],
          ![to][ref]   = [dir |-> "CREDIT", type |-> type, amount |-> amount,
                          peer |-> from, day |-> DayOf[now]]]

Move(from, to, amount, ref, type) ==
    /\ Unused(from, to, ref)
    /\ Active(from) /\ Active(to)
    /\ Funded(from, amount)
    /\ Post(from, to, amount, ref, type)

-----------------------------------------------------------------------------
(* Limits: LimitService                                                    *)

SpentMonth(u, month) ==
    SumFunctionOnSet(spentDay[u], {d \in Days : MonthOf[d] = month})

\* Mutant: the month's usage is not looked at.
CheckAndReserve_DayOnly(w, amount) ==
    LET today == DayOf[now]
        tier == kycTier[w]
    IN IF w \in Users
       THEN /\ amount <= PerTxn[tier]
            /\ spentDay[w][today] + amount <= PerDay[tier]
            /\ spentDay' = [spentDay EXCEPT ![w][today] = @ + amount]
       ELSE UNCHANGED spentDay

CheckAndReserve(w, amount) ==
    LET today == DayOf[now]
        tier == kycTier[w]
    IN IF w \in Users
       THEN /\ amount <= PerTxn[tier]
            /\ spentDay[w][today] + amount <= PerDay[tier]
            /\ SpentMonth(w, MonthOf[today]) + amount <= PerMonth[tier]
            /\ spentDay' = [spentDay EXCEPT ![w][today] = @ + amount]
       ELSE UNCHANGED spentDay

\* Mutant: the usage is given back to today, not to the day that took it.
RefundUsage_Today(w, amount, day) ==
    IF w \in Users
    THEN spentDay' = [spentDay EXCEPT ![w][DayOf[now]] = @ - amount]
    ELSE UNCHANGED spentDay

RefundUsage(w, amount, day) ==
    IF w \in Users
    THEN spentDay' = [spentDay EXCEPT ![w][day] = @ - amount]
    ELSE UNCHANGED spentDay

-----------------------------------------------------------------------------
(* Ledger operations                                                       *)

Credit(w, amount, ref, type) ==
    /\ Move(IF type = "TOPUP" THEN CLEARING_TOPUP ELSE SETTLEMENT, w, amount, ref, type)
    /\ UNCHANGED <<held, status, kycTier, hold, spentDay, now, scan>>

Debit(w, amount, ref) ==
    /\ Move(w, SETTLEMENT, amount, ref, "PAYMENT")
    /\ UNCHANGED <<held, status, kycTier, hold, spentDay, now, scan>>

\* Between two users.
Transfer(from, to, amount, ref) ==
    /\ from \in Users /\ from # to
    /\ CheckAndReserve(from, amount)
    /\ Move(from, to, amount, ref, "P2P_TRANSFER")
    /\ UNCHANGED <<held, status, kycTier, hold, now, scan>>

\* An administrator may take money from a locked wallet, never add to one.
AdjustDebit(w, amount, ref) ==
    /\ Unused(w, SETTLEMENT, ref)
    /\ Active(SETTLEMENT)
    /\ Funded(w, amount)
    /\ Post(w, SETTLEMENT, amount, ref, "ADJUSTMENT")
    /\ UNCHANGED <<held, status, kycTier, hold, spentDay, now, scan>>

AdjustCredit(w, amount, ref) ==
    /\ Move(SETTLEMENT, w, amount, ref, "ADJUSTMENT")
    /\ UNCHANGED <<held, status, kycTier, hold, spentDay, now, scan>>

CreateWallet(w) ==
    /\ status[w] = "ABSENT"
    /\ status' = [status EXCEPT ![w] = "ACTIVE"]
    /\ UNCHANGED <<money, held, kycTier, hold, spentDay, now, scan>>

SetLock(w, s) ==
    /\ status[w] \notin {"ABSENT", s}
    /\ status' = [status EXCEPT ![w] = s]
    /\ UNCHANGED <<money, held, kycTier, hold, spentDay, now, scan>>

\* An upsert: the event creates the wallet if it comes first.
KycUpdated(u, tier) ==
    /\ kycTier' = [kycTier EXCEPT ![u] = tier]
    /\ status' = [status EXCEPT ![u] = IF @ = "ABSENT" THEN "ACTIVE" ELSE @]
    /\ UNCHANGED <<money, held, hold, spentDay, now, scan>>

-----------------------------------------------------------------------------
(* Holds                                                                   *)

\* The wallet a capture pays and a refund takes from.
DestOf(h) == IF h.dest = NoWallet THEN SETTLEMENT ELSE h.dest

CreateHold(w, dest, amount, r, expiresAt) ==
    /\ expiresAt > now
    /\ dest # w
    /\ hold[w][r] = NoHold
    /\ Active(w)
    /\ dest # NoWallet => Active(dest)
    /\ CheckAndReserve(w, amount)
    /\ Available(w) >= amount
    /\ held' = [held EXCEPT ![w] = @ + amount]
    /\ hold' = [hold EXCEPT ![w][r] =
          [status |-> "PENDING", amount |-> amount, dest |-> dest,
           createdAt |-> now, expiresAt |-> expiresAt,
           usageDay |-> DayOf[now], refundRef |-> NoRef]]
    /\ UNCHANGED <<money, status, kycTier, now, scan>>

ExtendHold(w, r, expiresAt) ==
    /\ hold[w][r].status = "PENDING"
    /\ expiresAt > now
    /\ expiresAt > hold[w][r].expiresAt
    /\ expiresAt <= hold[w][r].createdAt + MaxLifetime
    /\ hold' = [hold EXCEPT ![w][r].expiresAt = expiresAt]
    /\ UNCHANGED <<money, held, status, kycTier, spentDay, now, scan>>

\* Mutant: the last reserved unit cannot be given back.
Freeable_Strict(w, h) == held[w] > h.amount

\* Otherwise NEGATIVE_HELD_BALANCE or NEGATIVE_SPENT_DAY rolls the call back.
Freeable(w, h) ==
    /\ held[w] >= h.amount
    /\ w \in Users => spentDay[w][h.usageDay] >= h.amount

\* PENDING -> RELEASED or EXPIRED, giving back the reservation and the usage.
FreeHold(w, r, final) ==
    /\ hold[w][r].status = "PENDING"
    /\ Freeable(w, hold[w][r])
    /\ RefundUsage(w, hold[w][r].amount, hold[w][r].usageDay)
    /\ held' = [held EXCEPT ![w] = @ - hold[w][r].amount]
    /\ hold' = [hold EXCEPT ![w][r].status = final]
    /\ UNCHANGED <<money, status, kycTier, now>>

Expired(h) == h.expiresAt <= now

\* A REFUNDED hold is not refused here: it reaches the ledger, which replays.
CaptureHold(w, r) ==
    LET h == hold[w][r] IN
    /\ h.status \in {"PENDING", "REFUNDED"}
    /\ ~Expired(h)
    /\ \/ /\ Replayed(w, h.amount, r, "PAYMENT")
          /\ UNCHANGED <<money, held>>
       \/ /\ Unused(w, DestOf(h), r)
          /\ Active(w) /\ Active(DestOf(h))
          /\ held[w] >= h.amount
          /\ held' = [held EXCEPT ![w] = @ - h.amount]
          /\ Post(w, DestOf(h), h.amount, r, "PAYMENT")
    /\ hold' = [hold EXCEPT ![w][r].status = "CAPTURED"]
    /\ UNCHANGED <<status, kycTier, spentDay, now, scan>>

\* The expiry is committed, and only then is HOLD_EXPIRED thrown.
CaptureExpiredHold(w, r) ==
    /\ Expired(hold[w][r])
    /\ FreeHold(w, r, "EXPIRED")
    /\ UNCHANGED scan

ReleaseHold(w, r) ==
    /\ FreeHold(w, r, IF Expired(hold[w][r]) THEN "EXPIRED" ELSE "RELEASED")
    /\ UNCHANGED scan

RefundCapture(w, r, f) ==
    LET h == hold[w][r]
        from == DestOf(h)
    IN
    /\ h.status = "CAPTURED"
    /\ \A x \in Owners, y \in HoldRefs : hold[x][y].refundRef = f => x = w /\ y = r
    /\ Funded(from, h.amount)
    /\ \/ /\ Replayed(from, h.amount, f, "REFUND")
          /\ UNCHANGED money
       \/ Move(from, w, h.amount, f, "REFUND")
    /\ hold' = [hold EXCEPT ![w][r] = [h EXCEPT !.status = "REFUNDED", !.refundRef = f]]
    /\ UNCHANGED <<held, status, kycTier, spentDay, now, scan>>

-----------------------------------------------------------------------------
(* The expiry sweeper: releaseExpiredHolds                                 *)

SweepScan(s) ==
    LET found == {k \in HoldKeys : LET h == hold[k[1]][k[2]] IN
                                       h.status = "PENDING" /\ Expired(h)} IN
    /\ scan[s].todo = {}
    /\ found # {}
    /\ scan' = [scan EXCEPT ![s] = [at |-> now, todo |-> found]]
    /\ UNCHANGED <<money, held, status, kycTier, hold, spentDay, now>>

\* Mutant: the deadline is not read again under the lock.
StillDue_Unchecked(s, h) == h.status = "PENDING"

\* Re-read under the wallet lock, against the instant of the scan.
StillDue(s, h) ==
    /\ h.status = "PENDING"
    /\ h.expiresAt <= scan[s].at
    /\ h.expiresAt < now

SweepHold(s, w, r) ==
    /\ <<w, r>> \in scan[s].todo
    /\ StillDue(s, hold[w][r])
    /\ FreeHold(w, r, "EXPIRED")
    /\ scan' = [scan EXCEPT ![s].todo = @ \ {<<w, r>>}]

SweepSkip(s, w, r) ==
    /\ <<w, r>> \in scan[s].todo
    /\ ~StillDue(s, hold[w][r]) \/ ~Freeable(w, hold[w][r])
    /\ scan' = [scan EXCEPT ![s].todo = @ \ {<<w, r>>}]
    /\ UNCHANGED <<money, held, status, kycTier, hold, spentDay, now>>

\* A crash loses the candidates; nothing of the sweep is persisted.
SweepCrash(s) ==
    /\ scan[s].todo # {}
    /\ scan' = [scan EXCEPT ![s].todo = {}]
    /\ UNCHANGED <<money, held, status, kycTier, hold, spentDay, now>>

Tick ==
    /\ now < MaxTime
    /\ now' = now + 1
    /\ UNCHANGED <<money, held, status, kycTier, hold, spentDay, scan>>

-----------------------------------------------------------------------------
LedgerStep ==
    \/ \E w \in Owners, a \in Amounts, ref \in MoveRefs :
          \/ \E type \in {"TOPUP", "REFUND"} : Credit(w, a, ref, type)
          \/ Debit(w, a, ref)
          \/ AdjustDebit(w, a, ref)
          \/ AdjustCredit(w, a, ref)
    \/ \E from \in Users : \E to \in Users \ {from}, a \in Amounts, ref \in MoveRefs :
          Transfer(from, to, a, ref)

HoldStep ==
    \E w \in Owners, r \in HoldRefs :
        \/ \E dest \in Owners \cup {NoWallet}, a \in Amounts, t \in Time :
               CreateHold(w, dest, a, r, t)
        \/ \E t \in Time : ExtendHold(w, r, t)
        \/ CaptureHold(w, r)
        \/ CaptureExpiredHold(w, r)
        \/ ReleaseHold(w, r)
        \/ \E f \in RefundRefOf[r] : RefundCapture(w, r, f)

AdminStep ==
    \/ \E w \in Owners : CreateWallet(w)
    \/ \E w \in Owners, s \in {"ACTIVE", "LOCKED"} : SetLock(w, s)
    \/ \E u \in Users, tier \in Tiers : KycUpdated(u, tier)

SweepStep ==
    \E s \in Sweepers :
        \/ SweepScan(s)
        \/ \E w \in Owners, r \in HoldRefs : SweepHold(s, w, r) \/ SweepSkip(s, w, r)
        \/ SweepCrash(s)

Next == LedgerStep \/ HoldStep \/ AdminStep \/ SweepStep \/ Tick

Spec == Init /\ [][Next]_vars
=============================================================================
