------------------------- MODULE WalletLedgerProofs -------------------------
(***************************************************************************)
(* Theorems about WalletLedger, for every set of wallets, references and   *)
(* amounts, every clock and every limit policy.                            *)
(***************************************************************************)
EXTENDS WalletLedgerProps, TLAPS

\* The facts about the constants that the steps below rest on.
LEMMA ConstantTypes ==
    /\ \A a \in Amounts : a \in Nat /\ a > 0
    /\ MaxTime \in Nat
    /\ 0 \in Time
    /\ \A t \in Time : DayOf[t] \in Days
    /\ \A w \in Owners : w \in Wallets /\ w # SETTLEMENT /\ w # CLEARING_TOPUP
                         /\ w \notin SystemWallets
    /\ SETTLEMENT \in Wallets /\ CLEARING_TOPUP \in Wallets
    /\ SETTLEMENT \in SystemWallets /\ CLEARING_TOPUP \in SystemWallets
    /\ NoWallet \notin Wallets
    /\ Users \subseteq Owners
    /\ HoldRefs \subseteq Refs /\ MoveRefs \subseteq Refs /\ RefundRefs \subseteq Refs
    /\ \A r \in HoldRefs : RefundRefOf[r] \subseteq RefundRefs
    /\ NoRef \notin Refs
    /\ 0 \in Tiers
<1>1. /\ \A a \in Amounts : a \in Nat /\ a > 0
      /\ MaxTime \in Nat
      /\ 0 \in Tiers
  BY AmountAssumption, TimeAssumption, LimitAssumption
     DEF AmountAssumption, TimeAssumption, LimitAssumption
<1>2. 0 \in Time BY <1>1 DEF Time
<1>3. \A t \in Time : DayOf[t] \in Days BY DEF Days
<1>4. /\ \A w \in Owners : w \in Wallets /\ w # SETTLEMENT /\ w # CLEARING_TOPUP
                           /\ w \notin SystemWallets
      /\ SETTLEMENT \in Wallets /\ CLEARING_TOPUP \in Wallets
      /\ SETTLEMENT \in SystemWallets /\ CLEARING_TOPUP \in SystemWallets
      /\ NoWallet \notin Wallets
      /\ Users \subseteq Owners
  BY WalletAssumption DEF WalletAssumption, Wallets, Owners, SystemWallets
<1>5. /\ HoldRefs \subseteq Refs /\ MoveRefs \subseteq Refs /\ RefundRefs \subseteq Refs
      /\ \A r \in HoldRefs : RefundRefOf[r] \subseteq RefundRefs
      /\ NoRef \notin Refs
  BY RefAssumption DEF RefAssumption, Refs, RefundRefs
<1>. QED BY <1>1, <1>2, <1>3, <1>4, <1>5

-----------------------------------------------------------------------------
(* Types                                                                   *)

\* A movement keeps the types of balances and entries.
LEMMA PostType ==
  ASSUME TypeOK,
         NEW from \in Wallets, NEW to \in Wallets, NEW amount \in Nat,
         NEW ref \in Refs, NEW type \in TransferType,
         Post(from, to, amount, ref, type)
  PROVE  /\ balance' \in [Wallets -> Int]
         /\ entry' \in [Wallets -> [Refs -> Entries]]
<1>1. balance' \in [Wallets -> Int] BY DEF TypeOK, Post
<1>2. /\ [dir |-> "DEBIT", type |-> type, amount |-> amount, peer |-> to,
          day |-> DayOf[now]] \in Entries
      /\ [dir |-> "CREDIT", type |-> type, amount |-> amount, peer |-> from,
          day |-> DayOf[now]] \in Entries
  BY ConstantTypes DEF TypeOK, Entries
<1>3. entry' \in [Wallets -> [Refs -> Entries]] BY <1>2 DEF TypeOK, Post
<1>. QED BY <1>1, <1>3

\* Reserving and giving back usage keep the type of the usage rows.
LEMMA UsageType ==
  ASSUME TypeOK, NEW w, NEW amount \in Nat, NEW day \in Days,
         CheckAndReserve(w, amount) \/ RefundUsage(w, amount, day)
  PROVE  spentDay' \in [Users -> [Days -> Int]]
<1>1. DayOf[now] \in Days BY ConstantTypes DEF TypeOK
<1>2. CASE w \notin Users BY <1>2 DEF TypeOK, CheckAndReserve, RefundUsage
<1>3. CASE w \in Users
  <2>1. \/ spentDay' = [spentDay EXCEPT ![w][DayOf[now]] = @ + amount]
        \/ spentDay' = [spentDay EXCEPT ![w][day] = @ - amount]
    BY <1>3 DEF CheckAndReserve, RefundUsage
  <2>. QED BY <1>1, <1>3, <2>1 DEF TypeOK
<1>. QED BY <1>2, <1>3

\* Freeing a hold keeps every type it touches.
LEMMA FreeHoldType ==
  ASSUME TypeOK, NEW w \in Owners, NEW r \in HoldRefs, NEW final \in HoldStatus,
         FreeHold(w, r, final)
  PROVE  /\ held' \in [Wallets -> Int]
         /\ hold' \in [Owners -> [HoldRefs -> Holds]]
         /\ spentDay' \in [Users -> [Days -> Int]]
<1>1. hold[w][r] \in Holds BY DEF TypeOK
<1>2. hold[w][r].amount \in Nat /\ hold[w][r].usageDay \in Days BY <1>1 DEF Holds
<1>3. held' = [held EXCEPT ![w] = @ - hold[w][r].amount] BY DEF FreeHold
<1>4. held' \in [Wallets -> Int] BY <1>2, <1>3, ConstantTypes DEF TypeOK
<1>5. hold' \in [Owners -> [HoldRefs -> Holds]] BY <1>1 DEF TypeOK, FreeHold, Holds
<1>6. spentDay' \in [Users -> [Days -> Int]] BY <1>2, UsageType DEF FreeHold
<1>. QED BY <1>4, <1>5, <1>6

LEMMA InitType == Init => TypeOK
<1>. SUFFICES ASSUME Init PROVE TypeOK OBVIOUS
<1>1. DayOf[0] \in Days BY ConstantTypes
<1>2. NoHold \in Holds BY <1>1, ConstantTypes DEF NoHold, Holds, HoldStatus
<1>3. NoEntry \in Entries BY <1>1 DEF NoEntry, Entries
<1>4. hold \in [Owners -> [HoldRefs -> Holds]] BY <1>2 DEF Init
<1>5. entry \in [Wallets -> [Refs -> Entries]] BY <1>3 DEF Init
<1>6. /\ balance \in [Wallets -> Int]
      /\ held \in [Wallets -> Int]
      /\ status \in [Wallets -> WalletStatus]
      /\ kycTier \in [Users -> Tiers]
      /\ spentDay \in [Users -> [Days -> Int]]
      /\ now \in Time
  BY ConstantTypes DEF Init, WalletStatus
<1>7. scan \in [Sweepers -> [at : Time, todo : SUBSET HoldKeys]]
  BY ConstantTypes DEF Init
<1>. QED BY <1>4, <1>5, <1>6, <1>7 DEF TypeOK

\* A ledger operation is one on a wallet w, under one reference.
LEMMA LedgerStepIs ==
  LedgerStep =>
    \E w \in Owners, a \in Amounts, ref \in MoveRefs :
      \/ \E type \in {"TOPUP", "REFUND"} : Credit(w, a, ref, type)
      \/ Debit(w, a, ref)
      \/ \E u \in Users : Transfer(w, u, a, ref)
      \/ AdjustDebit(w, a, ref)
      \/ AdjustCredit(w, a, ref)
  BY Zenon DEF LedgerStep, Owners

\* The ledger operations: nothing but balances, entries and usage changes.
LEMMA LedgerStepType == TypeOK /\ LedgerStep => TypeOK'
<1>. SUFFICES ASSUME TypeOK,
                     NEW w \in Owners, NEW a \in Amounts, NEW ref \in MoveRefs,
                     \/ \E type \in {"TOPUP", "REFUND"} : Credit(w, a, ref, type)
                     \/ Debit(w, a, ref)
                     \/ \E u \in Users : Transfer(w, u, a, ref)
                     \/ AdjustDebit(w, a, ref)
                     \/ AdjustCredit(w, a, ref)
              PROVE  TypeOK'
  BY LedgerStepIs
<1>1. a \in Nat /\ w \in Wallets /\ ref \in Refs BY ConstantTypes
<1>2. ASSUME NEW from \in Wallets, NEW to \in Wallets, NEW type \in TransferType,
             Post(from, to, a, ref, type),
             UNCHANGED <<held, status, kycTier, hold, now, scan>>,
             spentDay' \in [Users -> [Days -> Int]]
      PROVE  TypeOK'
  BY <1>1, <1>2, PostType DEF TypeOK
<1>3. ASSUME UNCHANGED spentDay PROVE spentDay' \in [Users -> [Days -> Int]]
  BY <1>3 DEF TypeOK
<1>4. ASSUME NEW type \in {"TOPUP", "REFUND"}, Credit(w, a, ref, type) PROVE TypeOK'
  <2>1. PICK from \in Wallets : Post(from, w, a, ref, type)
    BY <1>4, ConstantTypes DEF Credit, Move
  <2>. QED BY <1>1, <1>2, <1>3, <1>4, <2>1 DEF Credit, TransferType
<1>5. CASE Debit(w, a, ref)
  BY <1>1, <1>2, <1>3, <1>5, ConstantTypes DEF Debit, Move, TransferType
<1>6. ASSUME NEW u \in Users, Transfer(w, u, a, ref) PROVE TypeOK'
  <2>1. DayOf[0] \in Days BY ConstantTypes
  <2>2. spentDay' \in [Users -> [Days -> Int]] BY <1>1, <1>6, <2>1, UsageType DEF Transfer
  <2>3. u \in Wallets BY ConstantTypes
  <2>. QED BY <1>1, <1>2, <1>6, <2>2, <2>3 DEF Transfer, Move, TransferType
<1>7. CASE AdjustDebit(w, a, ref)
  BY <1>1, <1>2, <1>3, <1>7, ConstantTypes DEF AdjustDebit, TransferType
<1>8. CASE AdjustCredit(w, a, ref)
  BY <1>1, <1>2, <1>3, <1>8, ConstantTypes DEF AdjustCredit, Move, TransferType
<1>. QED BY <1>4, <1>5, <1>6, <1>7, <1>8

\* Calls on holds.
LEMMA HoldStepType == TypeOK /\ HoldStep => TypeOK'
<1>. SUFFICES ASSUME TypeOK, NEW w \in Owners, NEW r \in HoldRefs,
                     \/ \E dest \in Owners \cup {NoWallet}, a \in Amounts, t \in Time :
                            CreateHold(w, dest, a, r, t)
                     \/ \E t \in Time : ExtendHold(w, r, t)
                     \/ CaptureHold(w, r)
                     \/ CaptureExpiredHold(w, r)
                     \/ ReleaseHold(w, r)
                     \/ \E f \in RefundRefOf[r] : RefundCapture(w, r, f)
              PROVE  TypeOK'
  BY DEF HoldStep
<1>1. w \in Wallets /\ r \in Refs /\ now \in Time /\ DayOf[now] \in Days
  BY ConstantTypes DEF TypeOK
<1>2. hold[w][r] \in Holds BY DEF TypeOK
<1>3. hold[w][r].amount \in Nat /\ DestOf(hold[w][r]) \in Wallets
  BY <1>2, ConstantTypes DEF Holds, DestOf
<1>4. ASSUME NEW dest \in Owners \cup {NoWallet}, NEW a \in Amounts, NEW t \in Time,
             CreateHold(w, dest, a, r, t)
      PROVE  TypeOK'
  <2>1. a \in Nat BY ConstantTypes
  <2>2. spentDay' \in [Users -> [Days -> Int]]
    BY <1>1, <1>4, <2>1, UsageType DEF CreateHold
  <2>3. held' = [held EXCEPT ![w] = @ + a] BY <1>4 DEF CreateHold
  <2>4. held' \in [Wallets -> Int] BY <1>1, <2>1, <2>3 DEF TypeOK
  <2>5. [status |-> "PENDING", amount |-> a, dest |-> dest, createdAt |-> now,
         expiresAt |-> t, usageDay |-> DayOf[now], refundRef |-> NoRef] \in Holds
    BY <1>1, <2>1 DEF Holds, HoldStatus
  <2>6. hold' \in [Owners -> [HoldRefs -> Holds]] BY <1>4, <2>5 DEF CreateHold, TypeOK
  <2>. QED BY <1>4, <2>2, <2>4, <2>6 DEF CreateHold, TypeOK, money
<1>5. ASSUME NEW t \in Time, ExtendHold(w, r, t) PROVE TypeOK'
  <2>1. hold' \in [Owners -> [HoldRefs -> Holds]]
    BY <1>2, <1>5 DEF ExtendHold, TypeOK, Holds
  <2>. QED BY <1>5, <2>1 DEF ExtendHold, TypeOK, money
<1>6. CASE CaptureHold(w, r)
  <2>1. hold' \in [Owners -> [HoldRefs -> Holds]]
    BY <1>2, <1>6 DEF CaptureHold, TypeOK, Holds, HoldStatus
  <2>2. CASE UNCHANGED <<money, held>>
    BY <1>6, <2>1, <2>2 DEF CaptureHold, TypeOK, money
  <2>3. CASE /\ held' = [held EXCEPT ![w] = @ - hold[w][r].amount]
             /\ Post(w, DestOf(hold[w][r]), hold[w][r].amount, r, "PAYMENT")
    <3>1. held' \in [Wallets -> Int] BY <1>1, <1>3, <2>3 DEF TypeOK
    <3>2. /\ balance' \in [Wallets -> Int]
          /\ entry' \in [Wallets -> [Refs -> Entries]]
      BY <1>1, <1>3, <2>3, PostType DEF TransferType
    <3>. QED BY <1>6, <2>1, <3>1, <3>2 DEF CaptureHold, TypeOK
  <2>. QED BY <1>6, <2>2, <2>3 DEF CaptureHold
<1>7. ASSUME NEW final \in HoldStatus, FreeHold(w, r, final), UNCHANGED scan
      PROVE  TypeOK'
  BY <1>7, FreeHoldType DEF FreeHold, TypeOK, money
<1>8. CASE CaptureExpiredHold(w, r)
  BY <1>7, <1>8 DEF CaptureExpiredHold, HoldStatus
<1>9. CASE ReleaseHold(w, r)
  BY <1>7, <1>9 DEF ReleaseHold, HoldStatus
<1>10. ASSUME NEW f \in RefundRefOf[r], RefundCapture(w, r, f) PROVE TypeOK'
  <2>1. f \in RefundRefs /\ f \in Refs BY ConstantTypes
  <2>2. [hold[w][r] EXCEPT !.status = "REFUNDED", !.refundRef = f] \in Holds
    BY <1>2, <2>1 DEF Holds, HoldStatus
  <2>3. hold' = [hold EXCEPT ![w][r] =
                   [hold[w][r] EXCEPT !.status = "REFUNDED", !.refundRef = f]]
    BY <1>10, Zenon DEF RefundCapture
  <2>4. hold' \in [Owners -> [HoldRefs -> Holds]] BY <2>2, <2>3 DEF TypeOK
  <2>5. UNCHANGED <<held, status, kycTier, spentDay, now, scan>>
    BY <1>10, Zenon DEF RefundCapture
  <2>6. CASE UNCHANGED money
    BY <2>4, <2>5, <2>6 DEF TypeOK, money
  <2>7. CASE Post(DestOf(hold[w][r]), w, hold[w][r].amount, f, "REFUND")
    <3>1. /\ balance' \in [Wallets -> Int]
          /\ entry' \in [Wallets -> [Refs -> Entries]]
      BY <1>1, <1>3, <2>1, <2>7, PostType DEF TransferType
    <3>. QED BY <2>4, <2>5, <3>1 DEF TypeOK
  <2>. QED BY <1>10, <2>6, <2>7 DEF RefundCapture, Move
<1>. QED BY <1>4, <1>5, <1>6, <1>8, <1>9, <1>10

\* The sweeper, administrators and the clock.
LEMMA OtherStepType == TypeOK /\ (AdminStep \/ SweepStep \/ Tick) => TypeOK'
<1>. SUFFICES ASSUME TypeOK, AdminStep \/ SweepStep \/ Tick PROVE TypeOK' OBVIOUS
<1>1. CASE AdminStep
  <2>1. ASSUME NEW w \in Owners, CreateWallet(w) PROVE TypeOK'
    BY <2>1, ConstantTypes DEF CreateWallet, TypeOK, money, WalletStatus
  <2>2. ASSUME NEW w \in Owners, NEW s \in {"ACTIVE", "LOCKED"}, SetLock(w, s) PROVE TypeOK'
    BY <2>2, ConstantTypes DEF SetLock, TypeOK, money, WalletStatus
  <2>3. ASSUME NEW u \in Users, NEW tier \in Tiers, KycUpdated(u, tier) PROVE TypeOK'
    BY <2>3, ConstantTypes DEF KycUpdated, TypeOK, money, WalletStatus
  <2>. QED BY <1>1, <2>1, <2>2, <2>3 DEF AdminStep
<1>2. CASE Tick
  BY <1>2, ConstantTypes DEF Tick, TypeOK, money, Time
<1>3. CASE SweepStep
  <2>1. PICK s \in Sweepers :
           \/ SweepScan(s)
           \/ \E w \in Owners, r \in HoldRefs : SweepHold(s, w, r) \/ SweepSkip(s, w, r)
           \/ SweepCrash(s)
    BY <1>3 DEF SweepStep
  <2>2. CASE SweepScan(s)
    <3>1. PICK found \in SUBSET HoldKeys :
             scan' = [scan EXCEPT ![s] = [at |-> now, todo |-> found]]
      BY <2>2 DEF SweepScan
    <3>. QED BY <2>2, <3>1 DEF SweepScan, TypeOK, money
  <2>3. ASSUME NEW w \in Owners, NEW r \in HoldRefs, SweepHold(s, w, r) PROVE TypeOK'
    <3>1. scan' \in [Sweepers -> [at : Time, todo : SUBSET HoldKeys]]
      BY <2>3 DEF SweepHold, TypeOK
    <3>. QED BY <2>3, <3>1, FreeHoldType DEF SweepHold, FreeHold, TypeOK, money, HoldStatus
  <2>4. ASSUME NEW w \in Owners, NEW r \in HoldRefs, SweepSkip(s, w, r) PROVE TypeOK'
    BY <2>4 DEF SweepSkip, TypeOK, money
  <2>5. CASE SweepCrash(s)
    BY <2>5 DEF SweepCrash, TypeOK, money
  <2>. QED BY <2>1, <2>2, <2>3, <2>4, <2>5
<1>. QED BY <1>1, <1>2, <1>3

\* Every reachable state has the declared types.
THEOREM TypeCorrect == Spec => []TypeOK
<1>1. TypeOK /\ [Next]_vars => TypeOK'
  <2>1. TypeOK /\ UNCHANGED vars => TypeOK' BY DEF TypeOK, vars
  <2>. QED BY <2>1, LedgerStepType, HoldStepType, OtherStepType DEF Next
<1>. QED BY <1>1, InitType, PTL DEF Spec

-----------------------------------------------------------------------------
(* Solvency                                                                *)

\* A movement that leaves the reservations alone keeps every wallet solvent.
LEMMA MoveSolvent ==
  ASSUME TypeOK, Solvent, NEW from \in Wallets, NEW to \in Wallets, NEW amount \in Nat,
         NEW ref, NEW type, Funded(from, amount),
         Post(from, to, amount, ref, type), UNCHANGED held
  PROVE  Solvent'
<1>1. balance' = [balance EXCEPT ![from] = @ - amount, ![to] = @ + amount] BY DEF Post
<1>2. from \notin Owners \/ balance[from] - held[from] >= amount
  BY ConstantTypes DEF Funded, Available
<1>3. ASSUME NEW w \in Owners PROVE 0 <= held'[w] /\ held'[w] <= balance'[w]
  <2>1. /\ w \in Wallets /\ balance[w] \in Int /\ held[w] \in Int
        /\ 0 <= held[w] /\ held[w] <= balance[w] /\ held'[w] = held[w]
    BY ConstantTypes DEF TypeOK, Solvent
  <2>2. balance[from] \in Int /\ balance[to] \in Int BY DEF TypeOK
  <2>3. CASE w = from
    BY <1>1, <1>2, <2>1, <2>2, <2>3 DEF TypeOK
  <2>4. CASE w # from /\ w = to
    BY <1>1, <2>1, <2>2, <2>4 DEF TypeOK
  <2>5. CASE w # from /\ w # to
    BY <1>1, <2>1, <2>5 DEF TypeOK
  <2>. QED BY <2>3, <2>4, <2>5
<1>. QED BY <1>3 DEF Solvent

\* Freeing a hold lowers a reservation that covers it, and moves no money.
LEMMA FreeSolvent ==
  ASSUME TypeOK, Solvent, NEW w \in Owners, NEW r \in HoldRefs, NEW final,
         FreeHold(w, r, final)
  PROVE  Solvent'
<1>1. hold[w][r].amount \in Nat BY DEF TypeOK, Holds
<1>2. /\ held' = [held EXCEPT ![w] = @ - hold[w][r].amount]
      /\ held[w] >= hold[w][r].amount
      /\ UNCHANGED balance
  BY DEF FreeHold, Freeable, money
<1>. QED BY <1>1, <1>2, ConstantTypes DEF TypeOK, Solvent

\* The amount of a hold that is there, and the wallet it pays.
LEMMA HoldData ==
  ASSUME TypeOK, NEW w \in Owners, NEW r \in HoldRefs
  PROVE  /\ hold[w][r] \in Holds
         /\ hold[w][r].amount \in Nat
         /\ DestOf(hold[w][r]) \in Wallets
<1>1. hold[w][r] \in Holds BY DEF TypeOK
<1>. QED BY <1>1, ConstantTypes DEF Holds, DestOf

LEMMA HoldStepSolvent == TypeOK /\ Solvent /\ HoldStep => Solvent'
<1>. SUFFICES ASSUME TypeOK, Solvent, NEW w \in Owners, NEW r \in HoldRefs,
                     \/ \E dest \in Owners \cup {NoWallet}, a \in Amounts, t \in Time :
                            CreateHold(w, dest, a, r, t)
                     \/ \E t \in Time : ExtendHold(w, r, t)
                     \/ CaptureHold(w, r)
                     \/ CaptureExpiredHold(w, r)
                     \/ ReleaseHold(w, r)
                     \/ \E f \in RefundRefOf[r] : RefundCapture(w, r, f)
              PROVE  Solvent'
  BY DEF HoldStep
<1>1. w \in Wallets BY ConstantTypes
<1>2. hold[w][r].amount \in Nat /\ DestOf(hold[w][r]) \in Wallets BY HoldData
<1>3. ASSUME NEW dest, NEW a \in Amounts, NEW t, CreateHold(w, dest, a, r, t) PROVE Solvent'
  <2>1. a \in Nat BY ConstantTypes
  <2>2. /\ held' = [held EXCEPT ![w] = @ + a]
        /\ balance[w] - held[w] >= a
        /\ UNCHANGED balance
    BY <1>3 DEF CreateHold, Available, money
  <2>. QED BY <2>1, <2>2, ConstantTypes DEF TypeOK, Solvent
<1>4. ASSUME NEW t, ExtendHold(w, r, t) PROVE Solvent'
  <2>1. UNCHANGED <<balance, held>> BY <1>4, Zenon DEF ExtendHold, money
  <2>. QED BY <2>1 DEF Solvent
<1>5. CASE CaptureHold(w, r)
  <2>1. CASE UNCHANGED <<money, held>> BY <2>1 DEF Solvent, money
  <2>2. CASE /\ held[w] >= hold[w][r].amount
             /\ held' = [held EXCEPT ![w] = @ - hold[w][r].amount]
             /\ Post(w, DestOf(hold[w][r]), hold[w][r].amount, r, "PAYMENT")
    <3>1. balance' = [balance EXCEPT ![w] = @ - hold[w][r].amount,
                                     ![DestOf(hold[w][r])] = @ + hold[w][r].amount]
      BY <2>2 DEF Post
    <3>. QED BY <1>1, <1>2, <2>2, <3>1, ConstantTypes DEF TypeOK, Solvent
  <2>. QED BY <1>5, <2>1, <2>2, Zenon DEF CaptureHold
<1>6. CASE CaptureExpiredHold(w, r) BY <1>6, FreeSolvent DEF CaptureExpiredHold
<1>7. CASE ReleaseHold(w, r) BY <1>7, FreeSolvent DEF ReleaseHold
<1>8. ASSUME NEW f \in RefundRefOf[r], RefundCapture(w, r, f) PROVE Solvent'
  <2>1. UNCHANGED held BY <1>8, Zenon DEF RefundCapture
  <2>2. Funded(DestOf(hold[w][r]), hold[w][r].amount) BY <1>8, Zenon DEF RefundCapture
  <2>3. CASE UNCHANGED money BY <2>1, <2>3 DEF Solvent, money
  <2>4. CASE Post(DestOf(hold[w][r]), w, hold[w][r].amount, f, "REFUND")
    BY <1>1, <1>2, <2>1, <2>2, <2>4, MoveSolvent
  <2>. QED BY <1>8, <2>3, <2>4, Zenon DEF RefundCapture, Move
<1>. QED BY <1>3, <1>4, <1>5, <1>6, <1>7, <1>8

LEMMA LedgerStepSolvent == TypeOK /\ Solvent /\ LedgerStep => Solvent'
<1>. SUFFICES ASSUME TypeOK, Solvent,
                     NEW w \in Owners, NEW a \in Amounts, NEW ref \in MoveRefs,
                     \/ \E type \in {"TOPUP", "REFUND"} : Credit(w, a, ref, type)
                     \/ Debit(w, a, ref)
                     \/ \E u \in Users : Transfer(w, u, a, ref)
                     \/ AdjustDebit(w, a, ref)
                     \/ AdjustCredit(w, a, ref)
              PROVE  Solvent'
  BY LedgerStepIs
<1>1. PICK from \in Wallets, to \in Wallets, type \in TransferType :
         /\ Funded(from, a)
         /\ Post(from, to, a, ref, type)
         /\ UNCHANGED held
  BY ConstantTypes DEF Credit, Debit, Transfer, AdjustDebit, AdjustCredit, Move, TransferType
<1>2. a \in Nat BY ConstantTypes
<1>. QED BY <1>1, <1>2, MoveSolvent

\* No USER or MERCHANT wallet is ever overdrawn or reserved beyond its balance.
THEOREM Solvency == Spec => []Solvent
<1>1. Init => Solvent BY ConstantTypes DEF Init, Solvent
<1>2. TypeOK /\ Solvent /\ [Next]_vars => Solvent'
  <2>. SUFFICES ASSUME TypeOK, Solvent, [Next]_vars PROVE Solvent' OBVIOUS
  <2>1. CASE UNCHANGED <<balance, held>> BY <2>1 DEF Solvent
  <2>2. CASE AdminStep \/ Tick \/ UNCHANGED vars
    BY <2>1, <2>2 DEF AdminStep, CreateWallet, SetLock, KycUpdated, Tick, vars, money
  <2>3. CASE SweepStep
    <3>1. PICK s \in Sweepers :
             \/ SweepScan(s)
             \/ \E w \in Owners, r \in HoldRefs : SweepHold(s, w, r) \/ SweepSkip(s, w, r)
             \/ SweepCrash(s)
      BY <2>3 DEF SweepStep
    <3>2. ASSUME NEW w \in Owners, NEW r \in HoldRefs, SweepHold(s, w, r) PROVE Solvent'
      BY <3>2, FreeSolvent DEF SweepHold
    <3>3. ASSUME NEW w \in Owners, NEW r \in HoldRefs, SweepSkip(s, w, r) PROVE Solvent'
      BY <2>1, <3>3 DEF SweepSkip, money
    <3>4. CASE SweepScan(s) \/ SweepCrash(s)
      BY <2>1, <3>4 DEF SweepScan, SweepCrash, money
    <3>. QED BY <3>1, <3>2, <3>3, <3>4
  <2>. QED BY <2>2, <2>3, LedgerStepSolvent, HoldStepSolvent DEF Next
<1>. QED BY <1>1, <1>2, TypeCorrect, PTL DEF Spec

-----------------------------------------------------------------------------
(* The life of a hold                                                      *)

\* What one step can make of a hold h.
Became(h, new) ==
    \/ new = h
    \/ h.status = "NONE" /\ new.status = "PENDING"
    \/ h.status = "PENDING" /\ new.status \in {"PENDING", "RELEASED"}
    \/ h.status = "PENDING" /\ new.status = "EXPIRED" /\ Expired(h)
    \/ h.status \in {"PENDING", "REFUNDED"} /\ new.status = "CAPTURED"
    \/ h.status = "CAPTURED" /\ new.status = "REFUNDED"

\* A step that rewrites one hold leaves every other as it is.
LEMMA OneHold ==
  ASSUME TypeOK, NEW w \in Owners, NEW r \in HoldRefs, NEW new,
         hold' = [hold EXCEPT ![w][r] = new],
         Became(hold[w][r], new)
  PROVE  \A x \in Owners, y \in HoldRefs : Became(hold[x][y], hold'[x][y])
<1>. SUFFICES ASSUME NEW x \in Owners, NEW y \in HoldRefs
              PROVE  Became(hold[x][y], hold'[x][y])
  OBVIOUS
<1>1. CASE x = w /\ y = r
  <2>1. hold'[x][y] = new BY <1>1 DEF TypeOK
  <2>. QED BY <1>1, <2>1
<1>2. CASE ~(x = w /\ y = r)
  <2>1. hold'[x][y] = hold[x][y] BY <1>2 DEF TypeOK
  <2>. QED BY <2>1 DEF Became
<1>. QED BY <1>1, <1>2

LEMMA FreeBecomes ==
  ASSUME TypeOK, NEW w \in Owners, NEW r \in HoldRefs, NEW final,
         FreeHold(w, r, final),
         final = "RELEASED" \/ (final = "EXPIRED" /\ Expired(hold[w][r]))
  PROVE  \A x \in Owners, y \in HoldRefs : Became(hold[x][y], hold'[x][y])
<1>1. /\ hold' = [hold EXCEPT ![w][r] = [hold[w][r] EXCEPT !.status = final]]
      /\ hold[w][r].status = "PENDING"
  BY Zenon DEF FreeHold
<1>2. [hold[w][r] EXCEPT !.status = final].status = final
  BY HoldData DEF Holds
<1>3. Became(hold[w][r], [hold[w][r] EXCEPT !.status = final])
  BY <1>1, <1>2 DEF Became
<1>. QED BY <1>1, <1>3, OneHold

LEMMA HoldStepBecomes ==
  TypeOK /\ HoldStep =>
      \A x \in Owners, y \in HoldRefs : Became(hold[x][y], hold'[x][y])
<1>. SUFFICES ASSUME TypeOK, NEW w \in Owners, NEW r \in HoldRefs,
                     \/ \E dest \in Owners \cup {NoWallet}, a \in Amounts, t \in Time :
                            CreateHold(w, dest, a, r, t)
                     \/ \E t \in Time : ExtendHold(w, r, t)
                     \/ CaptureHold(w, r)
                     \/ CaptureExpiredHold(w, r)
                     \/ ReleaseHold(w, r)
                     \/ \E f \in RefundRefOf[r] : RefundCapture(w, r, f)
              PROVE  \A x \in Owners, y \in HoldRefs : Became(hold[x][y], hold'[x][y])
  BY DEF HoldStep
<1>1. hold[w][r] \in Holds BY HoldData
<1>2. ASSUME NEW dest, NEW a, NEW t, CreateHold(w, dest, a, r, t)
      PROVE  \A x \in Owners, y \in HoldRefs : Became(hold[x][y], hold'[x][y])
  <2> DEFINE new == [status |-> "PENDING", amount |-> a, dest |-> dest, createdAt |-> now,
                     expiresAt |-> t, usageDay |-> DayOf[now], refundRef |-> NoRef]
  <2>1. hold' = [hold EXCEPT ![w][r] = new] BY <1>2, Zenon DEF CreateHold
  <2>2. new.status = "PENDING" OBVIOUS
  <2>3. hold[w][r].status = "NONE" BY <1>2 DEF CreateHold, NoHold
  <2>4. Became(hold[w][r], new) BY <2>2, <2>3 DEF Became
  <2>. QED BY <2>1, <2>4, OneHold
<1>3. ASSUME NEW t, ExtendHold(w, r, t)
      PROVE  \A x \in Owners, y \in HoldRefs : Became(hold[x][y], hold'[x][y])
  <2>1. /\ hold' = [hold EXCEPT ![w][r] = [hold[w][r] EXCEPT !.expiresAt = t]]
        /\ hold[w][r].status = "PENDING"
    BY <1>3, Zenon DEF ExtendHold
  <2>2. [hold[w][r] EXCEPT !.expiresAt = t].status = "PENDING"
    BY <1>1, <2>1 DEF Holds
  <2>3. Became(hold[w][r], [hold[w][r] EXCEPT !.expiresAt = t])
    BY <2>1, <2>2 DEF Became
  <2>. QED BY <2>1, <2>3, OneHold
<1>4. CASE CaptureHold(w, r)
  <2>1. /\ hold' = [hold EXCEPT ![w][r] = [hold[w][r] EXCEPT !.status = "CAPTURED"]]
        /\ hold[w][r].status \in {"PENDING", "REFUNDED"}
    BY <1>4, Zenon DEF CaptureHold
  <2>2. [hold[w][r] EXCEPT !.status = "CAPTURED"].status = "CAPTURED"
    BY <1>1 DEF Holds
  <2>3. Became(hold[w][r], [hold[w][r] EXCEPT !.status = "CAPTURED"])
    BY <2>1, <2>2 DEF Became
  <2>. QED BY <2>1, <2>3, OneHold
<1>5. CASE CaptureExpiredHold(w, r)
  BY <1>5, FreeBecomes DEF CaptureExpiredHold
<1>6. CASE ReleaseHold(w, r)
  <2>1. PICK final : /\ FreeHold(w, r, final)
                     /\ final = IF Expired(hold[w][r]) THEN "EXPIRED" ELSE "RELEASED"
    BY <1>6, Zenon DEF ReleaseHold
  <2>2. final = "RELEASED" \/ (final = "EXPIRED" /\ Expired(hold[w][r])) BY <2>1
  <2>. QED BY <2>1, <2>2, FreeBecomes
<1>7. ASSUME NEW f \in RefundRefOf[r], RefundCapture(w, r, f)
      PROVE  \A x \in Owners, y \in HoldRefs : Became(hold[x][y], hold'[x][y])
  <2>1. /\ hold' = [hold EXCEPT ![w][r] =
                      [hold[w][r] EXCEPT !.status = "REFUNDED", !.refundRef = f]]
        /\ hold[w][r].status = "CAPTURED"
    BY <1>7, Zenon DEF RefundCapture
  <2>2. [hold[w][r] EXCEPT !.status = "REFUNDED", !.refundRef = f].status = "REFUNDED"
    BY <1>1 DEF Holds
  <2>3. Became(hold[w][r], [hold[w][r] EXCEPT !.status = "REFUNDED", !.refundRef = f])
    BY <2>1, <2>2 DEF Became
  <2>. QED BY <2>1, <2>3, OneHold
<1>. QED BY <1>2, <1>3, <1>4, <1>5, <1>6, <1>7

\* Every step of the system does to every hold one of these.
LEMMA StepBecomes ==
  TypeOK /\ [Next]_vars =>
      \A x \in Owners, y \in HoldRefs : Became(hold[x][y], hold'[x][y])
<1>. SUFFICES ASSUME TypeOK, [Next]_vars
              PROVE  \A x \in Owners, y \in HoldRefs : Became(hold[x][y], hold'[x][y])
  OBVIOUS
<1>1. CASE UNCHANGED hold BY <1>1 DEF Became
<1>2. CASE LedgerStep \/ AdminStep \/ Tick \/ UNCHANGED vars
  <2>1. LedgerStep => UNCHANGED hold
    BY Zenon DEF LedgerStep, Credit, Debit, Transfer, AdjustDebit, AdjustCredit
  <2>2. AdminStep => UNCHANGED hold
    BY Zenon DEF AdminStep, CreateWallet, SetLock, KycUpdated
  <2>3. Tick \/ UNCHANGED vars => UNCHANGED hold
    BY DEF Tick, vars
  <2>. QED BY <1>1, <1>2, <2>1, <2>2, <2>3
<1>3. CASE SweepStep
  <2>1. PICK s \in Sweepers :
           \/ SweepScan(s)
           \/ \E w \in Owners, r \in HoldRefs : SweepHold(s, w, r) \/ SweepSkip(s, w, r)
           \/ SweepCrash(s)
    BY <1>3 DEF SweepStep
  <2>2. CASE SweepScan(s) \/ SweepCrash(s)
    BY <1>1, <2>2 DEF SweepScan, SweepCrash
  <2>3. ASSUME NEW w \in Owners, NEW r \in HoldRefs, SweepHold(s, w, r)
        PROVE  \A x \in Owners, y \in HoldRefs : Became(hold[x][y], hold'[x][y])
    <3>1. hold[w][r].expiresAt \in Int /\ now \in Int
      BY HoldData DEF TypeOK, Holds, Time
    <3>2. Expired(hold[w][r]) BY <2>3, <3>1 DEF SweepHold, StillDue, Expired
    <3>. QED BY <2>3, <3>2, FreeBecomes DEF SweepHold
  <2>4. ASSUME NEW w \in Owners, NEW r \in HoldRefs, SweepSkip(s, w, r)
        PROVE  \A x \in Owners, y \in HoldRefs : Became(hold[x][y], hold'[x][y])
    BY <1>1, <2>4 DEF SweepSkip
  <2>. QED BY <2>1, <2>2, <2>3, <2>4
<1>. QED BY <1>2, <1>3, HoldStepBecomes DEF Next

\* What was released or expired stays so, and what was captured can only be
\* refunded, whatever calls, retries and stale sweeps meet.
THEOREM NoRevival == Spec => HoldNeverRevives
<1>1. TypeOK /\ [Next]_vars =>
        \A w \in Owners, r \in HoldRefs :
            /\ hold[w][r].status \in {"RELEASED", "EXPIRED"} => hold'[w][r] = hold[w][r]
            /\ hold[w][r].status \in {"CAPTURED", "REFUNDED"} =>
                  hold'[w][r].status \in {"CAPTURED", "REFUNDED"}
  BY StepBecomes DEF Became
<1>. QED BY <1>1, TypeCorrect, PTL DEF Spec, HoldNeverRevives

\* No hold is expired before its deadline, however old the sweeper's scan is.
THEOREM ExpiryNotEarly == Spec => NeverExpiredEarly
<1>1. TypeOK /\ [Next]_vars =>
        \A w \in Owners, r \in HoldRefs :
            hold'[w][r].status = "EXPIRED" /\ hold[w][r].status # "EXPIRED" =>
                hold[w][r].expiresAt <= now
  BY StepBecomes DEF Became, Expired
<1>. QED BY <1>1, TypeCorrect, PTL DEF Spec, NeverExpiredEarly

-----------------------------------------------------------------------------
(* Double entry                                                            *)

\* No hold pays its own wallet, so a capture has two different sides.
NotSelf == \A w \in Owners, r \in HoldRefs : hold[w][r].dest # w

\* Writing one hold with a destination other than its owner.
LEMMA NotSelfStep == TypeOK /\ NotSelf /\ [Next]_vars => NotSelf'
<1>. SUFFICES ASSUME TypeOK, NotSelf, [Next]_vars PROVE NotSelf' OBVIOUS
<1>1. ASSUME NEW w \in Owners, NEW r \in HoldRefs, NEW new,
             hold' = [hold EXCEPT ![w][r] = new], new.dest # w
      PROVE  NotSelf'
  <2>. SUFFICES ASSUME NEW x \in Owners, NEW y \in HoldRefs PROVE hold'[x][y].dest # x
    BY DEF NotSelf
  <2>1. CASE x = w /\ y = r BY <1>1, <2>1 DEF TypeOK
  <2>2. CASE ~(x = w /\ y = r)
    <3>1. hold'[x][y] = hold[x][y] BY <1>1, <2>2 DEF TypeOK
    <3>. QED BY <3>1 DEF NotSelf
  <2>. QED BY <2>1, <2>2
<1>2. ASSUME NEW w \in Owners, NEW r \in HoldRefs, NEW final, FreeHold(w, r, final)
      PROVE  NotSelf'
  <2>1. hold' = [hold EXCEPT ![w][r] = [hold[w][r] EXCEPT !.status = final]]
    BY <1>2, Zenon DEF FreeHold
  <2>2. [hold[w][r] EXCEPT !.status = final].dest # w
    BY HoldData DEF Holds, NotSelf
  <2>. QED BY <1>1, <2>1, <2>2
<1>3. CASE UNCHANGED hold BY <1>3 DEF NotSelf
<1>4. CASE HoldStep
  <2>1. PICK w \in Owners, r \in HoldRefs :
           \/ \E dest \in Owners \cup {NoWallet}, a \in Amounts, t \in Time :
                  CreateHold(w, dest, a, r, t)
           \/ \E t \in Time : ExtendHold(w, r, t)
           \/ CaptureHold(w, r)
           \/ CaptureExpiredHold(w, r)
           \/ ReleaseHold(w, r)
           \/ \E f \in RefundRefOf[r] : RefundCapture(w, r, f)
    BY <1>4 DEF HoldStep
  <2>2. hold[w][r] \in Holds /\ hold[w][r].dest # w BY HoldData DEF NotSelf
  <2>3. ASSUME NEW dest, NEW a, NEW t, CreateHold(w, dest, a, r, t) PROVE NotSelf'
    <3> DEFINE new == [status |-> "PENDING", amount |-> a, dest |-> dest,
                       createdAt |-> now, expiresAt |-> t, usageDay |-> DayOf[now],
                       refundRef |-> NoRef]
    <3>1. hold' = [hold EXCEPT ![w][r] = new] /\ dest # w BY <2>3, Zenon DEF CreateHold
    <3>2. new.dest # w BY <3>1
    <3>. QED BY <1>1, <3>1, <3>2
  <2>4. ASSUME NEW t, ExtendHold(w, r, t) PROVE NotSelf'
    <3>1. hold' = [hold EXCEPT ![w][r] = [hold[w][r] EXCEPT !.expiresAt = t]]
      BY <2>4, Zenon DEF ExtendHold
    <3>2. [hold[w][r] EXCEPT !.expiresAt = t].dest # w BY <2>2 DEF Holds
    <3>. QED BY <1>1, <3>1, <3>2
  <2>5. CASE CaptureHold(w, r)
    <3>1. hold' = [hold EXCEPT ![w][r] = [hold[w][r] EXCEPT !.status = "CAPTURED"]]
      BY <2>5, Zenon DEF CaptureHold
    <3>2. [hold[w][r] EXCEPT !.status = "CAPTURED"].dest # w BY <2>2 DEF Holds
    <3>. QED BY <1>1, <3>1, <3>2
  <2>6. CASE CaptureExpiredHold(w, r) BY <1>2, <2>6 DEF CaptureExpiredHold
  <2>7. CASE ReleaseHold(w, r) BY <1>2, <2>7 DEF ReleaseHold
  <2>8. ASSUME NEW f \in RefundRefOf[r], RefundCapture(w, r, f) PROVE NotSelf'
    <3>1. hold' = [hold EXCEPT ![w][r] =
                     [hold[w][r] EXCEPT !.status = "REFUNDED", !.refundRef = f]]
      BY <2>8, Zenon DEF RefundCapture
    <3>2. [hold[w][r] EXCEPT !.status = "REFUNDED", !.refundRef = f].dest # w
      BY <2>2 DEF Holds
    <3>. QED BY <1>1, <3>1, <3>2
  <2>. QED BY <2>1, <2>3, <2>4, <2>5, <2>6, <2>7, <2>8
<1>5. CASE SweepStep
  <2>1. PICK s \in Sweepers :
           \/ SweepScan(s)
           \/ \E w \in Owners, r \in HoldRefs : SweepHold(s, w, r) \/ SweepSkip(s, w, r)
           \/ SweepCrash(s)
    BY <1>5 DEF SweepStep
  <2>2. ASSUME NEW w \in Owners, NEW r \in HoldRefs, SweepHold(s, w, r) PROVE NotSelf'
    BY <1>2, <2>2 DEF SweepHold
  <2>. QED BY <1>3, <2>1, <2>2 DEF SweepScan, SweepCrash, SweepSkip
<1>6. LedgerStep \/ AdminStep => UNCHANGED hold
  BY Zenon DEF LedgerStep, Credit, Debit, Transfer, AdjustDebit, AdjustCredit,
               AdminStep, CreateWallet, SetLock, KycUpdated
<1>7. Tick \/ UNCHANGED vars => UNCHANGED hold BY DEF Tick, vars
<1>. QED BY <1>3, <1>4, <1>5, <1>6, <1>7 DEF Next

\* A movement between two wallets under a reference neither has used.
Posting(from, to, ref) ==
    /\ from # to
    /\ Unused(from, to, ref)
    /\ \E amount \in Nat, type \in TransferType : Post(from, to, amount, ref, type)

\* Every step moves no money or is one such movement.
LEMMA StepPosts ==
  TypeOK /\ NotSelf /\ [Next]_vars =>
      \/ UNCHANGED money
      \/ \E from \in Wallets, to \in Wallets, ref \in Refs : Posting(from, to, ref)
<1>. SUFFICES ASSUME TypeOK, NotSelf, [Next]_vars, ~ UNCHANGED money
              PROVE  \E from \in Wallets, to \in Wallets, ref \in Refs : Posting(from, to, ref)
  OBVIOUS
<1>1. CASE LedgerStep
  <2>1. PICK w \in Owners, a \in Amounts, ref \in MoveRefs :
           \/ \E type \in {"TOPUP", "REFUND"} : Credit(w, a, ref, type)
           \/ Debit(w, a, ref)
           \/ \E u \in Users : Transfer(w, u, a, ref)
           \/ AdjustDebit(w, a, ref)
           \/ AdjustCredit(w, a, ref)
    BY <1>1, LedgerStepIs
  <2>2. a \in Nat /\ ref \in Refs /\ w \in Wallets BY ConstantTypes
  <2>3. PICK from \in Wallets, to \in Wallets, type \in TransferType :
           from # to /\ Unused(from, to, ref) /\ Post(from, to, a, ref, type)
    BY <2>1, ConstantTypes
       DEF Credit, Debit, Transfer, AdjustDebit, AdjustCredit, Move, TransferType
  <2>. QED BY <2>2, <2>3 DEF Posting
<1>2. CASE HoldStep
  <2>1. PICK w \in Owners, r \in HoldRefs :
           \/ \E dest \in Owners \cup {NoWallet}, a \in Amounts, t \in Time :
                  CreateHold(w, dest, a, r, t)
           \/ \E t \in Time : ExtendHold(w, r, t)
           \/ CaptureHold(w, r)
           \/ CaptureExpiredHold(w, r)
           \/ ReleaseHold(w, r)
           \/ \E f \in RefundRefOf[r] : RefundCapture(w, r, f)
    BY <1>2 DEF HoldStep
  <2>2. /\ w \in Wallets /\ DestOf(hold[w][r]) \in Wallets
        /\ DestOf(hold[w][r]) # w
        /\ hold[w][r].amount \in Nat
    BY ConstantTypes, HoldData DEF NotSelf, DestOf
  <2>3. (\E dest, a, t : CreateHold(w, dest, a, r, t)) => UNCHANGED money
    BY Zenon DEF CreateHold, money
  <2>4. (\E t : ExtendHold(w, r, t)) \/ CaptureExpiredHold(w, r) \/ ReleaseHold(w, r)
           => UNCHANGED money
    BY Zenon DEF ExtendHold, CaptureExpiredHold, ReleaseHold, FreeHold, money
  <2>5. CASE CaptureHold(w, r)
    <3>1. \/ UNCHANGED money
          \/ /\ Unused(w, DestOf(hold[w][r]), r)
             /\ Post(w, DestOf(hold[w][r]), hold[w][r].amount, r, "PAYMENT")
      BY <2>5, Zenon DEF CaptureHold, money
    <3>2. r \in Refs /\ "PAYMENT" \in TransferType BY ConstantTypes DEF TransferType
    <3>. QED BY <2>2, <3>1, <3>2 DEF Posting, money
  <2>6. ASSUME NEW f \in RefundRefOf[r], RefundCapture(w, r, f)
        PROVE  \E from \in Wallets, to \in Wallets, ref \in Refs : Posting(from, to, ref)
    <3>1. \/ UNCHANGED money
          \/ /\ Unused(DestOf(hold[w][r]), w, f)
             /\ Post(DestOf(hold[w][r]), w, hold[w][r].amount, f, "REFUND")
      BY <2>6, Zenon DEF RefundCapture, Move, money
    <3>2. f \in Refs /\ "REFUND" \in TransferType BY ConstantTypes DEF TransferType
    <3>. QED BY <2>2, <3>1, <3>2 DEF Posting, money
  <2>. QED BY <2>1, <2>3, <2>4, <2>5, <2>6
<1>3. SweepStep => UNCHANGED money
  <2>1. \A s : SweepScan(s) => UNCHANGED money BY Zenon DEF SweepScan, money
  <2>2. \A s, w, r : SweepHold(s, w, r) => UNCHANGED money
    BY Zenon DEF SweepHold, FreeHold, money
  <2>3. \A s, w, r : SweepSkip(s, w, r) => UNCHANGED money BY Zenon DEF SweepSkip, money
  <2>4. \A s : SweepCrash(s) => UNCHANGED money BY Zenon DEF SweepCrash, money
  <2>. QED BY <2>1, <2>2, <2>3, <2>4, Zenon DEF SweepStep
<1>4. AdminStep \/ Tick => UNCHANGED money
  BY Zenon DEF AdminStep, CreateWallet, SetLock, KycUpdated, Tick, money
<1>5. UNCHANGED vars => UNCHANGED money BY DEF vars, money
<1>. QED BY <1>1, <1>2, <1>3, <1>4, <1>5 DEF Next

\* A movement writes both sides and touches no entry that was there.
LEMMA PostingBalanced ==
  ASSUME TypeOK, DoubleEntry, NEW from \in Wallets, NEW to \in Wallets, NEW ref \in Refs,
         Posting(from, to, ref)
  PROVE  DoubleEntry'
<1>1. PICK amount \in Nat, type \in TransferType : Post(from, to, amount, ref, type)
  BY DEF Posting
<1> DEFINE debit == [dir |-> "DEBIT", type |-> type, amount |-> amount, peer |-> to,
                     day |-> DayOf[now]]
           credit == [dir |-> "CREDIT", type |-> type, amount |-> amount, peer |-> from,
                      day |-> DayOf[now]]
<1>2. entry' = [entry EXCEPT ![from][ref] = debit, ![to][ref] = credit]
  BY <1>1, Zenon DEF Post
<1>3. /\ from # to
      /\ entry[from][ref].dir = "NONE" /\ entry[to][ref].dir = "NONE"
  BY DEF Posting, Unused, NoEntry
<1>4. entry'[from][ref] = debit /\ entry'[to][ref] = credit
  BY <1>2, <1>3 DEF TypeOK
<1>5. ASSUME NEW x \in Wallets, NEW y \in Refs, ~(y = ref /\ x \in {from, to})
      PROVE  entry'[x][y] = entry[x][y]
  BY <1>2, <1>5 DEF TypeOK
<1>. SUFFICES ASSUME NEW w \in Wallets, NEW y \in Refs, entry'[w][y].dir # "NONE"
              PROVE  Mirrored(w, y)'
  BY DEF DoubleEntry
<1>6. CASE y = ref /\ w = from BY <1>3, <1>4, <1>6 DEF Mirrored
<1>7. CASE y = ref /\ w = to BY <1>3, <1>4, <1>7 DEF Mirrored
<1>8. CASE ~(y = ref /\ w \in {from, to})
  <2>1. entry'[w][y] = entry[w][y] BY <1>5, <1>8
  <2>2. Mirrored(w, y) BY <2>1 DEF DoubleEntry
  <2>3. entry[w][y].peer \in Wallets BY <2>2 DEF Mirrored
  <2>4. entry[entry[w][y].peer][y].dir # "NONE" BY <2>2 DEF Mirrored
  <2>5. ~(y = ref /\ entry[w][y].peer \in {from, to}) BY <1>3, <2>4
  <2>6. entry'[entry[w][y].peer][y] = entry[entry[w][y].peer][y] BY <1>5, <2>3, <2>5
  <2>. QED BY <2>1, <2>2, <2>6 DEF Mirrored
<1>. QED BY <1>6, <1>7, <1>8

\* No reference is ever one-sided: the ledger is balanced after every
\* transaction, also when callers reuse references across operations.
THEOREM LedgerIsDoubleEntry == Spec => []DoubleEntry
<1>1. Init => NotSelf /\ DoubleEntry
  <2>. SUFFICES ASSUME Init PROVE NotSelf /\ DoubleEntry OBVIOUS
  <2>1. NotSelf BY ConstantTypes DEF Init, NotSelf, NoHold
  <2>2. DoubleEntry BY DEF Init, DoubleEntry, NoEntry
  <2>. QED BY <2>1, <2>2
<1>2. TypeOK /\ NotSelf /\ DoubleEntry /\ [Next]_vars => DoubleEntry'
  <2>. SUFFICES ASSUME TypeOK, NotSelf, DoubleEntry, [Next]_vars PROVE DoubleEntry'
    OBVIOUS
  <2>1. CASE UNCHANGED money BY <2>1 DEF DoubleEntry, Mirrored, money
  <2>2. CASE \E from \in Wallets, to \in Wallets, ref \in Refs : Posting(from, to, ref)
    BY <2>2, PostingBalanced
  <2>. QED BY <2>1, <2>2, StepPosts
<1>. QED BY <1>1, <1>2, NotSelfStep, TypeCorrect, PTL DEF Spec

-----------------------------------------------------------------------------
(* Holds and the ledger                                                    *)

Settled(h) == h.status \in {"CAPTURED", "REFUNDED"}

\* A hold that was not settled is not; one that was stays so, same terms.
SameSide(h, new) ==
    /\ Settled(h) <=> Settled(new)
    /\ Settled(h) => new.amount = h.amount /\ new.dest = h.dest

\* A step that leaves the entries under hold references alone and no hold
\* changes side.
LEMMA SettlesKept ==
  ASSUME TypeOK, CaptureSettles,
         \A x \in Owners, y \in HoldRefs : entry'[x][y] = entry[x][y],
         \A x \in Owners, y \in HoldRefs : SameSide(hold[x][y], hold'[x][y])
  PROVE  CaptureSettles'
BY DEF CaptureSettles, PaidOut, SameSide, Settled, DestOf

\* One hold rewritten on the same side.
LEMMA OneSameSide ==
  ASSUME TypeOK, NEW w \in Owners, NEW r \in HoldRefs, NEW new,
         hold' = [hold EXCEPT ![w][r] = new], SameSide(hold[w][r], new)
  PROVE  \A x \in Owners, y \in HoldRefs : SameSide(hold[x][y], hold'[x][y])
<1>. SUFFICES ASSUME NEW x \in Owners, NEW y \in HoldRefs
              PROVE  SameSide(hold[x][y], hold'[x][y])
  OBVIOUS
<1>1. CASE x = w /\ y = r
  <2>1. hold'[x][y] = new BY <1>1 DEF TypeOK
  <2>. QED BY <1>1, <2>1
<1>2. CASE ~(x = w /\ y = r)
  <2>1. hold'[x][y] = hold[x][y] BY <1>2 DEF TypeOK
  <2>. QED BY <2>1 DEF SameSide
<1>. QED BY <1>1, <1>2

\* A movement under a reference that names no hold leaves hold entries alone.
LEMMA OtherReference ==
  ASSUME TypeOK, NEW from \in Wallets, NEW to \in Wallets, NEW amount, NEW type,
         NEW ref \in Refs \ HoldRefs, Post(from, to, amount, ref, type)
  PROVE  \A x \in Owners, y \in HoldRefs : entry'[x][y] = entry[x][y]
BY ConstantTypes DEF Post, TypeOK

LEMMA FreeSettles ==
  ASSUME TypeOK, CaptureSettles, NEW w \in Owners, NEW r \in HoldRefs,
         NEW final \in {"RELEASED", "EXPIRED"}, FreeHold(w, r, final)
  PROVE  CaptureSettles'
<1>1. /\ hold' = [hold EXCEPT ![w][r] = [hold[w][r] EXCEPT !.status = final]]
      /\ hold[w][r].status = "PENDING"
      /\ UNCHANGED entry
  BY Zenon DEF FreeHold, money
<1>2. [hold[w][r] EXCEPT !.status = final].status = final BY HoldData DEF Holds
<1>3. SameSide(hold[w][r], [hold[w][r] EXCEPT !.status = final])
  BY <1>1, <1>2 DEF SameSide, Settled
<1>. QED BY <1>1, <1>3, OneSameSide, SettlesKept

\* The posting branch of a capture: the entry and the status appear together.
LEMMA CapturePosts ==
  ASSUME TypeOK, NotSelf, CaptureSettles, NEW w \in Owners, NEW r \in HoldRefs,
         Unused(w, DestOf(hold[w][r]), r),
         Post(w, DestOf(hold[w][r]), hold[w][r].amount, r, "PAYMENT"),
         hold' = [hold EXCEPT ![w][r] = [hold[w][r] EXCEPT !.status = "CAPTURED"]]
  PROVE  CaptureSettles'
<1> DEFINE to == DestOf(hold[w][r])
           new == [hold[w][r] EXCEPT !.status = "CAPTURED"]
<1>1. /\ to \in Wallets /\ w \in Wallets /\ r \in Refs /\ to # w
      /\ hold[w][r] \in Holds
  BY ConstantTypes, HoldData DEF NotSelf, DestOf
<1>2. entry[w][r].dir = "NONE" /\ entry[to][r].dir = "NONE" BY DEF Unused, NoEntry
<1>3. /\ entry'[w][r].dir = "DEBIT"
      /\ entry'[w][r].type = "PAYMENT"
      /\ entry'[w][r].amount = hold[w][r].amount
      /\ entry'[w][r].peer = to
      /\ entry'[to][r].dir = "CREDIT"
  BY <1>1 DEF Post, TypeOK
<1>4. ASSUME NEW x \in Owners, NEW y \in HoldRefs, ~(y = r /\ x \in {w, to})
      PROVE  entry'[x][y] = entry[x][y]
  BY <1>1, <1>4, ConstantTypes DEF Post, TypeOK
<1>5. /\ hold'[w][r] = new
      /\ \A x \in Owners, y \in HoldRefs :
            ~(x = w /\ y = r) => hold'[x][y] = hold[x][y]
  BY DEF TypeOK
<1>6. new.status = "CAPTURED" /\ new.amount = hold[w][r].amount /\ new.dest = hold[w][r].dest
  BY <1>1 DEF Holds
<1>. SUFFICES ASSUME NEW x \in Owners, NEW y \in HoldRefs
              PROVE  /\ Settled(hold'[x][y]) => PaidOut(x, y)'
                     /\ entry'[x][y].dir = "DEBIT" => Settled(hold'[x][y])
  BY DEF CaptureSettles, Settled
<1>7. CASE x = w /\ y = r
  BY ZenonT(60), <1>3, <1>5, <1>6, <1>7 DEF PaidOut, Settled, DestOf
<1>8. CASE x = to /\ y = r
  <2>1. hold'[x][y] = hold[x][y] BY <1>1, <1>5, <1>8
  <2>2. ~Settled(hold[x][y]) BY <1>2, <1>8 DEF CaptureSettles, PaidOut, Settled
  <2>. QED BY <1>3, <1>8, <2>1, <2>2
<1>9. CASE ~(y = r /\ x \in {w, to})
  <2>1. hold'[x][y] = hold[x][y] /\ entry'[x][y] = entry[x][y] BY <1>4, <1>5, <1>9
  <2>2. PaidOut(x, y) <=> PaidOut(x, y)' BY <2>1, Zenon DEF PaidOut
  <2>3. /\ Settled(hold[x][y]) => PaidOut(x, y)
        /\ entry[x][y].dir = "DEBIT" => Settled(hold[x][y])
    BY DEF CaptureSettles, Settled
  <2>. QED BY <2>1, <2>2, <2>3, Zenon
<1>. QED BY <1>7, <1>8, <1>9

LEMMA HoldStepSettles ==
  ASSUME RefDiscipline, TypeOK, NotSelf, CaptureSettles, HoldStep
  PROVE  CaptureSettles'
<1>1. PICK w \in Owners, r \in HoldRefs :
         \/ \E dest \in Owners \cup {NoWallet}, a \in Amounts, t \in Time :
                CreateHold(w, dest, a, r, t)
         \/ \E t \in Time : ExtendHold(w, r, t)
         \/ CaptureHold(w, r)
         \/ CaptureExpiredHold(w, r)
         \/ ReleaseHold(w, r)
         \/ \E f \in RefundRefOf[r] : RefundCapture(w, r, f)
  BY DEF HoldStep
<1>2. hold[w][r] \in Holds BY HoldData
<1>3. ASSUME NEW dest, NEW a, NEW t, CreateHold(w, dest, a, r, t) PROVE CaptureSettles'
  <2> DEFINE new == [status |-> "PENDING", amount |-> a, dest |-> dest, createdAt |-> now,
                     expiresAt |-> t, usageDay |-> DayOf[now], refundRef |-> NoRef]
  <2>1. /\ hold' = [hold EXCEPT ![w][r] = new]
        /\ hold[w][r] = NoHold
        /\ UNCHANGED entry
    BY <1>3, Zenon DEF CreateHold, money
  <2>2. SameSide(hold[w][r], new) BY <2>1 DEF SameSide, Settled, NoHold
  <2>. QED BY <2>1, <2>2, OneSameSide, SettlesKept
<1>4. ASSUME NEW t, ExtendHold(w, r, t) PROVE CaptureSettles'
  <2>1. /\ hold' = [hold EXCEPT ![w][r] = [hold[w][r] EXCEPT !.expiresAt = t]]
        /\ UNCHANGED entry
    BY <1>4, Zenon DEF ExtendHold, money
  <2>2. SameSide(hold[w][r], [hold[w][r] EXCEPT !.expiresAt = t])
    BY <1>2 DEF SameSide, Settled, Holds
  <2>. QED BY <2>1, <2>2, OneSameSide, SettlesKept
<1>5. CASE CaptureHold(w, r)
  <2>1. /\ hold' = [hold EXCEPT ![w][r] = [hold[w][r] EXCEPT !.status = "CAPTURED"]]
        /\ \/ Replayed(w, hold[w][r].amount, r, "PAYMENT") /\ UNCHANGED entry
           \/ /\ Unused(w, DestOf(hold[w][r]), r)
              /\ Post(w, DestOf(hold[w][r]), hold[w][r].amount, r, "PAYMENT")
    BY <1>5, Zenon DEF CaptureHold, money
  <2>2. CASE Replayed(w, hold[w][r].amount, r, "PAYMENT") /\ UNCHANGED entry
    <3>1. Settled(hold[w][r]) BY <2>2 DEF Replayed, CaptureSettles, Settled
    <3>2. SameSide(hold[w][r], [hold[w][r] EXCEPT !.status = "CAPTURED"])
      BY <1>2, <3>1 DEF SameSide, Settled, Holds
    <3>. QED BY <2>1, <2>2, <3>2, OneSameSide, SettlesKept
  <2>. QED BY <2>1, <2>2, CapturePosts
<1>6. CASE CaptureExpiredHold(w, r) BY <1>6, FreeSettles DEF CaptureExpiredHold
<1>7. CASE ReleaseHold(w, r) BY <1>7, FreeSettles DEF ReleaseHold
<1>8. ASSUME NEW f \in RefundRefOf[r], RefundCapture(w, r, f) PROVE CaptureSettles'
  <2>1. /\ hold' = [hold EXCEPT ![w][r] =
                      [hold[w][r] EXCEPT !.status = "REFUNDED", !.refundRef = f]]
        /\ hold[w][r].status = "CAPTURED"
        /\ \/ UNCHANGED entry
           \/ Post(DestOf(hold[w][r]), w, hold[w][r].amount, f, "REFUND")
    BY <1>8, Zenon DEF RefundCapture, Move, money
  <2>2. SameSide(hold[w][r], [hold[w][r] EXCEPT !.status = "REFUNDED", !.refundRef = f])
    BY <1>2, <2>1 DEF SameSide, Settled, Holds
  <2>3. f \in Refs \ HoldRefs /\ w \in Wallets /\ DestOf(hold[w][r]) \in Wallets
    BY ConstantTypes, HoldData DEF RefDiscipline
  <2>4. \A x \in Owners, y \in HoldRefs : entry'[x][y] = entry[x][y]
    BY <2>1, <2>3, OtherReference
  <2>. QED BY <2>1, <2>2, <2>4, OneSameSide, SettlesKept
<1>. QED BY <1>1, <1>3, <1>4, <1>5, <1>6, <1>7, <1>8

LEMMA LedgerStepSettles ==
  ASSUME RefDiscipline, TypeOK, CaptureSettles, LedgerStep
  PROVE  CaptureSettles'
<1>1. PICK w \in Owners, a \in Amounts, ref \in MoveRefs :
         \/ \E type \in {"TOPUP", "REFUND"} : Credit(w, a, ref, type)
         \/ Debit(w, a, ref)
         \/ \E u \in Users : Transfer(w, u, a, ref)
         \/ AdjustDebit(w, a, ref)
         \/ AdjustCredit(w, a, ref)
  BY LedgerStepIs
<1>2. ref \in Refs \ HoldRefs BY ConstantTypes DEF RefDiscipline
<1>3. PICK from \in Wallets, to \in Wallets, type \in TransferType :
         Post(from, to, a, ref, type)
  BY <1>1, ConstantTypes
     DEF Credit, Debit, Transfer, AdjustDebit, AdjustCredit, Move, TransferType
<1>4. UNCHANGED hold
  BY <1>1, Zenon DEF Credit, Debit, Transfer, AdjustDebit, AdjustCredit
<1>5. \A x \in Owners, y \in HoldRefs : SameSide(hold[x][y], hold'[x][y])
  BY <1>4 DEF SameSide
<1>. QED BY <1>2, <1>3, <1>5, OtherReference, SettlesKept

\* Where callers keep hold references apart from the others, a hold is
\* captured exactly when the money has left its owner for its destination.
THEOREM CaptureIsPayment == RefDiscipline => (Spec => []CaptureSettles)
<1>. SUFFICES ASSUME RefDiscipline PROVE Spec => []CaptureSettles OBVIOUS
<1>1. Init => NotSelf /\ CaptureSettles
  <2>. SUFFICES ASSUME Init PROVE NotSelf /\ CaptureSettles OBVIOUS
  <2>1. NotSelf BY ConstantTypes DEF Init, NotSelf, NoHold
  <2>2. CaptureSettles BY ConstantTypes DEF Init, CaptureSettles, NoHold, NoEntry
  <2>. QED BY <2>1, <2>2
<1>2. TypeOK /\ NotSelf /\ CaptureSettles /\ [Next]_vars => CaptureSettles'
  <2>. SUFFICES ASSUME TypeOK, NotSelf, CaptureSettles, [Next]_vars PROVE CaptureSettles'
    OBVIOUS
  <2>1. CASE UNCHANGED <<hold, entry>>
    <3>1. \A x \in Owners, y \in HoldRefs : SameSide(hold[x][y], hold'[x][y])
      BY <2>1 DEF SameSide
    <3>. QED BY <2>1, <3>1, SettlesKept
  <2>2. CASE SweepStep
    <3>1. PICK s \in Sweepers :
             \/ SweepScan(s)
             \/ \E w \in Owners, r \in HoldRefs : SweepHold(s, w, r) \/ SweepSkip(s, w, r)
             \/ SweepCrash(s)
      BY <2>2 DEF SweepStep
    <3>2. ASSUME NEW w \in Owners, NEW r \in HoldRefs, SweepHold(s, w, r)
          PROVE  CaptureSettles'
      BY <3>2, FreeSettles DEF SweepHold
    <3>3. ASSUME NEW w \in Owners, NEW r \in HoldRefs, SweepSkip(s, w, r)
          PROVE  UNCHANGED <<hold, entry>>
      BY <3>3, Zenon DEF SweepSkip, money
    <3>4. SweepScan(s) \/ SweepCrash(s) => UNCHANGED <<hold, entry>>
      BY Zenon DEF SweepScan, SweepCrash, money
    <3>. QED BY <2>1, <3>1, <3>2, <3>3, <3>4
  <2>3. AdminStep \/ Tick => UNCHANGED <<hold, entry>>
    BY Zenon DEF AdminStep, CreateWallet, SetLock, KycUpdated, Tick, money
  <2>4. UNCHANGED vars => UNCHANGED <<hold, entry>> BY DEF vars
  <2>. QED BY <2>1, <2>2, <2>3, <2>4, HoldStepSettles, LedgerStepSettles DEF Next
<1>. QED BY <1>1, <1>2, NotSelfStep, TypeCorrect, PTL DEF Spec
=============================================================================
