-------------------------- MODULE WalletMoneyProofs --------------------------
(***************************************************************************)
(* The wallet's sums, for every set of wallets, references and amounts:    *)
(* the balance and the ledger, the reservations and the holds, the usage   *)
(* and the limits; and that each hold keeps HoldContract.                  *)
(*                                                                         *)
(* A sum is the library's fold, a recursive function over the subsets of   *)
(* what it adds up.  Its laws are proved first, by taking a least subset   *)
(* at which a law would fail (WFMin): first-order, and without an          *)
(* induction rule.                                                         *)
(***************************************************************************)
EXTENDS WalletLedgerProofs, FiniteSetTheorems

-----------------------------------------------------------------------------
(* The fold that adds                                                      *)

\* The element the fold takes next.
Pick(s) == CHOOSE x \in s : TRUE

\* g is the table of partial sums of f that the fold over S computes.
IsTable(g, f, S) ==
    g = [s \in SUBSET S |-> IF s = {} THEN 0 ELSE f[Pick(s)] + g[s \ {Pick(s)}]]

\* Every property of the finite subsets of S that fails, fails at a subset all
\* of whose proper subsets have it.
LEMMA MinimalSubset ==
  ASSUME NEW S, IsFiniteSet(S), NEW T, T \subseteq SUBSET S, T # {}
  PROVE  \E s \in T : \A u \in SUBSET s : u # s => u \notin T
<1>1. IsWellFoundedOn(StrictSubsetOrdering(S), SUBSET S)
  BY FS_StrictSubsetOrderingWellFounded, FS_FiniteSubsetsOfFinite
<1>2. PICK s \in T : \A u \in T : ~(<<u, s>> \in StrictSubsetOrdering(S))
  BY <1>1, WFMin
<1>3. ASSUME NEW u \in SUBSET s, u # s, u \in T PROVE FALSE
  <2>1. <<u, s>> \in StrictSubsetOrdering(S) BY <1>3 DEF StrictSubsetOrdering
  <2>. QED BY <1>2, <1>3, <2>1
<1>. QED BY <1>2, <1>3

\* Two tables agree wherever both are defined.
LEMMA TablesAgree ==
  ASSUME NEW f, NEW S, IsFiniteSet(S), NEW R \in SUBSET S,
         NEW g, IsTable(g, f, S), NEW h, IsTable(h, f, R)
  PROVE  \A s \in SUBSET R : g[s] = h[s]
<1> DEFINE T == {s \in SUBSET R : g[s] # h[s]}
<1>. SUFFICES ASSUME T # {} PROVE FALSE OBVIOUS
<1>1. PICK s \in T : \A u \in SUBSET s : u # s => u \notin T
  <2>1. T \subseteq SUBSET S OBVIOUS
  <2>. HIDE DEF T
  <2>. QED BY <2>1, MinimalSubset
<1>2. s \in SUBSET R /\ s \in SUBSET S /\ g[s] # h[s] OBVIOUS
<1>3. /\ g[s] = IF s = {} THEN 0 ELSE f[Pick(s)] + g[s \ {Pick(s)}]
      /\ h[s] = IF s = {} THEN 0 ELSE f[Pick(s)] + h[s \ {Pick(s)}]
  BY <1>2 DEF IsTable
<1>4. s # {} BY <1>2, <1>3
<1>5. Pick(s) \in s BY <1>4 DEF Pick
<1>6. s \ {Pick(s)} \in SUBSET s /\ s \ {Pick(s)} # s BY <1>5
<1>7. g[s \ {Pick(s)}] = h[s \ {Pick(s)}] BY <1>1, <1>2, <1>6
<1>. QED BY <1>2, <1>3, <1>4, <1>7

\* The table exists: the fold's recursive definition is not vacuous.
LEMMA TableExists ==
  ASSUME NEW f, NEW S, IsFiniteSet(S)
  PROVE  \E g : IsTable(g, f, S)
<1> DEFINE T == {s \in SUBSET S : ~ \E g : IsTable(g, f, s)}
<1>. SUFFICES ASSUME T # {} PROVE FALSE OBVIOUS
<1>1. PICK s \in T : \A u \in SUBSET s : u # s => u \notin T
  <2>1. T \subseteq SUBSET S OBVIOUS
  <2>. HIDE DEF T
  <2>. QED BY <2>1, MinimalSubset
<1>2. \A u \in SUBSET s : u # s => \E g : IsTable(g, f, u) BY <1>1
<1> DEFINE G(u) == CHOOSE g : IsTable(g, f, u)
           Rest(t) == t \ {Pick(t)}
           h == [t \in SUBSET s |-> IF t = {} THEN 0 ELSE f[Pick(t)] + G(Rest(t))[Rest(t)]]
<1>3. \A u \in SUBSET s : u # s => IsTable(G(u), f, u) BY <1>2
<1>4. ASSUME NEW t \in SUBSET s, t # {} PROVE h[Rest(t)] = G(Rest(t))[Rest(t)]
  <2>1. Pick(t) \in t BY <1>4 DEF Pick
  <2>2. Rest(t) \in SUBSET s /\ Rest(t) # s BY <2>1
  <2> DEFINE u == Rest(t)
  <2>3. IsTable(G(u), f, u) BY <1>3, <2>2
  <2>4. G(u)[u] = IF u = {} THEN 0 ELSE f[Pick(u)] + G(u)[Rest(u)] 
    <3>. HIDE DEF G, u
    <3>. QED BY <2>3 DEF IsTable
  <2>5. CASE u = {} BY <2>2, <2>4, <2>5
  <2>6. CASE u # {}
    <3>1. Pick(u) \in u BY <2>6 DEF Pick
    <3>2. Rest(u) \in SUBSET s /\ Rest(u) # s /\ Rest(u) \in SUBSET u BY <2>2, <3>1
    <3>3. IsTable(G(Rest(u)), f, Rest(u)) BY <1>3, <3>2
    <3>4. IsFiniteSet(u) BY <2>2, FS_Subset
    <3>5. G(u)[Rest(u)] = G(Rest(u))[Rest(u)]
      <4>. HIDE DEF G, u
      <4>. QED BY <2>3, <3>2, <3>3, <3>4, TablesAgree
    <3>. QED BY <2>2, <2>4, <2>6, <3>5
  <2>. QED BY <2>5, <2>6
<1>5. IsTable(h, f, s)
  <2>. HIDE DEF G
  <2>. QED BY <1>4 DEF IsTable
<1>. QED BY <1>5

\* The library's sum is the last entry of the table.
LEMMA SumIsTable ==
  ASSUME NEW f, NEW S, IsFiniteSet(S), NEW g, IsTable(g, f, S)
  PROVE  SumFunctionOnSet(f, S) = g[S]
<1> DEFINE iter == CHOOSE it : it = [s \in SUBSET S |-> IF s = {} THEN 0 ELSE f[CHOOSE x \in s : TRUE] + it[s \ {CHOOSE x \in s : TRUE}]]
<1>1. SumFunctionOnSet(f, S) = iter[S]
  BY DEF SumFunctionOnSet, FoldFunctionOnSet, MapThenFoldSet
<1>2. IsTable(iter, f, S) BY DEF IsTable, Pick
<1>. QED BY <1>1, <1>2, TablesAgree

-----------------------------------------------------------------------------
(* The laws of a sum                                                       *)

\* Nothing adds up to nothing.
LEMMA SumEmpty ==
  ASSUME NEW f
  PROVE  SumFunctionOnSet(f, {}) = 0
<1>1. IsFiniteSet({}) BY FS_EmptySet
<1>2. PICK g : IsTable(g, f, {}) BY <1>1, TableExists
<1>3. g[{}] = 0 BY <1>2 DEF IsTable
<1>. QED BY <1>1, <1>2, <1>3, SumIsTable

\* One unfolding: the element the fold takes, and the rest.
LEMMA SumUnfold ==
  ASSUME NEW f, NEW S, IsFiniteSet(S), S # {}
  PROVE  /\ Pick(S) \in S
         /\ SumFunctionOnSet(f, S) = f[Pick(S)] + SumFunctionOnSet(f, S \ {Pick(S)})
<1> DEFINE R == S \ {Pick(S)}
<1>1. Pick(S) \in S BY DEF Pick
<1>2. IsFiniteSet(R) BY FS_Subset
<1>3. PICK g : IsTable(g, f, S) BY TableExists
<1>4. PICK h : IsTable(h, f, R) BY <1>2, TableExists
<1>5. g[R] = h[R]
  <2>1. R \in SUBSET S OBVIOUS
  <2>. HIDE DEF R
  <2>. QED BY <1>3, <1>4, <2>1, TablesAgree
<1>6. g[S] = f[Pick(S)] + g[R] BY <1>3 DEF IsTable
<1>7. SumFunctionOnSet(f, S) = g[S] BY <1>3, SumIsTable
<1>8. SumFunctionOnSet(f, R) = h[R]
  <2>. HIDE DEF R
  <2>. QED BY <1>2, <1>4, SumIsTable
<1>. QED BY <1>1, <1>5, <1>6, <1>7, <1>8

\* A sum of integers is an integer.
LEMMA SumInt ==
  ASSUME NEW f, NEW S, IsFiniteSet(S), \A x \in S : f[x] \in Int
  PROVE  SumFunctionOnSet(f, S) \in Int
<1> DEFINE T == {s \in SUBSET S : SumFunctionOnSet(f, s) \notin Int}
<1>. SUFFICES ASSUME T # {} PROVE FALSE OBVIOUS
<1>1. PICK s \in T : \A u \in SUBSET s : u # s => u \notin T
  <2>1. T \subseteq SUBSET S OBVIOUS
  <2>. HIDE DEF T
  <2>. QED BY <2>1, MinimalSubset
<1>2. s # {} BY SumEmpty
<1>3. IsFiniteSet(s) BY FS_Subset
<1>4. /\ Pick(s) \in s
      /\ SumFunctionOnSet(f, s) = f[Pick(s)] + SumFunctionOnSet(f, s \ {Pick(s)})
  BY <1>2, <1>3, SumUnfold
<1>5. s \ {Pick(s)} \in SUBSET s /\ s \ {Pick(s)} # s BY <1>4
<1>6. SumFunctionOnSet(f, s \ {Pick(s)}) \in Int BY <1>1, <1>5
<1>. QED BY <1>4, <1>6

\* The order does not matter: any element can be taken out first.
LEMMA SumRemove ==
  ASSUME NEW f, NEW S, IsFiniteSet(S), \A x \in S : f[x] \in Int, NEW x \in S
  PROVE  SumFunctionOnSet(f, S) = f[x] + SumFunctionOnSet(f, S \ {x})
<1> DEFINE Splits(s, y) ==
             SumFunctionOnSet(f, s) = f[y] + SumFunctionOnSet(f, s \ {y})
           T == {s \in SUBSET S : \E y \in s : ~Splits(s, y)}
<1>. SUFFICES ASSUME T # {} PROVE FALSE OBVIOUS
<1>1. PICK s \in T : \A u \in SUBSET s : u # s => u \notin T
  <2>1. T \subseteq SUBSET S OBVIOUS
  <2>. HIDE DEF T
  <2>. QED BY <2>1, MinimalSubset
<1>2. PICK y \in s : ~Splits(s, y) OBVIOUS
<1>3. IsFiniteSet(s) BY FS_Subset
<1> DEFINE p == Pick(s)
<1>4. p \in s /\ Splits(s, p) BY <1>2, <1>3, SumUnfold
<1>5. p # y BY <1>2, <1>4
<1>. HIDE DEF p
<1>6. \A u \in SUBSET s : u # s => \A z \in u : Splits(u, z) BY <1>1
<1>. HIDE DEF T
<1>7. Splits(s \ {p}, y)
  <2>1. s \ {p} \in SUBSET s /\ s \ {p} # s /\ y \in s \ {p} BY <1>4, <1>5
  <2>. QED BY <1>6, <2>1
<1>8. Splits(s \ {y}, p)
  <2>1. s \ {y} \in SUBSET s /\ s \ {y} # s /\ p \in s \ {y} BY <1>4, <1>5
  <2>. QED BY <1>6, <2>1
<1> DEFINE rest == (s \ {p}) \ {y}
<1>9. (s \ {y}) \ {p} = rest OBVIOUS
<1>10. SumFunctionOnSet(f, rest) \in Int
  <2>1. s \subseteq S BY DEF T
  <2>2. IsFiniteSet(rest) BY <1>3, FS_Subset
  <2>3. \A z \in rest : f[z] \in Int BY <2>1
  <2>. HIDE DEF rest
  <2>. QED BY <2>2, <2>3, SumInt
<1>11. f[p] \in Int /\ f[y] \in Int BY <1>4 DEF T
<1>12. SumFunctionOnSet(f, s) = f[p] + SumFunctionOnSet(f, s \ {p}) BY <1>4
<1>13. SumFunctionOnSet(f, s \ {p}) = f[y] + SumFunctionOnSet(f, rest) BY <1>7
<1>14. SumFunctionOnSet(f, s \ {y}) = f[p] + SumFunctionOnSet(f, rest) BY <1>8, <1>9
<1>15. SumFunctionOnSet(f, s) # f[y] + SumFunctionOnSet(f, s \ {y}) BY <1>2
<1>. HIDE DEF rest
<1>. QED BY <1>10, <1>11, <1>12, <1>13, <1>14, <1>15

\* Functions that agree on the set have the same sum.
LEMMA SumSame ==
  ASSUME NEW f, NEW g, NEW S, IsFiniteSet(S), \A x \in S : f[x] = g[x]
  PROVE  SumFunctionOnSet(f, S) = SumFunctionOnSet(g, S)
<1> DEFINE T == {s \in SUBSET S : SumFunctionOnSet(f, s) # SumFunctionOnSet(g, s)}
<1>. SUFFICES ASSUME T # {} PROVE FALSE OBVIOUS
<1>1. PICK s \in T : \A u \in SUBSET s : u # s => u \notin T
  <2>1. T \subseteq SUBSET S OBVIOUS
  <2>. HIDE DEF T
  <2>. QED BY <2>1, MinimalSubset
<1>2. s # {} BY SumEmpty
<1>3. IsFiniteSet(s) BY FS_Subset
<1>4. /\ Pick(s) \in s
      /\ SumFunctionOnSet(f, s) = f[Pick(s)] + SumFunctionOnSet(f, s \ {Pick(s)})
      /\ SumFunctionOnSet(g, s) = g[Pick(s)] + SumFunctionOnSet(g, s \ {Pick(s)})
  BY <1>2, <1>3, SumUnfold
<1>5. s \ {Pick(s)} \in SUBSET s /\ s \ {Pick(s)} # s BY <1>4
<1>6. SumFunctionOnSet(f, s \ {Pick(s)}) = SumFunctionOnSet(g, s \ {Pick(s)})
  BY <1>1, <1>5
<1>7. f[Pick(s)] = g[Pick(s)] BY <1>4
<1>. QED BY <1>4, <1>6, <1>7

\* What x adds to the sum of f over S.
Share(f, S, x) == IF x \in S THEN f[x] ELSE 0

\* When the set and the function change at x only, the sum changes by the
\* difference of what x adds.
LEMMA SumMove ==
  ASSUME NEW f, NEW S, IsFiniteSet(S), \A y \in S : f[y] \in Int,
         NEW g, NEW R, IsFiniteSet(R), \A y \in R : g[y] \in Int,
         NEW x, S \ {x} = R \ {x}, \A y \in S \ {x} : f[y] = g[y]
  PROVE  /\ SumFunctionOnSet(f, S) \in Int /\ SumFunctionOnSet(g, R) \in Int
         /\ Share(f, S, x) \in Int /\ Share(g, R, x) \in Int
         /\ SumFunctionOnSet(g, R)
               = SumFunctionOnSet(f, S) - Share(f, S, x) + Share(g, R, x)
<1>1. SumFunctionOnSet(f, S) \in Int /\ SumFunctionOnSet(g, R) \in Int BY SumInt
<1>2. Share(f, S, x) \in Int /\ Share(g, R, x) \in Int BY DEF Share
<1> DEFINE Q == S \ {x}
<1>3. IsFiniteSet(Q) BY FS_Subset
<1>4. SumFunctionOnSet(f, Q) = SumFunctionOnSet(g, Q)
  <2>1. \A y \in Q : f[y] = g[y] OBVIOUS
  <2>. HIDE DEF Q
  <2>. QED BY <1>3, <2>1, SumSame
<1>5. SumFunctionOnSet(f, Q) \in Int
  <2>1. \A y \in Q : f[y] \in Int OBVIOUS
  <2>. HIDE DEF Q
  <2>. QED BY <1>3, <2>1, SumInt
<1>6. SumFunctionOnSet(f, S) = Share(f, S, x) + SumFunctionOnSet(f, Q)
  <2>1. CASE x \in S BY <2>1, SumRemove DEF Share
  <2>2. CASE x \notin S
    <3>1. Q = S BY <2>2
    <3>2. Share(f, S, x) = 0 BY <2>2 DEF Share
    <3>. HIDE DEF Q
    <3>. QED BY <1>1, <3>1, <3>2
  <2>. QED BY <2>1, <2>2
<1>7. SumFunctionOnSet(g, R) = Share(g, R, x) + SumFunctionOnSet(g, Q)
  <2>0. Q = R \ {x} OBVIOUS
  <2>1. CASE x \in R BY <2>0, <2>1, SumRemove DEF Share
  <2>2. CASE x \notin R
    <3>1. Q = R BY <2>0, <2>2
    <3>2. Share(g, R, x) = 0 BY <2>2 DEF Share
    <3>. HIDE DEF Q
    <3>. QED BY <1>1, <3>1, <3>2
  <2>. QED BY <2>1, <2>2
<1>. QED BY <1>1, <1>2, <1>4, <1>5, <1>6, <1>7

\* Nothing but zeroes adds up to zero.
LEMMA SumZero ==
  ASSUME NEW f, NEW S, IsFiniteSet(S), \A x \in S : f[x] = 0
  PROVE  SumFunctionOnSet(f, S) = 0
<1> DEFINE T == {s \in SUBSET S : SumFunctionOnSet(f, s) # 0}
<1>. SUFFICES ASSUME T # {} PROVE FALSE OBVIOUS
<1>1. PICK s \in T : \A u \in SUBSET s : u # s => u \notin T
  <2>1. T \subseteq SUBSET S OBVIOUS
  <2>. HIDE DEF T
  <2>. QED BY <2>1, MinimalSubset
<1>2. s # {} BY SumEmpty
<1>3. IsFiniteSet(s) BY FS_Subset
<1>4. /\ Pick(s) \in s
      /\ SumFunctionOnSet(f, s) = f[Pick(s)] + SumFunctionOnSet(f, s \ {Pick(s)})
  BY <1>2, <1>3, SumUnfold
<1>5. s \ {Pick(s)} \in SUBSET s /\ s \ {Pick(s)} # s BY <1>4
<1>. QED BY <1>1, <1>4, <1>5

\* A sum of natural numbers is one, and at least each of its terms.
LEMMA SumNat ==
  ASSUME NEW f, NEW S, IsFiniteSet(S), \A x \in S : f[x] \in Nat
  PROVE  SumFunctionOnSet(f, S) \in Nat
<1> DEFINE T == {s \in SUBSET S : SumFunctionOnSet(f, s) \notin Nat}
<1>. SUFFICES ASSUME T # {} PROVE FALSE OBVIOUS
<1>1. PICK s \in T : \A u \in SUBSET s : u # s => u \notin T
  <2>1. T \subseteq SUBSET S OBVIOUS
  <2>. HIDE DEF T
  <2>. QED BY <2>1, MinimalSubset
<1>2. s # {} BY SumEmpty
<1>3. IsFiniteSet(s) BY FS_Subset
<1>4. /\ Pick(s) \in s
      /\ SumFunctionOnSet(f, s) = f[Pick(s)] + SumFunctionOnSet(f, s \ {Pick(s)})
  BY <1>2, <1>3, SumUnfold
<1>5. s \ {Pick(s)} \in SUBSET s /\ s \ {Pick(s)} # s BY <1>4
<1>6. SumFunctionOnSet(f, s \ {Pick(s)}) \in Nat BY <1>1, <1>5
<1>. QED BY <1>4, <1>6

LEMMA SumAtLeast ==
  ASSUME NEW f, NEW S, IsFiniteSet(S), \A x \in S : f[x] \in Nat, NEW x \in S
  PROVE  f[x] <= SumFunctionOnSet(f, S)
<1> DEFINE R == S \ {x}
<1>1. SumFunctionOnSet(f, S) = f[x] + SumFunctionOnSet(f, R)
  <2>1. \A y \in S : f[y] \in Int OBVIOUS
  <2>. QED BY <2>1, SumRemove
<1>2. SumFunctionOnSet(f, R) \in Nat
  <2>1. IsFiniteSet(R) BY FS_Subset
  <2>2. \A y \in R : f[y] \in Nat OBVIOUS
  <2>. HIDE DEF R
  <2>. QED BY <2>1, <2>2, SumNat
<1>3. f[x] \in Nat OBVIOUS
<1>. HIDE DEF R
<1>. QED BY <1>1, <1>2, <1>3

-----------------------------------------------------------------------------
(* The balance and the ledger                                              *)

LEMMA RefsFinite == IsFiniteSet(Refs) /\ IsFiniteSet(HoldRefs)
<1>1. IsFiniteSet(Refs) BY RefAssumption DEF RefAssumption
<1>. QED BY <1>1, FS_Subset, ConstantTypes

\* What a movement writes.
LEMMA Posted ==
  ASSUME TypeOK, NEW from \in Wallets, NEW to \in Wallets, NEW amount \in Nat,
         NEW ref \in Refs, NEW type \in TransferType, from # to,
         Post(from, to, amount, ref, type)
  PROVE  /\ entry'[from][ref] = [dir |-> "DEBIT", type |-> type, amount |-> amount,
                                 peer |-> to, day |-> DayOf[now]]
         /\ entry'[to][ref] = [dir |-> "CREDIT", type |-> type, amount |-> amount,
                               peer |-> from, day |-> DayOf[now]]
         /\ balance'[from] = balance[from] - amount
         /\ balance'[to] = balance[to] + amount
         /\ \A x \in Wallets : x \notin {from, to} => balance'[x] = balance[x]
<1>1. entry' = [entry EXCEPT
          ![from][ref] = [dir |-> "DEBIT", type |-> type, amount |-> amount,
                          peer |-> to, day |-> DayOf[now]],
          ![to][ref]   = [dir |-> "CREDIT", type |-> type, amount |-> amount,
                          peer |-> from, day |-> DayOf[now]]]
  BY Zenon DEF Post
<1>2. balance' = [balance EXCEPT ![from] = @ - amount, ![to] = @ + amount]
  BY DEF Post
<1>. QED BY <1>1, <1>2 DEF TypeOK

\* It writes no other entry.
LEMMA NotPosted ==
  ASSUME TypeOK, NEW from \in Wallets, NEW to \in Wallets, NEW amount, NEW ref \in Refs,
         NEW type, Post(from, to, amount, ref, type),
         NEW x \in Wallets, NEW y \in Refs, ~(y = ref /\ x \in {from, to})
  PROVE  entry'[x][y] = entry[x][y]
BY DEF Post, TypeOK

\* A signed entry is an integer.
LEMMA SignedType ==
  ASSUME TypeOK, NEW w \in Wallets
  PROVE  \A ref \in Refs : SignedAmounts(w)[ref] \in Int
BY DEF TypeOK, Entries, SignedAmounts

\* A movement adds to each side's entries what it adds to its balance.
LEMMA PostingAddsUp ==
  ASSUME TypeOK, TypeOK', BalanceIsLedger,
         NEW from \in Wallets, NEW to \in Wallets, NEW ref \in Refs,
         Posting(from, to, ref)
  PROVE  BalanceIsLedger'
<1>1. PICK amount \in Nat, type \in TransferType : Post(from, to, amount, ref, type)
  BY DEF Posting
<1>2. from # to /\ entry[from][ref] = NoEntry /\ entry[to][ref] = NoEntry
  BY DEF Posting, Unused
<1>p. /\ entry'[from][ref].dir = "DEBIT" /\ entry'[from][ref].amount = amount
      /\ entry'[to][ref].dir = "CREDIT" /\ entry'[to][ref].amount = amount
      /\ \A x \in Wallets, y \in Refs :
            ~(y = ref /\ x \in {from, to}) => entry'[x][y] = entry[x][y]
  <2>1. /\ entry'[from][ref] = [dir |-> "DEBIT", type |-> type, amount |-> amount,
                                peer |-> to, day |-> DayOf[now]]
        /\ entry'[to][ref] = [dir |-> "CREDIT", type |-> type, amount |-> amount,
                              peer |-> from, day |-> DayOf[now]]
    BY <1>1, <1>2, Posted
  <2>2. ASSUME NEW x \in Wallets, NEW y \in Refs, ~(y = ref /\ x \in {from, to})
        PROVE  entry'[x][y] = entry[x][y]
    BY <1>1, <2>2, NotPosted
  <2>. QED BY <2>1, <2>2
<1>. SUFFICES ASSUME NEW w \in Wallets
              PROVE  balance'[w] = SumFunctionOnSet(SignedAmounts(w)', Refs)
  BY DEF BalanceIsLedger
<1> DEFINE f == SignedAmounts(w)
           g == SignedAmounts(w)'
<1>3. \A y \in Refs : f[y] \in Int /\ g[y] \in Int
  <2>1. \A y \in Refs : f[y] \in Int BY SignedType
  <2>2. \A y \in Refs : g[y] \in Int BY DEF TypeOK, Entries, SignedAmounts
  <2>. QED BY <2>1, <2>2
<1>4. \A y \in Refs \ {ref} : f[y] = g[y]
  BY <1>p DEF SignedAmounts
<1>5. balance'[w] = balance[w] - f[ref] + g[ref]
  <2>1. balance[w] \in Int BY DEF TypeOK
  <2>2. CASE w = from
    <3>1. f[ref] = 0 BY <1>2, <2>2 DEF SignedAmounts, NoEntry
    <3>2. g[ref] = 0 - amount BY <1>p, <2>2 DEF SignedAmounts
    <3>3. balance'[w] = balance[w] - amount BY <1>1, <1>2, <2>2, Posted
    <3>. HIDE DEF f, g
    <3>. QED BY <2>1, <3>1, <3>2, <3>3
  <2>3. CASE w = to
    <3>1. f[ref] = 0 BY <1>2, <2>3 DEF SignedAmounts, NoEntry
    <3>2. g[ref] = amount BY <1>p, <2>3 DEF SignedAmounts
    <3>3. balance'[w] = balance[w] + amount BY <1>1, <1>2, <2>3, Posted
    <3>. HIDE DEF f, g
    <3>. QED BY <2>1, <3>1, <3>2, <3>3
  <2>4. CASE w \notin {from, to}
    <3>1. balance'[w] = balance[w] BY <1>1, <1>2, <2>4, Posted
    <3>2. f[ref] = g[ref] BY <1>p, <2>4 DEF SignedAmounts
    <3>3. f[ref] \in Int BY <1>3
    <3>. HIDE DEF f, g
    <3>. QED BY <2>1, <3>1, <3>2, <3>3
  <2>. QED BY <2>2, <2>3, <2>4
<1>6. balance[w] = SumFunctionOnSet(f, Refs) BY DEF BalanceIsLedger
<1>. HIDE DEF f, g
<1>7. SumFunctionOnSet(g, Refs) = SumFunctionOnSet(f, Refs) - f[ref] + g[ref]
  BY <1>3, <1>4, RefsFinite, SumMove DEF Share
<1>. QED BY <1>5, <1>6, <1>7 DEF g

\* The balance of every wallet is the sum of its ledger entries, for any number
\* of entries: BALANCE_DRIFT_FULL never fires.
THEOREM BalanceIsSum == Spec => []BalanceIsLedger
<1>1. Init => NotSelf /\ BalanceIsLedger
  <2>. SUFFICES ASSUME Init PROVE NotSelf /\ BalanceIsLedger OBVIOUS
  <2>1. NotSelf BY ConstantTypes DEF Init, NotSelf, NoHold
  <2>2. ASSUME NEW w \in Wallets
        PROVE  balance[w] = SumFunctionOnSet(SignedAmounts(w), Refs)
    <3>1. \A ref \in Refs : SignedAmounts(w)[ref] = 0
      BY DEF Init, NoEntry, SignedAmounts
    <3>2. balance[w] = 0 BY DEF Init
    <3>. QED BY <3>1, <3>2, RefsFinite, SumZero
  <2>. QED BY <2>1, <2>2 DEF BalanceIsLedger
<1>2. TypeOK /\ TypeOK' /\ NotSelf /\ BalanceIsLedger /\ [Next]_vars => BalanceIsLedger'
  <2>. SUFFICES ASSUME TypeOK, TypeOK', NotSelf, BalanceIsLedger, [Next]_vars
                PROVE  BalanceIsLedger'
    OBVIOUS
  <2>1. CASE UNCHANGED money BY <2>1 DEF BalanceIsLedger, SignedAmounts, money
  <2>2. CASE \E from \in Wallets, to \in Wallets, ref \in Refs : Posting(from, to, ref)
    BY <2>2, PostingAddsUp
  <2>. QED BY <2>1, <2>2, StepPosts
<1>. QED BY <1>1, <1>2, NotSelfStep, TypeCorrect, PTL DEF Spec

-----------------------------------------------------------------------------
(* What a step does to holds, reservations, usage and entries              *)

SameTerms(h, new) ==
    new.amount = h.amount /\ new.dest = h.dest /\ new.usageDay = h.usageDay

Turn(w, r, new) == hold' = [hold EXCEPT ![w][r] = new]

Quiet == UNCHANGED <<held, hold, entry, spentDay>>

\* A movement under a reference that is no hold's; only transfers use limits.
Moved(from, to, amount, ref, type) ==
    /\ from # to
    /\ Unused(from, to, ref)
    /\ Post(from, to, amount, ref, type)
    /\ UNCHANGED <<held, hold>>
    /\ \/ type # "P2P_TRANSFER" /\ UNCHANGED spentDay
       \/ /\ type = "P2P_TRANSFER"
          /\ from \in Users
          /\ spentDay' = [spentDay EXCEPT ![from][DayOf[now]] = @ + amount]

Reserved(w, r, new) ==
    /\ hold[w][r] = NoHold
    /\ Turn(w, r, new)
    /\ new.status = "PENDING" /\ new.amount \in Amounts /\ new.usageDay = DayOf[now]
    /\ held' = [held EXCEPT ![w] = @ + new.amount]
    /\ IF w \in Users
       THEN spentDay' = [spentDay EXCEPT ![w][DayOf[now]] = @ + new.amount]
       ELSE UNCHANGED spentDay
    /\ UNCHANGED entry

Paid(w, r, new) ==
    /\ hold[w][r].status = "PENDING"
    /\ Turn(w, r, new)
    /\ new.status = "CAPTURED" /\ SameTerms(hold[w][r], new)
    /\ Unused(w, DestOf(hold[w][r]), r)
    /\ Post(w, DestOf(hold[w][r]), hold[w][r].amount, r, "PAYMENT")
    /\ held' = [held EXCEPT ![w] = @ - hold[w][r].amount]
    /\ UNCHANGED spentDay

\* Extensions, and captures and refunds that the ledger has seen before.
Relabelled(w, r, new) ==
    /\ Turn(w, r, new)
    /\ SameTerms(hold[w][r], new)
    /\ \/ hold[w][r].status = "PENDING" /\ new.status = "PENDING"
       \/ Settled(hold[w][r]) /\ Settled(new)
    /\ UNCHANGED <<held, entry, spentDay>>

PaidBack(w, r, f, new) ==
    /\ Settled(hold[w][r]) /\ Settled(new)
    /\ Turn(w, r, new)
    /\ SameTerms(hold[w][r], new)
    /\ Unused(DestOf(hold[w][r]), w, f)
    /\ Post(DestOf(hold[w][r]), w, hold[w][r].amount, f, "REFUND")
    /\ UNCHANGED <<held, spentDay>>

HoldEffect(w, r) ==
    \/ \E new : Reserved(w, r, new)
    \/ \E final \in {"RELEASED", "EXPIRED"} : FreeHold(w, r, final)
    \/ \E new : Paid(w, r, new)
    \/ \E new : Relabelled(w, r, new)
    \/ \E f \in RefundRefOf[r] : \E new : PaidBack(w, r, f, new)

\* The calls on a hold: a capture of a hold that was refunded, or whose entry
\* is already there, only relabels it.
LEMMA HoldStepEffect ==
  ASSUME TypeOK, NotSelf, CaptureSettles, HoldStep
  PROVE  \E w \in Owners, r \in HoldRefs : HoldEffect(w, r)
<1>1. PICK w \in Owners, r \in HoldRefs :
         \/ \E dest \in Owners \cup {NoWallet}, a \in Amounts, t \in Time :
                CreateHold(w, dest, a, r, t)
         \/ \E t \in Time : ExtendHold(w, r, t)
         \/ CaptureHold(w, r)
         \/ CaptureExpiredHold(w, r)
         \/ ReleaseHold(w, r)
         \/ \E f \in RefundRefOf[r] : RefundCapture(w, r, f)
  BY DEF HoldStep
<1>2. hold[w][r] \in Holds BY HoldData
<1>3. ASSUME NEW dest, NEW a \in Amounts, NEW t, CreateHold(w, dest, a, r, t)
      PROVE  HoldEffect(w, r)
  <2> DEFINE new == [status |-> "PENDING", amount |-> a, dest |-> dest, createdAt |-> now,
                     expiresAt |-> t, usageDay |-> DayOf[now], refundRef |-> NoRef]
  <2>1. /\ hold' = [hold EXCEPT ![w][r] = new]
        /\ hold[w][r] = NoHold
        /\ held' = [held EXCEPT ![w] = @ + a]
        /\ UNCHANGED entry
        /\ CheckAndReserve(w, a)
    BY <1>3, Zenon DEF CreateHold, money
  <2>2. IF w \in Users THEN spentDay' = [spentDay EXCEPT ![w][DayOf[now]] = @ + a]
                       ELSE UNCHANGED spentDay
    BY <2>1 DEF CheckAndReserve
  <2>3. Reserved(w, r, new) BY <2>1, <2>2 DEF Reserved, Turn
  <2>. QED BY <2>3 DEF HoldEffect
<1>4. ASSUME NEW t, ExtendHold(w, r, t) PROVE HoldEffect(w, r)
  <2> DEFINE new == [hold[w][r] EXCEPT !.expiresAt = t]
  <2>1. /\ hold' = [hold EXCEPT ![w][r] = new]
        /\ hold[w][r].status = "PENDING"
        /\ UNCHANGED <<held, entry, spentDay>>
    BY <1>4, Zenon DEF ExtendHold, money
  <2>2. new.status = "PENDING" /\ SameTerms(hold[w][r], new)
    BY <1>2, <2>1 DEF Holds, SameTerms
  <2>. HIDE DEF new
  <2>. QED BY <2>1, <2>2 DEF HoldEffect, Relabelled, Turn
<1>5. CASE CaptureHold(w, r)
  <2> DEFINE new == [hold[w][r] EXCEPT !.status = "CAPTURED"]
  <2>1. /\ hold' = [hold EXCEPT ![w][r] = new]
        /\ hold[w][r].status \in {"PENDING", "REFUNDED"}
        /\ UNCHANGED spentDay
        /\ \/ /\ Replayed(w, hold[w][r].amount, r, "PAYMENT")
              /\ UNCHANGED <<entry, held>>
           \/ /\ Unused(w, DestOf(hold[w][r]), r)
              /\ held' = [held EXCEPT ![w] = @ - hold[w][r].amount]
              /\ Post(w, DestOf(hold[w][r]), hold[w][r].amount, r, "PAYMENT")
    BY <1>5, Zenon DEF CaptureHold, money
  <2>2. new.status = "CAPTURED" /\ SameTerms(hold[w][r], new)
    BY <1>2 DEF Holds, SameTerms
  <2>. HIDE DEF new
  <2>3. CASE Replayed(w, hold[w][r].amount, r, "PAYMENT") /\ UNCHANGED <<entry, held>>
    <3>1. Settled(hold[w][r]) BY <2>3 DEF Replayed, CaptureSettles, Settled
    <3>. QED BY <2>1, <2>2, <2>3, <3>1 DEF HoldEffect, Relabelled, Turn, Settled
  <2>4. CASE /\ Unused(w, DestOf(hold[w][r]), r)
             /\ held' = [held EXCEPT ![w] = @ - hold[w][r].amount]
             /\ Post(w, DestOf(hold[w][r]), hold[w][r].amount, r, "PAYMENT")
    <3>1. entry[w][r].dir = "NONE" BY <2>4 DEF Unused, NoEntry
    <3>2. hold[w][r].status = "PENDING" BY <2>1, <3>1 DEF CaptureSettles, PaidOut
    <3>3. Paid(w, r, new) BY <2>1, <2>2, <2>4, <3>2 DEF Paid, Turn
    <3>. QED BY <3>3 DEF HoldEffect
  <2>. QED BY <2>1, <2>3, <2>4
<1>6. CASE CaptureExpiredHold(w, r) BY <1>6 DEF CaptureExpiredHold, HoldEffect
<1>7. CASE ReleaseHold(w, r) BY <1>7 DEF ReleaseHold, HoldEffect
<1>8. ASSUME NEW f \in RefundRefOf[r], RefundCapture(w, r, f) PROVE HoldEffect(w, r)
  <2> DEFINE new == [hold[w][r] EXCEPT !.status = "REFUNDED", !.refundRef = f]
  <2>1. /\ hold' = [hold EXCEPT ![w][r] = new]
        /\ hold[w][r].status = "CAPTURED"
        /\ UNCHANGED <<held, spentDay>>
        /\ \/ UNCHANGED entry
           \/ /\ Unused(DestOf(hold[w][r]), w, f)
              /\ Post(DestOf(hold[w][r]), w, hold[w][r].amount, f, "REFUND")
    BY <1>8, Zenon DEF RefundCapture, Move, money
  <2>2. new.status = "REFUNDED" /\ SameTerms(hold[w][r], new)
    BY <1>2 DEF Holds, SameTerms
  <2>3. Settled(hold[w][r]) /\ Settled(new) BY <2>1, <2>2 DEF Settled
  <2>. HIDE DEF new
  <2>4. CASE UNCHANGED entry
    <3>1. Relabelled(w, r, new) BY <2>1, <2>2, <2>3, <2>4 DEF Relabelled, Turn
    <3>. QED BY <3>1 DEF HoldEffect
  <2>5. CASE /\ Unused(DestOf(hold[w][r]), w, f)
             /\ Post(DestOf(hold[w][r]), w, hold[w][r].amount, f, "REFUND")
    <3>1. PaidBack(w, r, f, new) BY <2>1, <2>2, <2>3, <2>5 DEF PaidBack, Turn
    <3>. QED BY <3>1 DEF HoldEffect
  <2>. QED BY <2>1, <2>4, <2>5
<1>. QED BY <1>1, <1>3, <1>4, <1>5, <1>6, <1>7, <1>8

LEMMA LedgerStepEffect ==
  ASSUME TypeOK, LedgerStep
  PROVE  \E from \in Wallets, to \in Wallets, amount \in Nat, ref \in MoveRefs,
            type \in TransferType : Moved(from, to, amount, ref, type)
<1>1. PICK w \in Owners, a \in Amounts, ref \in MoveRefs :
         \/ \E type \in {"TOPUP", "REFUND"} : Credit(w, a, ref, type)
         \/ Debit(w, a, ref)
         \/ \E u \in Users : Transfer(w, u, a, ref)
         \/ AdjustDebit(w, a, ref)
         \/ AdjustCredit(w, a, ref)
  BY LedgerStepIs
<1>2. a \in Nat /\ w \in Wallets BY ConstantTypes
<1>3. CASE ~ \E u \in Users : Transfer(w, u, a, ref)
  <2>1. PICK from \in Wallets, to \in Wallets, type \in TransferType :
           /\ from # to /\ Unused(from, to, ref) /\ Post(from, to, a, ref, type)
           /\ type # "P2P_TRANSFER"
           /\ UNCHANGED <<held, hold, spentDay>>
    BY <1>1, <1>3, ConstantTypes
       DEF Credit, Debit, AdjustDebit, AdjustCredit, Move, TransferType
  <2>2. Moved(from, to, a, ref, type) BY <2>1 DEF Moved
  <2>. QED BY <1>2, <2>2
<1>4. ASSUME NEW u \in Users, Transfer(w, u, a, ref)
      PROVE  Moved(w, u, a, ref, "P2P_TRANSFER")
  BY <1>4, Zenon DEF Moved, Transfer, CheckAndReserve, Move
<1>5. "P2P_TRANSFER" \in TransferType BY DEF TransferType
<1>. QED BY <1>2, <1>3, <1>4, <1>5, ConstantTypes

\* Every step of the wallet is of one of these kinds.
LEMMA StepEffect ==
  ASSUME TypeOK, NotSelf, CaptureSettles, [Next]_vars
  PROVE  \/ Quiet
         \/ \E from \in Wallets, to \in Wallets, amount \in Nat, ref \in MoveRefs,
               type \in TransferType : Moved(from, to, amount, ref, type)
         \/ \E w \in Owners, r \in HoldRefs : HoldEffect(w, r)
<1>1. CASE SweepStep
  <2>1. PICK s \in Sweepers :
           \/ SweepScan(s)
           \/ \E w \in Owners, r \in HoldRefs : SweepHold(s, w, r) \/ SweepSkip(s, w, r)
           \/ SweepCrash(s)
    BY <1>1 DEF SweepStep
  <2>2. ASSUME NEW w \in Owners, NEW r \in HoldRefs, SweepHold(s, w, r)
        PROVE  HoldEffect(w, r)
    BY <2>2 DEF SweepHold, HoldEffect
  <2>3. ASSUME NEW w \in Owners, NEW r \in HoldRefs, SweepSkip(s, w, r) PROVE Quiet
    BY <2>3, Zenon DEF SweepSkip, money, Quiet
  <2>4. SweepScan(s) \/ SweepCrash(s) => Quiet
    BY Zenon DEF SweepScan, SweepCrash, money, Quiet
  <2>. QED BY <2>1, <2>2, <2>3, <2>4
<1>2. AdminStep \/ Tick => Quiet
  BY Zenon DEF AdminStep, CreateWallet, SetLock, KycUpdated, Tick, money, Quiet
<1>3. UNCHANGED vars => Quiet BY DEF vars, Quiet
<1>. QED BY <1>1, <1>2, <1>3, HoldStepEffect, LedgerStepEffect DEF Next

-----------------------------------------------------------------------------
(* Reservations and usage                                                  *)

\* What one hold adds to heldBalance, one hold or entry to a day's usage.
PendingUse(w, r) == IF r \in PendingHolds(w) THEN hold[w][r].amount ELSE 0
HoldUse(u, d, r) == IF r \in HoldsOfDay(u, d) THEN hold[u][r].amount ELSE 0
TransferUse(u, d, ref) == IF ref \in TransfersOfDay(u, d) THEN entry[u][ref].amount ELSE 0

\* Rewriting one hold.
LEMMA Turned ==
  ASSUME TypeOK, NEW w \in Owners, NEW r \in HoldRefs, NEW new, Turn(w, r, new)
  PROVE  hold'[w][r] = new
BY DEF Turn, TypeOK

LEMMA NotTurned ==
  ASSUME TypeOK, NEW w, NEW r, NEW new, Turn(w, r, new),
         NEW x \in Owners, NEW y \in HoldRefs, ~(x = w /\ y = r)
  PROVE  hold'[x][y] = hold[x][y]
BY DEF Turn, TypeOK

\* A step that rewrites at most hold r of each wallet keeps HeldIsPending if it
\* changes heldBalance by what the hold adds.
LEMMA HeldFollows ==
  ASSUME TypeOK, TypeOK', HeldIsPending, NEW r,
         \A x \in Owners, y \in HoldRefs \ {r} : hold'[x][y] = hold[x][y],
         \A x \in Owners : held'[x] = held[x] - PendingUse(x, r) + PendingUse(x, r)'
  PROVE  HeldIsPending'
<1>. SUFFICES ASSUME NEW w \in Owners
              PROVE  held'[w] = SumFunctionOnSet(HoldAmounts(w)', PendingHolds(w)')
  BY DEF HeldIsPending
<1> DEFINE f == HoldAmounts(w)
           g == HoldAmounts(w)'
           S == PendingHolds(w)
           R == PendingHolds(w)'
<1>1. S \subseteq HoldRefs /\ R \subseteq HoldRefs BY DEF PendingHolds
<1>2. \A y \in HoldRefs : f[y] = hold[w][y].amount /\ g[y] = hold'[w][y].amount
  BY DEF HoldAmounts
<1>3. \A y \in HoldRefs : hold[w][y].amount \in Int /\ hold'[w][y].amount \in Int
  BY DEF TypeOK, Holds
<1>4. S \ {r} = R \ {r} BY DEF PendingHolds
<1>5. \A y \in S \ {r} : f[y] = g[y] BY <1>1, <1>2
<1>6. Share(f, S, r) = PendingUse(w, r) /\ Share(g, R, r) = PendingUse(w, r)'
  BY <1>1, <1>2 DEF Share, PendingUse
<1>7. held[w] = SumFunctionOnSet(f, S) BY DEF HeldIsPending
<1>8. \A y \in S : f[y] \in Int BY <1>1, <1>2, <1>3
<1>9. \A y \in R : g[y] \in Int BY <1>1, <1>2, <1>3
<1>10. IsFiniteSet(S) /\ IsFiniteSet(R) BY <1>1, RefsFinite, FS_Subset
<1>. HIDE DEF f, g, S, R
<1>11. SumFunctionOnSet(g, R) = SumFunctionOnSet(f, S) - Share(f, S, r) + Share(g, R, r)
  BY <1>4, <1>5, <1>8, <1>9, <1>10, SumMove
<1>. QED BY <1>6, <1>7, <1>11 DEF g, R

\* The same for what the holds of a day come to.
LEMMA DayHoldsFollow ==
  ASSUME TypeOK, TypeOK', NEW u \in Users, NEW d, NEW r,
         \A y \in HoldRefs \ {r} : hold'[u][y] = hold[u][y]
  PROVE  /\ SumFunctionOnSet(HoldAmounts(u), HoldsOfDay(u, d)) \in Int
         /\ HoldUse(u, d, r) \in Int /\ HoldUse(u, d, r)' \in Int
         /\ SumFunctionOnSet(HoldAmounts(u), HoldsOfDay(u, d))'
               = SumFunctionOnSet(HoldAmounts(u), HoldsOfDay(u, d))
                 - HoldUse(u, d, r) + HoldUse(u, d, r)'
<1>0. u \in Owners BY ConstantTypes
<1> DEFINE f == HoldAmounts(u)
           g == HoldAmounts(u)'
           S == HoldsOfDay(u, d)
           R == HoldsOfDay(u, d)'
<1>1. S \subseteq HoldRefs /\ R \subseteq HoldRefs BY DEF HoldsOfDay
<1>2. \A y \in HoldRefs : f[y] = hold[u][y].amount /\ g[y] = hold'[u][y].amount
  BY DEF HoldAmounts
<1>3. \A y \in HoldRefs : hold[u][y].amount \in Int /\ hold'[u][y].amount \in Int
  BY <1>0 DEF TypeOK, Holds
<1>4. S \ {r} = R \ {r} BY DEF HoldsOfDay
<1>5. \A y \in S \ {r} : f[y] = g[y] BY <1>1, <1>2
<1>6. Share(f, S, r) = HoldUse(u, d, r) /\ Share(g, R, r) = HoldUse(u, d, r)'
  BY <1>1, <1>2 DEF Share, HoldUse
<1>7. \A y \in S : f[y] \in Int BY <1>1, <1>2, <1>3
<1>8. \A y \in R : g[y] \in Int BY <1>1, <1>2, <1>3
<1>9. IsFiniteSet(S) /\ IsFiniteSet(R) BY <1>1, RefsFinite, FS_Subset
<1>. HIDE DEF f, g, S, R
<1>10. SumFunctionOnSet(g, R) = SumFunctionOnSet(f, S) - Share(f, S, r) + Share(g, R, r)
  BY <1>4, <1>5, <1>7, <1>8, <1>9, SumMove
<1>11. SumFunctionOnSet(f, S) \in Int BY <1>7, <1>9, SumInt
<1>12. Share(f, S, r) \in Int /\ Share(g, R, r) \in Int BY <1>7, <1>8 DEF Share
<1>. QED BY <1>6, <1>10, <1>11, <1>12 DEF f, g, S, R

\* And its transfers.
LEMMA DayTransfersFollow ==
  ASSUME TypeOK, TypeOK', NEW u \in Users, NEW d, NEW ref,
         \A y \in Refs \ {ref} : entry'[u][y] = entry[u][y]
  PROVE  /\ SumFunctionOnSet(EntryAmounts(u), TransfersOfDay(u, d)) \in Int
         /\ TransferUse(u, d, ref) \in Int /\ TransferUse(u, d, ref)' \in Int
         /\ SumFunctionOnSet(EntryAmounts(u), TransfersOfDay(u, d))'
               = SumFunctionOnSet(EntryAmounts(u), TransfersOfDay(u, d))
                 - TransferUse(u, d, ref) + TransferUse(u, d, ref)'
<1>0. u \in Wallets BY ConstantTypes
<1> DEFINE f == EntryAmounts(u)
           g == EntryAmounts(u)'
           S == TransfersOfDay(u, d)
           R == TransfersOfDay(u, d)'
<1>1. S \subseteq Refs /\ R \subseteq Refs BY DEF TransfersOfDay
<1>2. \A y \in Refs : f[y] = entry[u][y].amount /\ g[y] = entry'[u][y].amount
  BY DEF EntryAmounts
<1>3. \A y \in Refs : entry[u][y].amount \in Int /\ entry'[u][y].amount \in Int
  BY <1>0 DEF TypeOK, Entries
<1>4. S \ {ref} = R \ {ref} BY DEF TransfersOfDay
<1>5. \A y \in S \ {ref} : f[y] = g[y] BY <1>1, <1>2
<1>6. Share(f, S, ref) = TransferUse(u, d, ref) /\ Share(g, R, ref) = TransferUse(u, d, ref)'
  BY <1>1, <1>2 DEF Share, TransferUse
<1>7. \A y \in S : f[y] \in Int BY <1>1, <1>2, <1>3
<1>8. \A y \in R : g[y] \in Int BY <1>1, <1>2, <1>3
<1>9. IsFiniteSet(S) /\ IsFiniteSet(R) BY <1>1, RefsFinite, FS_Subset
<1>. HIDE DEF f, g, S, R
<1>10. SumFunctionOnSet(g, R) = SumFunctionOnSet(f, S) - Share(f, S, ref) + Share(g, R, ref)
  BY <1>4, <1>5, <1>7, <1>8, <1>9, SumMove
<1>11. SumFunctionOnSet(f, S) \in Int BY <1>7, <1>9, SumInt
<1>12. Share(f, S, ref) \in Int /\ Share(g, R, ref) \in Int BY <1>7, <1>8 DEF Share
<1>. QED BY <1>6, <1>10, <1>11, <1>12 DEF f, g, S, R

\* So for usage: at most hold r and entry ref of each wallet change.
LEMMA UsageFollows ==
  ASSUME TypeOK, TypeOK', UsageIsAccounted, NEW r, NEW ref,
         \A x \in Users, y \in HoldRefs \ {r} : hold'[x][y] = hold[x][y],
         \A x \in Users, y \in Refs \ {ref} : entry'[x][y] = entry[x][y],
         \A u \in Users, d \in Days :
            spentDay'[u][d] = spentDay[u][d] - HoldUse(u, d, r) + HoldUse(u, d, r)'
                              - TransferUse(u, d, ref) + TransferUse(u, d, ref)'
  PROVE  UsageIsAccounted'
<1>. SUFFICES ASSUME NEW u \in Users, NEW d \in Days
              PROVE  spentDay'[u][d] = DayUsage(u, d)'
  BY DEF UsageIsAccounted
<1> DEFINE H == SumFunctionOnSet(HoldAmounts(u), HoldsOfDay(u, d))
           T == SumFunctionOnSet(EntryAmounts(u), TransfersOfDay(u, d))
<1>1. /\ H \in Int /\ HoldUse(u, d, r) \in Int /\ HoldUse(u, d, r)' \in Int
      /\ H' = H - HoldUse(u, d, r) + HoldUse(u, d, r)'
  BY DayHoldsFollow
<1>2. /\ T \in Int /\ TransferUse(u, d, ref) \in Int /\ TransferUse(u, d, ref)' \in Int
      /\ T' = T - TransferUse(u, d, ref) + TransferUse(u, d, ref)'
  BY DayTransfersFollow
<1>3. spentDay[u][d] = H + T BY DEF UsageIsAccounted, DayUsage
<1>4. DayUsage(u, d)' = H' + T' BY DEF DayUsage
<1>. HIDE DEF H, T
<1>. QED BY <1>1, <1>2, <1>3, <1>4

\* The uses are integers.
LEMMA UsesType ==
  ASSUME TypeOK
  PROVE  /\ \A w \in Owners, r \in HoldRefs :
               hold[w][r].amount \in Nat /\ held[w] \in Int /\ PendingUse(w, r) \in Int
         /\ \A u \in Users, d \in Days :
               /\ spentDay[u][d] \in Int
               /\ \A r : HoldUse(u, d, r) \in Int
               /\ \A ref : TransferUse(u, d, ref) \in Int
<1>1. \A w \in Owners, r \in HoldRefs : hold[w][r].amount \in Nat BY HoldData
<1>2. \A w \in Owners : held[w] \in Int BY ConstantTypes DEF TypeOK
<1>3. \A u \in Users, d \in Days : spentDay[u][d] \in Int BY DEF TypeOK
<1>4. \A u \in Users, ref \in Refs : entry[u][ref].amount \in Nat
  BY ConstantTypes DEF TypeOK, Entries
<1>. QED BY <1>1, <1>2, <1>3, <1>4, ConstantTypes
         DEF PendingUse, HoldUse, TransferUse, PendingHolds, HoldsOfDay, TransfersOfDay

\* A movement uses the limits of its source if it is a transfer, and nobody's
\* else.
LEMMA PostedUse ==
  ASSUME TypeOK, NEW from \in Wallets, NEW to \in Wallets, NEW amount \in Nat,
         NEW ref \in Refs, NEW type \in TransferType, from # to,
         Unused(from, to, ref), Post(from, to, amount, ref, type),
         NEW u \in Users, NEW d \in Days
  PROVE  TransferUse(u, d, ref)' =
            TransferUse(u, d, ref)
            + (IF u = from /\ type = "P2P_TRANSFER" /\ d = DayOf[now] THEN amount ELSE 0)
<1>1. u \in Wallets BY ConstantTypes
<1>2. /\ entry'[from][ref] = [dir |-> "DEBIT", type |-> type, amount |-> amount,
                              peer |-> to, day |-> DayOf[now]]
      /\ entry'[to][ref] = [dir |-> "CREDIT", type |-> type, amount |-> amount,
                            peer |-> from, day |-> DayOf[now]]
  BY Posted
<1>3. entry[from][ref].dir = "NONE" /\ entry[to][ref].dir = "NONE" BY DEF Unused, NoEntry
<1>4. CASE u = from
  BY <1>2, <1>3, <1>4 DEF TransferUse, TransfersOfDay
<1>5. CASE u = to
  BY <1>2, <1>3, <1>5 DEF TransferUse, TransfersOfDay
<1>6. CASE u \notin {from, to}
  <2>1. entry'[u][ref] = entry[u][ref] BY <1>1, <1>6, NotPosted
  <2>2. TransferUse(u, d, ref)' = TransferUse(u, d, ref)
    BY <2>1 DEF TransferUse, TransfersOfDay
  <2>3. TransferUse(u, d, ref) \in Int BY UsesType
  <2>. QED BY <1>6, <2>2, <2>3
<1>. QED BY <1>4, <1>5, <1>6

LEMMA MovedAccounted ==
  ASSUME TypeOK, TypeOK', HoldsAreAccounted,
         NEW from \in Wallets, NEW to \in Wallets, NEW amount \in Nat, NEW ref \in MoveRefs,
         NEW type \in TransferType, Moved(from, to, amount, ref, type)
  PROVE  HoldsAreAccounted'
<1>1. HeldIsPending'
  BY DEF HoldsAreAccounted, HeldIsPending, Moved, HoldAmounts, PendingHolds
<1>2. ref \in Refs /\ UNCHANGED hold BY ConstantTypes DEF Moved
<1>3. \A x \in Users, y \in Refs \ {ref} : entry'[x][y] = entry[x][y]
  BY <1>2, NotPosted, ConstantTypes DEF Moved
<1>4. ASSUME NEW u \in Users, NEW d \in Days
      PROVE  spentDay'[u][d] = spentDay[u][d] - HoldUse(u, d, ref) + HoldUse(u, d, ref)'
                               - TransferUse(u, d, ref) + TransferUse(u, d, ref)'
  <2>1. HoldUse(u, d, ref)' = HoldUse(u, d, ref) BY <1>2 DEF HoldUse, HoldsOfDay
  <2>2. TransferUse(u, d, ref)' =
            TransferUse(u, d, ref)
            + (IF u = from /\ type = "P2P_TRANSFER" /\ d = DayOf[now] THEN amount ELSE 0)
    BY <1>2, PostedUse DEF Moved
  <2>3. spentDay'[u][d] = spentDay[u][d]
            + (IF u = from /\ type = "P2P_TRANSFER" /\ d = DayOf[now] THEN amount ELSE 0)
    BY DEF Moved, TypeOK
  <2>4. /\ spentDay[u][d] \in Int /\ HoldUse(u, d, ref) \in Int
        /\ TransferUse(u, d, ref) \in Int
    BY UsesType
  <2>. QED BY <2>1, <2>2, <2>3, <2>4
<1>5. UsageIsAccounted' BY <1>2, <1>3, <1>4, UsageFollows DEF HoldsAreAccounted
<1>. QED BY <1>1, <1>5 DEF HoldsAreAccounted

\* Reserving, paying, relabelling and freeing: what hold r of w adds before and
\* after, and nothing of the other wallets changes.
LEMMA TurnAccounted ==
  ASSUME TypeOK, TypeOK', HoldsAreAccounted,
         NEW w \in Owners, NEW r \in HoldRefs, NEW new, Turn(w, r, new),
         NEW ref \in Refs,
         \A x \in Users, y \in Refs \ {ref} : entry'[x][y] = entry[x][y],
         \A u \in Users, d \in Days : TransferUse(u, d, ref)' = TransferUse(u, d, ref),
         \A x \in Owners : x # w => held'[x] = held[x],
         held'[w] = held[w] - PendingUse(w, r) + PendingUse(w, r)',
         \A u \in Users, d \in Days : u # w => spentDay'[u][d] = spentDay[u][d],
         w \in Users => \A d \in Days :
            spentDay'[w][d] = spentDay[w][d] - HoldUse(w, d, r) + HoldUse(w, d, r)'
  PROVE  HoldsAreAccounted'
<1>1. \A x \in Owners, y \in HoldRefs : ~(x = w /\ y = r) => hold'[x][y] = hold[x][y]
  BY NotTurned
<1>2. ASSUME NEW x \in Owners
      PROVE  held'[x] = held[x] - PendingUse(x, r) + PendingUse(x, r)'
  <2>1. CASE x = w BY <2>1
  <2>2. CASE x # w
    <3>1. hold'[x][r] = hold[x][r] BY <1>1, <2>2
    <3>2. PendingUse(x, r)' = PendingUse(x, r) BY <3>1 DEF PendingUse, PendingHolds
    <3>. QED BY <2>2, <3>2, UsesType
  <2>. QED BY <2>1, <2>2
<1>3. HeldIsPending' BY <1>1, <1>2, HeldFollows DEF HoldsAreAccounted
<1>4. ASSUME NEW u \in Users, NEW d \in Days
      PROVE  spentDay'[u][d] = spentDay[u][d] - HoldUse(u, d, r) + HoldUse(u, d, r)'
                               - TransferUse(u, d, ref) + TransferUse(u, d, ref)'
  <2>0. u \in Owners /\ TransferUse(u, d, ref)' = TransferUse(u, d, ref) BY ConstantTypes
  <2>1. /\ spentDay[u][d] \in Int /\ HoldUse(u, d, r) \in Int
        /\ TransferUse(u, d, ref) \in Int
    BY UsesType
  <2>4. HoldUse(u, d, r)' \in Int
    <3>1. hold'[u][r].amount \in Nat BY <2>0 DEF TypeOK, Holds
    <3>. QED BY <3>1 DEF HoldUse, HoldsOfDay
  <2>2. CASE u = w BY <2>0, <2>1, <2>2, <2>4
  <2>3. CASE u # w
    <3>1. hold'[u][r] = hold[u][r] BY <1>1, <2>0, <2>3
    <3>2. HoldUse(u, d, r)' = HoldUse(u, d, r) BY <3>1 DEF HoldUse, HoldsOfDay
    <3>. QED BY <2>0, <2>1, <2>3, <3>2
  <2>. QED BY <2>2, <2>3
<1>5. UsageIsAccounted'
  <2>1. \A x \in Users, y \in HoldRefs \ {r} : hold'[x][y] = hold[x][y]
    BY <1>1, ConstantTypes
  <2>. QED BY <1>4, <2>1, UsageFollows DEF HoldsAreAccounted
<1>. QED BY <1>3, <1>5 DEF HoldsAreAccounted
\* What the hold adds is read off its row.
LEMMA TurnedUses ==
  ASSUME TypeOK, NEW w \in Owners, NEW r \in HoldRefs, NEW new, Turn(w, r, new)
  PROVE  /\ PendingUse(w, r) = IF hold[w][r].status = "PENDING" THEN hold[w][r].amount ELSE 0
         /\ PendingUse(w, r)' = IF new.status = "PENDING" THEN new.amount ELSE 0
         /\ \A d : HoldUse(w, d, r) =
               IF /\ hold[w][r].status \in {"PENDING", "CAPTURED", "REFUNDED"}
                  /\ hold[w][r].usageDay = d
               THEN hold[w][r].amount ELSE 0
         /\ \A d : HoldUse(w, d, r)' =
               IF new.status \in {"PENDING", "CAPTURED", "REFUNDED"} /\ new.usageDay = d
               THEN new.amount ELSE 0
<1>1. hold'[w][r] = new BY Turned
<1>. QED BY <1>1 DEF PendingUse, PendingHolds, HoldUse, HoldsOfDay

\* A capture or refund that posts an entry uses no limits.
LEMMA PostingUsesNone ==
  ASSUME TypeOK, NEW from \in Wallets, NEW to \in Wallets, NEW amount \in Nat,
         NEW ref \in Refs, NEW type \in {"PAYMENT", "REFUND"}, from # to,
         Unused(from, to, ref), Post(from, to, amount, ref, type)
  PROVE  /\ \A x \in Users, y \in Refs \ {ref} : entry'[x][y] = entry[x][y]
         /\ \A u \in Users, d \in Days : TransferUse(u, d, ref)' = TransferUse(u, d, ref)
<1>1. type \in TransferType /\ type # "P2P_TRANSFER" BY DEF TransferType
<1>2. ASSUME NEW u \in Users, NEW d \in Days
      PROVE  TransferUse(u, d, ref)' = TransferUse(u, d, ref)
  <2>1. TransferUse(u, d, ref)' =
            TransferUse(u, d, ref)
            + (IF u = from /\ type = "P2P_TRANSFER" /\ d = DayOf[now] THEN amount ELSE 0)
    BY <1>1, PostedUse
  <2>2. TransferUse(u, d, ref) \in Int BY UsesType
  <2>. QED BY <1>1, <2>1, <2>2
<1>3. ASSUME NEW x \in Users, NEW y \in Refs \ {ref} PROVE entry'[x][y] = entry[x][y]
  BY <1>3, NotPosted, ConstantTypes
<1>. QED BY <1>2, <1>3

LEMMA SameEntries ==
  ASSUME UNCHANGED entry
  PROVE  /\ \A ref, x, y : entry'[x][y] = entry[x][y]
         /\ \A u, d, ref : TransferUse(u, d, ref)' = TransferUse(u, d, ref)
BY DEF TransferUse, TransfersOfDay

LEMMA ReservedAccounted ==
  ASSUME TypeOK, TypeOK', HoldsAreAccounted, NEW w \in Owners, NEW r \in HoldRefs,
         NEW new, Reserved(w, r, new)
  PROVE  HoldsAreAccounted'
<1>1. /\ hold[w][r].status = "NONE" /\ Turn(w, r, new)
      /\ new.status = "PENDING" /\ new.amount \in Nat /\ new.usageDay = DayOf[now]
      /\ held' = [held EXCEPT ![w] = @ + new.amount]
      /\ UNCHANGED entry
      /\ r \in Refs /\ w \in Wallets
  BY ConstantTypes DEF Reserved, NoHold
<1>2. PendingUse(w, r) = 0 /\ PendingUse(w, r)' = new.amount BY <1>1, TurnedUses
<1>3. \A d : /\ HoldUse(w, d, r) = 0
             /\ HoldUse(w, d, r)' = IF d = DayOf[now] THEN new.amount ELSE 0
  BY <1>1, TurnedUses
<1>4. /\ \A x \in Owners : x # w => held'[x] = held[x]
      /\ held'[w] = held[w] - PendingUse(w, r) + PendingUse(w, r)'
  BY <1>1, <1>2, ConstantTypes DEF TypeOK
<1>5. ASSUME NEW u \in Users, NEW d \in Days
      PROVE  spentDay'[u][d] = IF u = w /\ d = DayOf[now] THEN spentDay[u][d] + new.amount
                                                          ELSE spentDay[u][d]
  BY DEF Reserved, TypeOK
<1>6. /\ \A u \in Users, d \in Days : u # w => spentDay'[u][d] = spentDay[u][d]
      /\ w \in Users => \A d \in Days :
            spentDay'[w][d] = spentDay[w][d] - HoldUse(w, d, r) + HoldUse(w, d, r)'
  BY <1>1, <1>3, <1>5, UsesType
<1>. QED BY <1>1, <1>4, <1>6, SameEntries, TurnAccounted

LEMMA FreedAccounted ==
  ASSUME TypeOK, TypeOK', HoldsAreAccounted, NEW w \in Owners, NEW r \in HoldRefs,
         NEW final \in {"RELEASED", "EXPIRED"}, FreeHold(w, r, final)
  PROVE  HoldsAreAccounted'
<1> DEFINE h == hold[w][r]
           new == [h EXCEPT !.status = final]
<1>1. h \in Holds /\ h.amount \in Nat /\ h.usageDay \in Days /\ r \in Refs /\ w \in Wallets
  BY HoldData, ConstantTypes DEF Holds
<1>2. new.status = final /\ new.amount = h.amount /\ new.usageDay = h.usageDay
  BY <1>1 DEF Holds
<1>3. /\ h.status = "PENDING"
      /\ Turn(w, r, new)
      /\ held' = [held EXCEPT ![w] = @ - h.amount]
      /\ UNCHANGED entry
      /\ RefundUsage(w, h.amount, h.usageDay)
  BY Zenon DEF FreeHold, money, Turn
<1>. HIDE DEF new
<1>4. PendingUse(w, r) = h.amount /\ PendingUse(w, r)' = 0
  BY <1>2, <1>3, TurnedUses
<1>5. \A d : /\ HoldUse(w, d, r) = IF d = h.usageDay THEN h.amount ELSE 0
             /\ HoldUse(w, d, r)' = 0
  BY <1>2, <1>3, TurnedUses
<1>. HIDE DEF h
<1>6. /\ \A x \in Owners : x # w => held'[x] = held[x]
      /\ held'[w] = held[w] - PendingUse(w, r) + PendingUse(w, r)'
  BY <1>1, <1>3, <1>4, ConstantTypes DEF TypeOK
<1>7. ASSUME NEW u \in Users, NEW d \in Days
      PROVE  spentDay'[u][d] = IF u = w /\ d = h.usageDay THEN spentDay[u][d] - h.amount
                                                         ELSE spentDay[u][d]
  BY <1>1, <1>3 DEF RefundUsage, TypeOK
<1>8. /\ \A u \in Users, d \in Days : u # w => spentDay'[u][d] = spentDay[u][d]
      /\ w \in Users => \A d \in Days :
            spentDay'[w][d] = spentDay[w][d] - HoldUse(w, d, r) + HoldUse(w, d, r)'
  BY <1>1, <1>5, <1>7, UsesType
<1>. QED BY <1>1, <1>3, <1>6, <1>8, SameEntries, TurnAccounted

LEMMA RelabelledAccounted ==
  ASSUME TypeOK, TypeOK', HoldsAreAccounted, NEW w \in Owners, NEW r \in HoldRefs,
         NEW new, Relabelled(w, r, new)
  PROVE  HoldsAreAccounted'
<1>1. /\ Turn(w, r, new) /\ SameTerms(hold[w][r], new)
      /\ \/ hold[w][r].status = "PENDING" /\ new.status = "PENDING"
         \/ Settled(hold[w][r]) /\ Settled(new)
      /\ UNCHANGED <<held, entry, spentDay>>
      /\ r \in Refs
  BY ConstantTypes DEF Relabelled
<1>2. PendingUse(w, r)' = PendingUse(w, r) BY <1>1, TurnedUses DEF SameTerms, Settled
<1>3. \A d : HoldUse(w, d, r)' = HoldUse(w, d, r)
  BY <1>1, TurnedUses DEF SameTerms, Settled
<1>4. held'[w] = held[w] - PendingUse(w, r) + PendingUse(w, r)' BY <1>1, <1>2, UsesType
<1>5. w \in Users => \A d \in Days :
         spentDay'[w][d] = spentDay[w][d] - HoldUse(w, d, r) + HoldUse(w, d, r)'
  BY <1>1, <1>3, UsesType
<1>6. /\ \A x \in Users, y \in Refs \ {r} : entry'[x][y] = entry[x][y]
      /\ \A u \in Users, d \in Days : TransferUse(u, d, r)' = TransferUse(u, d, r)
      /\ \A x \in Owners : x # w => held'[x] = held[x]
      /\ \A u \in Users, d \in Days : u # w => spentDay'[u][d] = spentDay[u][d]
  BY <1>1, SameEntries
<1>. QED BY <1>1, <1>4, <1>5, <1>6, TurnAccounted

LEMMA PaidAccounted ==
  ASSUME TypeOK, TypeOK', NotSelf, HoldsAreAccounted, NEW w \in Owners, NEW r \in HoldRefs,
         NEW new, Paid(w, r, new)
  PROVE  HoldsAreAccounted'
<1>1. /\ hold[w][r].status = "PENDING" /\ Turn(w, r, new)
      /\ new.status = "CAPTURED" /\ SameTerms(hold[w][r], new)
      /\ held' = [held EXCEPT ![w] = @ - hold[w][r].amount]
      /\ UNCHANGED spentDay
      /\ r \in Refs /\ w \in Wallets
      /\ DestOf(hold[w][r]) \in Wallets /\ DestOf(hold[w][r]) # w
      /\ hold[w][r].amount \in Nat
  BY HoldData, ConstantTypes DEF Paid, NotSelf, DestOf
<1>2. PendingUse(w, r) = hold[w][r].amount /\ PendingUse(w, r)' = 0
  BY <1>1, TurnedUses
<1>3. \A d : HoldUse(w, d, r)' = HoldUse(w, d, r) BY <1>1, TurnedUses DEF SameTerms
<1>4. /\ \A x \in Owners : x # w => held'[x] = held[x]
      /\ held'[w] = held[w] - PendingUse(w, r) + PendingUse(w, r)'
  BY <1>1, <1>2, ConstantTypes DEF TypeOK
<1>5. w \in Users => \A d \in Days :
         spentDay'[w][d] = spentDay[w][d] - HoldUse(w, d, r) + HoldUse(w, d, r)'
  BY <1>1, <1>3, UsesType
<1>6. /\ \A x \in Users, y \in Refs \ {r} : entry'[x][y] = entry[x][y]
      /\ \A u \in Users, d \in Days : TransferUse(u, d, r)' = TransferUse(u, d, r)
  BY <1>1, PostingUsesNone DEF Paid
<1>. QED BY <1>1, <1>4, <1>5, <1>6, TurnAccounted

LEMMA PaidBackAccounted ==
  ASSUME TypeOK, TypeOK', NotSelf, HoldsAreAccounted, NEW w \in Owners, NEW r \in HoldRefs,
         NEW f \in RefundRefOf[r], NEW new, PaidBack(w, r, f, new)
  PROVE  HoldsAreAccounted'
<1>1. /\ Turn(w, r, new) /\ SameTerms(hold[w][r], new)
      /\ Settled(hold[w][r]) /\ Settled(new)
      /\ UNCHANGED <<held, spentDay>>
      /\ f \in Refs /\ w \in Wallets
      /\ DestOf(hold[w][r]) \in Wallets /\ DestOf(hold[w][r]) # w
      /\ hold[w][r].amount \in Nat
  BY HoldData, ConstantTypes DEF PaidBack, NotSelf, DestOf
<1>2. PendingUse(w, r)' = PendingUse(w, r) BY <1>1, TurnedUses DEF Settled
<1>3. \A d : HoldUse(w, d, r)' = HoldUse(w, d, r)
  BY <1>1, TurnedUses DEF SameTerms, Settled
<1>4. held'[w] = held[w] - PendingUse(w, r) + PendingUse(w, r)' BY <1>1, <1>2, UsesType
<1>5. w \in Users => \A d \in Days :
         spentDay'[w][d] = spentDay[w][d] - HoldUse(w, d, r) + HoldUse(w, d, r)'
  BY <1>1, <1>3, UsesType
<1>6. /\ \A x \in Users, y \in Refs \ {f} : entry'[x][y] = entry[x][y]
      /\ \A u \in Users, d \in Days : TransferUse(u, d, f)' = TransferUse(u, d, f)
  BY <1>1, PostingUsesNone DEF PaidBack
<1>. QED BY <1>1, <1>4, <1>5, <1>6, TurnAccounted

\* Where callers keep hold references apart from the others, heldBalance is the
\* sum of the PENDING holds and a day's usage the sum of what used it, for any
\* number of holds, whatever capture, release, expiry, refund and midnight do.
THEOREM ReservationsAreAccounted == RefDiscipline => (Spec => []HoldsAreAccounted)
<1>. SUFFICES ASSUME RefDiscipline PROVE Spec => []HoldsAreAccounted OBVIOUS
<1>1. Init => NotSelf /\ HoldsAreAccounted
  <2>. SUFFICES ASSUME Init PROVE NotSelf /\ HoldsAreAccounted OBVIOUS
  <2>1. NotSelf BY ConstantTypes DEF Init, NotSelf, NoHold
  <2>2. HeldIsPending
    <3>1. \A w \in Owners : PendingHolds(w) = {} /\ held[w] = 0
      BY ConstantTypes DEF Init, PendingHolds, NoHold
    <3>. QED BY <3>1, SumEmpty DEF HeldIsPending
  <2>3. UsageIsAccounted
    <3>1. \A u \in Users, d \in Days : HoldsOfDay(u, d) = {} /\ spentDay[u][d] = 0
      BY ConstantTypes DEF Init, HoldsOfDay, NoHold
    <3>2. \A u \in Users, d \in Days : TransfersOfDay(u, d) = {}
      BY ConstantTypes DEF Init, TransfersOfDay, NoEntry
    <3>3. \A f : SumFunctionOnSet(f, {}) = 0 BY SumEmpty
    <3>4. ASSUME NEW u \in Users, NEW d \in Days
          PROVE  spentDay[u][d] = SumFunctionOnSet(HoldAmounts(u), HoldsOfDay(u, d))
                                  + SumFunctionOnSet(EntryAmounts(u), TransfersOfDay(u, d))
      <4>1. /\ SumFunctionOnSet(HoldAmounts(u), HoldsOfDay(u, d)) = 0
            /\ SumFunctionOnSet(EntryAmounts(u), TransfersOfDay(u, d)) = 0
        BY <3>1, <3>2, <3>3
      <4>. QED BY <3>1, <4>1
    <3>. QED BY <3>4 DEF UsageIsAccounted, DayUsage
  <2>. QED BY <2>1, <2>2, <2>3 DEF HoldsAreAccounted
<1>2. TypeOK /\ TypeOK' /\ NotSelf /\ CaptureSettles /\ HoldsAreAccounted /\ [Next]_vars
         => HoldsAreAccounted'
  <2>. SUFFICES ASSUME TypeOK, TypeOK', NotSelf, CaptureSettles, HoldsAreAccounted,
                       [Next]_vars
                PROVE  HoldsAreAccounted'
    OBVIOUS
  <2>1. CASE Quiet
    BY <2>1 DEF Quiet, HoldsAreAccounted, HeldIsPending, UsageIsAccounted, DayUsage, HoldAmounts,
                EntryAmounts, PendingHolds, HoldsOfDay, TransfersOfDay
  <2>2. CASE \E from \in Wallets, to \in Wallets, amount \in Nat, ref \in MoveRefs,
                type \in TransferType : Moved(from, to, amount, ref, type)
    BY <2>2, MovedAccounted
  <2>3. ASSUME NEW w \in Owners, NEW r \in HoldRefs, HoldEffect(w, r)
        PROVE  HoldsAreAccounted'
    BY <2>3, ReservedAccounted, FreedAccounted, PaidAccounted, RelabelledAccounted,
       PaidBackAccounted DEF HoldEffect
  <2>. QED BY <2>1, <2>2, <2>3, StepEffect
<1>. QED BY <1>1, <1>2, NotSelfStep, TypeCorrect, CaptureIsPayment, PTL DEF Spec

\* So a pending hold can be given back whenever it is to be, for any number of
\* holds, transfers and days: the service's last guards never strand the funds.
THEOREM PendingHoldsAreFreeable == RefDiscipline => (Spec => []PendingIsFreeable)
<1>. SUFFICES ASSUME RefDiscipline PROVE Spec => []PendingIsFreeable OBVIOUS
<1>1. ASSUME TypeOK, HoldsAreAccounted, NEW w \in Owners, NEW r \in HoldRefs,
             hold[w][r].status = "PENDING"
      PROVE  Freeable(w, hold[w][r])
  <2> DEFINE a == hold[w][r].amount
             d == hold[w][r].usageDay
  <2>1. /\ \A x \in HoldRefs : HoldAmounts(w)[x] \in Nat
        /\ HoldAmounts(w)[r] = a
    BY <1>1 DEF TypeOK, Holds, HoldAmounts
  <2>2. held[w] >= a
    <3>1. IsFiniteSet(PendingHolds(w)) BY RefsFinite, FS_Subset DEF PendingHolds
    <3>2. r \in PendingHolds(w) /\ PendingHolds(w) \subseteq HoldRefs
      BY <1>1 DEF PendingHolds
    <3>3. HoldAmounts(w)[r] <= SumFunctionOnSet(HoldAmounts(w), PendingHolds(w))
      BY <2>1, <3>1, <3>2, SumAtLeast
    <3>4. held[w] = SumFunctionOnSet(HoldAmounts(w), PendingHolds(w))
      BY <1>1 DEF HoldsAreAccounted, HeldIsPending
    <3>. QED BY <2>1, <3>3, <3>4
  <2>3. ASSUME w \in Users PROVE spentDay[w][d] >= a
    <3>1. d \in Days BY <1>1 DEF TypeOK, Holds
    <3>2. IsFiniteSet(HoldsOfDay(w, d)) /\ IsFiniteSet(TransfersOfDay(w, d))
      BY RefsFinite, FS_Subset DEF HoldsOfDay, TransfersOfDay
    <3>3. r \in HoldsOfDay(w, d) /\ HoldsOfDay(w, d) \subseteq HoldRefs
      BY <1>1 DEF HoldsOfDay
    <3>4. HoldAmounts(w)[r] <= SumFunctionOnSet(HoldAmounts(w), HoldsOfDay(w, d))
      BY <2>1, <3>2, <3>3, SumAtLeast
    <3>5. SumFunctionOnSet(HoldAmounts(w), HoldsOfDay(w, d)) \in Nat
      BY <2>1, <3>2, <3>3, SumNat
    <3>6. SumFunctionOnSet(EntryAmounts(w), TransfersOfDay(w, d)) \in Nat
      <4>1. w \in Wallets BY DEF Wallets
      <4>2. \A x \in TransfersOfDay(w, d) : EntryAmounts(w)[x] \in Nat
        BY <1>1, <4>1 DEF TypeOK, Entries, EntryAmounts, TransfersOfDay
      <4>. QED BY <3>2, <4>2, SumNat
    <3>7. spentDay[w][d] = SumFunctionOnSet(HoldAmounts(w), HoldsOfDay(w, d))
                           + SumFunctionOnSet(EntryAmounts(w), TransfersOfDay(w, d))
      BY <1>1, <2>3, <3>1 DEF HoldsAreAccounted, UsageIsAccounted, DayUsage
    <3>8. a \in Nat BY <2>1
    <3>. HIDE DEF a, d
    <3>. QED BY <2>1, <3>4, <3>5, <3>6, <3>7, <3>8
  <2>. QED BY <2>2, <2>3 DEF Freeable
<1>2. TypeOK /\ HoldsAreAccounted => PendingIsFreeable
  BY <1>1 DEF PendingIsFreeable
<1>. QED BY <1>2, TypeCorrect, ReservationsAreAccounted, PTL

\* What a step does to the usage: nothing, a reservation the limits allow, or
\* the return of one.
LEMMA StepUsage ==
  ASSUME TypeOK, [Next]_vars
  PROVE  \/ UNCHANGED spentDay
         \/ \E u \in Users, a \in Nat : CheckAndReserve(u, a)
         \/ \E u \in Users, d \in Days, a \in Nat :
               spentDay' = [spentDay EXCEPT ![u][d] = @ - a]
<1> DEFINE Goal == \/ UNCHANGED spentDay
                   \/ \E u \in Users, a \in Nat : CheckAndReserve(u, a)
                   \/ \E u \in Users, d \in Days, a \in Nat :
                         spentDay' = [spentDay EXCEPT ![u][d] = @ - a]
<1>1. ASSUME NEW w \in Owners, NEW a \in Nat, CheckAndReserve(w, a) PROVE Goal
  <2>1. CASE w \in Users BY <1>1, <2>1
  <2>2. CASE w \notin Users BY <1>1, <2>2 DEF CheckAndReserve
  <2>. QED BY <2>1, <2>2
<1>2. ASSUME NEW w \in Owners, NEW r \in HoldRefs, NEW final, FreeHold(w, r, final)
      PROVE  Goal
  <2>1. hold[w][r].amount \in Nat /\ hold[w][r].usageDay \in Days BY HoldData DEF Holds
  <2>2. RefundUsage(w, hold[w][r].amount, hold[w][r].usageDay) BY <1>2 DEF FreeHold
  <2>3. CASE w \in Users BY <2>1, <2>2, <2>3 DEF RefundUsage
  <2>4. CASE w \notin Users BY <2>2, <2>4 DEF RefundUsage
  <2>. QED BY <2>3, <2>4
<1>3. CASE LedgerStep
  <2>1. PICK w \in Owners, a \in Amounts, ref \in MoveRefs :
           \/ \E type \in {"TOPUP", "REFUND"} : Credit(w, a, ref, type)
           \/ Debit(w, a, ref)
           \/ \E u \in Users : Transfer(w, u, a, ref)
           \/ AdjustDebit(w, a, ref)
           \/ AdjustCredit(w, a, ref)
    BY <1>3, LedgerStepIs
  <2>2. a \in Nat BY ConstantTypes
  <2>3. ASSUME NEW u \in Users, Transfer(w, u, a, ref) PROVE Goal
    BY <1>1, <2>2, <2>3 DEF Transfer
  <2>4. CASE ~ \E u \in Users : Transfer(w, u, a, ref)
    BY <2>1, <2>4, Zenon DEF Credit, Debit, AdjustDebit, AdjustCredit
  <2>. QED BY <2>3, <2>4
<1>4. CASE HoldStep
  <2>1. PICK w \in Owners, r \in HoldRefs :
           \/ \E dest \in Owners \cup {NoWallet}, a \in Amounts, t \in Time :
                  CreateHold(w, dest, a, r, t)
           \/ \E t \in Time : ExtendHold(w, r, t)
           \/ CaptureHold(w, r)
           \/ CaptureExpiredHold(w, r)
           \/ ReleaseHold(w, r)
           \/ \E f \in RefundRefOf[r] : RefundCapture(w, r, f)
    BY <1>4 DEF HoldStep
  <2>2. ASSUME NEW dest, NEW a \in Amounts, NEW t, CreateHold(w, dest, a, r, t) PROVE Goal
    <3>1. a \in Nat BY ConstantTypes
    <3>. QED BY <1>1, <2>2, <3>1 DEF CreateHold
  <2>3. ASSUME CaptureExpiredHold(w, r) \/ ReleaseHold(w, r) PROVE Goal
    BY <1>2, <2>3 DEF CaptureExpiredHold, ReleaseHold
  <2>4. ASSUME \/ \E t \in Time : ExtendHold(w, r, t)
               \/ CaptureHold(w, r)
               \/ \E f \in RefundRefOf[r] : RefundCapture(w, r, f)
        PROVE  Goal
    BY <2>4, Zenon DEF ExtendHold, CaptureHold, RefundCapture
  <2>. QED BY <2>1, <2>2, <2>3, <2>4
<1>5. CASE SweepStep
  <2>1. PICK s \in Sweepers :
           \/ SweepScan(s)
           \/ \E w \in Owners, r \in HoldRefs : SweepHold(s, w, r) \/ SweepSkip(s, w, r)
           \/ SweepCrash(s)
    BY <1>5 DEF SweepStep
  <2>2. ASSUME NEW w \in Owners, NEW r \in HoldRefs, SweepHold(s, w, r) PROVE Goal
    BY <1>2, <2>2 DEF SweepHold
  <2>3. ASSUME NEW w \in Owners, NEW r \in HoldRefs, SweepSkip(s, w, r) PROVE Goal
    BY <2>3, Zenon DEF SweepSkip
  <2>4. SweepScan(s) \/ SweepCrash(s) => Goal BY Zenon DEF SweepScan, SweepCrash
  <2>. QED BY <2>1, <2>2, <2>3, <2>4
<1>6. AdminStep \/ Tick => Goal
  BY Zenon DEF AdminStep, CreateWallet, SetLock, KycUpdated, Tick
<1>7. UNCHANGED vars => Goal BY DEF vars
<1>. QED BY <1>3, <1>4, <1>5, <1>6, <1>7 DEF Next

DaysIn(month) == {d \in Days : MonthOf[d] = month}

LEMMA DaysFinite == ASSUME NEW m PROVE IsFiniteSet(DaysIn(m))
<1>1. IsFiniteSet(Time)
  BY FS_Interval, TimeAssumption DEF Time, TimeAssumption
<1>2. IsFiniteSet(Days)
  <2> DEFINE f == [t \in Time |-> DayOf[t]]
  <2>1. f \in Surjection(Time, Days) BY DEF Surjection, Days
  <2>. HIDE DEF f
  <2>. QED BY <1>1, <2>1, FS_Surjection
<1>. QED BY <1>2, FS_Subset DEF DaysIn

\* A month's usage changes by what one of its days does.
LEMMA MonthFollows ==
  ASSUME TypeOK, TypeOK', NEW u \in Users, NEW day \in Days, NEW delta \in Int,
         spentDay'[u][day] = spentDay[u][day] + delta,
         \A d \in Days \ {day} : spentDay'[u][d] = spentDay[u][d], NEW m
  PROVE  /\ SpentMonth(u, m) \in Int
         /\ SpentMonth(u, m)' = SpentMonth(u, m) + (IF MonthOf[day] = m THEN delta ELSE 0)
<1> DEFINE f == spentDay[u]
           g == spentDay'[u]
           S == DaysIn(m)
<1>1. SpentMonth(u, m) = SumFunctionOnSet(f, S) /\ SpentMonth(u, m)' = SumFunctionOnSet(g, S)
  BY DEF SpentMonth, DaysIn
<1>2. \A d \in Days : f[d] \in Int /\ g[d] \in Int BY DEF TypeOK
<1>3. S \subseteq Days /\ IsFiniteSet(S) BY DaysFinite DEF DaysIn
<1>4. \A d \in S \ {day} : f[d] = g[d] BY <1>3
<1>5. day \in S <=> MonthOf[day] = m BY DEF DaysIn
<1>6. g[day] = f[day] + delta OBVIOUS
<1>. HIDE DEF f, g, S
<1>7. /\ SumFunctionOnSet(f, S) \in Int
      /\ SumFunctionOnSet(g, S) = SumFunctionOnSet(f, S) - Share(f, S, day) + Share(g, S, day)
  BY <1>2, <1>3, <1>4, SumMove
<1>8. Share(g, S, day) - Share(f, S, day) = (IF MonthOf[day] = m THEN delta ELSE 0)
      /\ Share(f, S, day) \in Int /\ Share(g, S, day) \in Int
  BY <1>2, <1>5, <1>6 DEF Share
<1>. QED BY <1>1, <1>7, <1>8

\* The counters stay within the limits: the invariant behind LimitsAreKept.
CountersAreKept ==
    \A u \in Users, day \in Days :
        /\ \E tier \in Tiers : spentDay[u][day] <= PerDay[tier]
        /\ \E tier \in Tiers : SpentMonth(u, MonthOf[day]) <= PerMonth[tier]

\* One day of one user changes, downwards or as far as the limits allow.
LEMMA OneDayKeeps ==
  ASSUME TypeOK, TypeOK', CountersAreKept,
         NEW u \in Users, NEW day \in Days, NEW delta \in Int,
         spentDay' = [spentDay EXCEPT ![u][day] = spentDay[u][day] + delta],
         \/ delta <= 0
         \/ /\ \E tier \in Tiers : spentDay[u][day] + delta <= PerDay[tier]
            /\ \E tier \in Tiers : SpentMonth(u, MonthOf[day]) + delta <= PerMonth[tier]
  PROVE  CountersAreKept'
<1>1. /\ spentDay'[u][day] = spentDay[u][day] + delta
      /\ \A d \in Days \ {day} : spentDay'[u][d] = spentDay[u][d]
      /\ \A x \in Users \ {u} : spentDay'[x] = spentDay[x]
  BY DEF TypeOK
<1>2. spentDay[u][day] \in Int BY DEF TypeOK
<1>3. \A t \in Tiers : PerDay[t] \in Int /\ PerMonth[t] \in Int
  BY LimitAssumption DEF LimitAssumption
<1>. SUFFICES ASSUME NEW x \in Users, NEW d \in Days
              PROVE  /\ \E tier \in Tiers : spentDay'[x][d] <= PerDay[tier]
                     /\ \E tier \in Tiers : SpentMonth(x, MonthOf[d])' <= PerMonth[tier]
  BY DEF CountersAreKept
<1>4. CASE x # u
  <2>1. spentDay'[x] = spentDay[x] BY <1>1, <1>4
  <2>2. SpentMonth(x, MonthOf[d])' = SpentMonth(x, MonthOf[d]) BY <2>1 DEF SpentMonth
  <2>. QED BY <2>1, <2>2 DEF CountersAreKept
<1>5. CASE x = u
  <2>1. /\ SpentMonth(u, MonthOf[d]) \in Int
        /\ SpentMonth(u, MonthOf[d])'
              = SpentMonth(u, MonthOf[d]) + (IF MonthOf[day] = MonthOf[d] THEN delta ELSE 0)
    BY <1>1, MonthFollows
  <2>2. \E tier \in Tiers : spentDay'[u][d] <= PerDay[tier]
    <3>1. CASE d # day BY <1>1, <3>1 DEF CountersAreKept
    <3>2. CASE d = day
      <4>1. PICK t \in Tiers : spentDay[u][day] <= PerDay[t] BY DEF CountersAreKept
      <4>. QED BY <1>1, <1>2, <1>3, <3>2, <4>1
    <3>. QED BY <3>1, <3>2
  <2>3. \E tier \in Tiers : SpentMonth(u, MonthOf[d])' <= PerMonth[tier]
    <3>1. PICK t \in Tiers : SpentMonth(u, MonthOf[d]) <= PerMonth[t] BY DEF CountersAreKept
    <3>2. CASE MonthOf[day] # MonthOf[d] BY <2>1, <3>1, <3>2
    <3>3. CASE MonthOf[day] = MonthOf[d] BY <1>3, <2>1, <3>1, <3>3
    <3>. QED BY <3>2, <3>3
  <2>. QED BY <1>5, <2>2, <2>3
<1>. QED BY <1>4, <1>5

LEMMA CountersKept ==
  ASSUME TypeOK, TypeOK', CountersAreKept, [Next]_vars
  PROVE  CountersAreKept'
<1>1. CASE UNCHANGED spentDay BY <1>1 DEF CountersAreKept, SpentMonth
<1>2. ASSUME NEW u \in Users, NEW a \in Nat, CheckAndReserve(u, a) PROVE CountersAreKept'
  <2> DEFINE today == DayOf[now]
  <2>1. today \in Days /\ kycTier[u] \in Tiers BY DEF TypeOK, Days
  <2>2. /\ spentDay[u][today] + a <= PerDay[kycTier[u]]
        /\ SpentMonth(u, MonthOf[today]) + a <= PerMonth[kycTier[u]]
        /\ spentDay' = [spentDay EXCEPT ![u][today] = spentDay[u][today] + a]
    BY <1>2 DEF CheckAndReserve
  <2>3. /\ \E tier \in Tiers : spentDay[u][today] + a <= PerDay[tier]
        /\ \E tier \in Tiers : SpentMonth(u, MonthOf[today]) + a <= PerMonth[tier]
    BY <2>1, <2>2
  <2>4. a \in Int OBVIOUS
  <2>. HIDE DEF today
  <2>. QED BY <2>1, <2>2, <2>3, <2>4, OneDayKeeps
<1>3. ASSUME NEW u \in Users, NEW d \in Days, NEW a \in Nat,
             spentDay' = [spentDay EXCEPT ![u][d] = @ - a]
      PROVE  CountersAreKept'
  <2>1. 0 - a \in Int /\ 0 - a <= 0 OBVIOUS
  <2>2. spentDay[u][d] - a = spentDay[u][d] + (0 - a) BY DEF TypeOK
  <2>3. spentDay' = [spentDay EXCEPT ![u][d] = spentDay[u][d] + (0 - a)] BY <1>3, <2>2
  <2>. QED BY <2>1, <2>3, OneDayKeeps
<1>. QED BY <1>1, <1>2, <1>3, StepUsage

\* No user's holds and transfers of a day or a month come to more than a tier
\* allows, for any number of them, any calendar, and whatever is given back late.
THEOREM LimitsHold == RefDiscipline => (Spec => []LimitsAreKept)
<1>. SUFFICES ASSUME RefDiscipline PROVE Spec => []LimitsAreKept OBVIOUS
<1>1. Init => CountersAreKept
  <2>. SUFFICES ASSUME Init, NEW u \in Users, NEW day \in Days
                PROVE  /\ \E tier \in Tiers : spentDay[u][day] <= PerDay[tier]
                       /\ \E tier \in Tiers : SpentMonth(u, MonthOf[day]) <= PerMonth[tier]
    BY DEF CountersAreKept
  <2>1. \A d \in Days : spentDay[u][d] = 0 BY DEF Init
  <2>2. SpentMonth(u, MonthOf[day]) = 0
    <3>1. IsFiniteSet(DaysIn(MonthOf[day])) BY DaysFinite
    <3>2. \A d \in DaysIn(MonthOf[day]) : spentDay[u][d] = 0 BY <2>1 DEF DaysIn
    <3>. QED BY <3>1, <3>2, SumZero DEF SpentMonth, DaysIn
  <2>3. 0 \in Tiers /\ 0 <= PerDay[0] /\ 0 <= PerMonth[0]
    BY LimitAssumption DEF LimitAssumption
  <2>. QED BY <2>1, <2>2, <2>3
<1>2. TypeOK /\ TypeOK' /\ CountersAreKept /\ [Next]_vars => CountersAreKept'
  BY CountersKept
<1>3. UsageIsAccounted /\ CountersAreKept => LimitsAreKept
  <2>. SUFFICES ASSUME UsageIsAccounted, CountersAreKept, NEW u \in Users, NEW day \in Days
                PROVE  /\ \E tier \in Tiers : DayUsage(u, day) <= PerDay[tier]
                       /\ \E tier \in Tiers :
                             SumFunctionOnSet([d \in Days |-> DayUsage(u, d)],
                                              DaysIn(MonthOf[day])) <= PerMonth[tier]
    BY DEF LimitsAreKept, DaysIn
  <2> DEFINE used == [d \in Days |-> DayUsage(u, d)]
             S == DaysIn(MonthOf[day])
  <2>1. \A d \in S : used[d] = spentDay[u][d] BY DEF UsageIsAccounted, DaysIn
  <2>2. IsFiniteSet(S) BY DaysFinite
  <2>3. SpentMonth(u, MonthOf[day]) = SumFunctionOnSet(spentDay[u], S)
    BY DEF SpentMonth, DaysIn
  <2>4. SumFunctionOnSet(used, S) = SumFunctionOnSet(spentDay[u], S)
    <3>. HIDE DEF used, S
    <3>. QED BY <2>1, <2>2, SumSame
  <2>5. spentDay[u][day] = DayUsage(u, day) BY DEF UsageIsAccounted
  <2>. HIDE DEF used, S
  <2>6. \E tier \in Tiers : DayUsage(u, day) <= PerDay[tier]
    BY <2>5 DEF CountersAreKept
  <2>7. \E tier \in Tiers : SumFunctionOnSet(used, S) <= PerMonth[tier]
    BY <2>3, <2>4 DEF CountersAreKept
  <2>. QED BY <2>6, <2>7 DEF used, S
<1>4. HoldsAreAccounted => UsageIsAccounted BY DEF HoldsAreAccounted
<1>. QED BY <1>1, <1>2, <1>3, <1>4, TypeCorrect, ReservationsAreAccounted, PTL DEF Spec

-----------------------------------------------------------------------------
(* Each hold keeps HoldContract                                            *)

\* Hold r of w has been paid back: the refund has credited w.
Returned(w, r) == \E f \in RefundRefOf[r] : entry[w][f].dir = "CREDIT"

\* A credit under a hold's refund reference is that hold's refund: of a settled
\* hold, in full, from the wallet it paid.
RefundsFit ==
    \A w \in Owners, r \in HoldRefs : \A f \in RefundRefOf[r] :
        entry[w][f].dir = "CREDIT" =>
            /\ Settled(hold[w][r])
            /\ entry[w][f].type = "REFUND"
            /\ entry[w][f].amount = hold[w][r].amount
            /\ entry[w][f].peer = DestOf(hold[w][r])

\* How the contract's variables read off the hold and Returned.
Seen(w, r) ==
    LET s == hold[w][r].status IN
    /\ s = "NONE" => Phase(w, r) = "none"
    /\ s = "PENDING" => Phase(w, r) = "reserved"
    /\ s \in {"RELEASED", "EXPIRED"} => Phase(w, r) = "freed"
    /\ Settled(hold[w][r]) => Phase(w, r) = IF Returned(w, r) THEN "returned" ELSE "settled"
    /\ NetOut(w, r) = IF Settled(hold[w][r]) /\ ~Returned(w, r)
                      THEN hold[w][r].amount ELSE 0

View == \A w \in Owners, r \in HoldRefs : Seen(w, r)

LEMMA SumOne ==
  ASSUME NEW f, NEW x, f[x] \in Int
  PROVE  SumFunctionOnSet(f, {x}) = f[x]
<1>1. IsFiniteSet({x}) BY FS_Singleton
<1>2. SumFunctionOnSet(f, {x}) = f[x] + SumFunctionOnSet(f, {x} \ {x})
  BY <1>1, SumRemove
<1>3. {x} \ {x} = {} OBVIOUS
<1>4. SumFunctionOnSet(f, {x} \ {x}) = 0 BY <1>3, SumEmpty
<1>. QED BY <1>2, <1>4

\* What has come back, summed over the one reference it can come back under.
LEMMA CameBack ==
  ASSUME OwnRefundRef, TypeOK, RefundsFit, NEW w \in Owners, NEW r \in HoldRefs
  PROVE  SumFunctionOnSet(CreditedAmounts(w), RefundRefOf[r]) =
            IF Returned(w, r) THEN hold[w][r].amount ELSE 0
<1> DEFINE c == CreditedAmounts(w)
<1>1. CASE RefundRefOf[r] = {}
  <2>1. ~Returned(w, r) BY <1>1 DEF Returned
  <2>2. SumFunctionOnSet(c, {}) = 0 BY SumEmpty
  <2>. QED BY <1>1, <2>1, <2>2
<1>2. CASE RefundRefOf[r] # {}
  <2>1. PICK f : RefundRefOf[r] = {f} BY <1>2 DEF OwnRefundRef
  <2>2. f \in Refs /\ w \in Wallets BY <2>1, ConstantTypes
  <2>3. entry[w][f].amount \in Int BY <2>2 DEF TypeOK, Entries
  <2>4. c[f] = IF entry[w][f].dir = "CREDIT" THEN entry[w][f].amount ELSE 0
    BY <2>2 DEF CreditedAmounts
  <2>5. Returned(w, r) <=> entry[w][f].dir = "CREDIT" BY <2>1 DEF Returned
  <2>6. entry[w][f].dir = "CREDIT" => entry[w][f].amount = hold[w][r].amount
    BY <2>1 DEF RefundsFit
  <2>. HIDE DEF c
  <2>7. c[f] \in Int BY <2>3, <2>4
  <2>8. SumFunctionOnSet(c, {f}) = c[f] BY <2>7, SumOne
  <2>. QED BY <2>1, <2>4, <2>5, <2>6, <2>8 DEF c
<1>. QED BY <1>1, <1>2

LEMMA ViewHolds ==
  ASSUME OwnRefundRef, TypeOK, DoubleEntry, CaptureSettles, RefundsFit
  PROVE  View
<1>. SUFFICES ASSUME NEW w \in Owners, NEW r \in HoldRefs PROVE Seen(w, r)
  BY DEF View
<1>1. /\ hold[w][r].amount \in Nat /\ DestOf(hold[w][r]) \in Wallets
      /\ w \in Wallets /\ RefundRefOf[r] \subseteq Refs
      /\ hold[w][r].status \in HoldStatus
  BY HoldData, ConstantTypes DEF Holds
<1>2. (\E f \in RefundRefOf[r] : RefundEntry(w, r, f)) => Returned(w, r)
  <2>. SUFFICES ASSUME NEW f \in RefundRefOf[r], RefundEntry(w, r, f)
                PROVE  entry[w][f].dir = "CREDIT"
    BY DEF Returned
  <2> DEFINE to == DestOf(hold[w][r])
  <2>1. entry[to][f].dir = "DEBIT" /\ entry[to][f].peer = w BY DEF RefundEntry
  <2>2. Mirrored(to, f) BY <1>1, <2>1 DEF DoubleEntry
  <2>. QED BY <2>1, <2>2 DEF Mirrored
<1>3. Returned(w, r) => \E f \in RefundRefOf[r] : RefundEntry(w, r, f)
  <2>. SUFFICES ASSUME NEW f \in RefundRefOf[r], entry[w][f].dir = "CREDIT"
                PROVE  RefundEntry(w, r, f)
    BY DEF Returned
  <2>1. entry[w][f].type = "REFUND" /\ entry[w][f].peer = DestOf(hold[w][r])
    BY DEF RefundsFit
  <2>2. Mirrored(w, f) BY <1>1 DEF DoubleEntry
  <2>. QED BY <2>1, <2>2 DEF Mirrored, RefundEntry
<1>4. Returned(w, r) => Settled(hold[w][r]) BY DEF Returned, RefundsFit
<1>5. NetOut(w, r) = IF Settled(hold[w][r]) /\ ~Returned(w, r)
                     THEN hold[w][r].amount ELSE 0
  <2>1. SumFunctionOnSet(CreditedAmounts(w), RefundRefOf[r]) =
            IF Returned(w, r) THEN hold[w][r].amount ELSE 0
    BY CameBack
  <2>2. /\ entry[w][r].dir = "DEBIT" <=> Settled(hold[w][r])
        /\ Settled(hold[w][r]) => entry[w][r].amount = hold[w][r].amount
    BY DEF CaptureSettles, PaidOut, Settled
  <2>. QED BY <1>1, <1>4, <2>1, <2>2 DEF NetOut
<1>6. /\ hold[w][r].status = "NONE" => Phase(w, r) = "none"
      /\ hold[w][r].status = "PENDING" => Phase(w, r) = "reserved"
      /\ hold[w][r].status \in {"RELEASED", "EXPIRED"} => Phase(w, r) = "freed"
      /\ Settled(hold[w][r]) => Phase(w, r) = IF Returned(w, r) THEN "returned" ELSE "settled"
  BY <1>2, <1>3 DEF Phase, Settled
<1>. QED BY <1>5, <1>6 DEF Seen

\* A step that leaves the entries under refund references alone, and the terms
\* of settled holds, keeps RefundsFit.
LEMMA RefundsKept ==
  ASSUME TypeOK, RefundsFit,
         \A x \in Owners, y \in RefundRefs : entry'[x][y] = entry[x][y],
         \A x \in Owners, y \in HoldRefs :
            Settled(hold[x][y]) => /\ Settled(hold'[x][y])
                                   /\ SameTerms(hold[x][y], hold'[x][y])
  PROVE  RefundsFit'
BY ConstantTypes DEF RefundsFit, SameTerms, DestOf

\* What a refund does to the entries under refund references: one credit, of
\* the hold's owner, and one debit.
LEMMA PaidBackEntries ==
  ASSUME RefDiscipline, OwnRefundRef, TypeOK, NotSelf, NEW w \in Owners, NEW r \in HoldRefs,
         NEW f \in RefundRefOf[r], NEW new, PaidBack(w, r, f, new)
  PROVE  /\ entry[w][f].dir = "NONE"
         /\ entry'[w][f].dir = "CREDIT" /\ entry'[w][f].type = "REFUND"
         /\ entry'[w][f].amount = hold[w][r].amount
         /\ entry'[w][f].peer = DestOf(hold[w][r])
         /\ \A x \in Owners, y \in HoldRefs : \A g \in RefundRefOf[y] :
               ~(x = w /\ y = r) => \/ entry'[x][g] = entry[x][g]
                                    \/ entry[x][g].dir # "CREDIT" /\ entry'[x][g].dir # "CREDIT"
<1> DEFINE to == DestOf(hold[w][r])
<1>1. /\ w \in Wallets /\ to \in Wallets /\ to # w /\ f \in Refs
      /\ hold[w][r].amount \in Nat /\ "REFUND" \in TransferType
      /\ Unused(to, w, f) /\ Post(to, w, hold[w][r].amount, f, "REFUND")
  BY HoldData, ConstantTypes DEF PaidBack, NotSelf, DestOf, TransferType
<1>. HIDE DEF to
<1>2. /\ entry'[to][f] = [dir |-> "DEBIT", type |-> "REFUND", amount |-> hold[w][r].amount,
                          peer |-> w, day |-> DayOf[now]]
      /\ entry'[w][f] = [dir |-> "CREDIT", type |-> "REFUND", amount |-> hold[w][r].amount,
                         peer |-> to, day |-> DayOf[now]]
  BY <1>1, Posted
<1>3. entry[to][f].dir = "NONE" /\ entry[w][f].dir = "NONE" BY <1>1 DEF Unused, NoEntry
<1>4. ASSUME NEW x \in Owners, NEW y \in HoldRefs, NEW g \in RefundRefOf[y], ~(x = w /\ y = r)
      PROVE  \/ entry'[x][g] = entry[x][g]
             \/ entry[x][g].dir # "CREDIT" /\ entry'[x][g].dir # "CREDIT"
  <2>1. g \in Refs /\ x \in Wallets BY ConstantTypes
  <2>2. CASE g = f
    <3>1. y = r BY <2>2 DEF OwnRefundRef
    <3>2. CASE x = to BY <1>2, <1>3, <2>2, <3>2
    <3>3. CASE x # to
      <4>1. x \notin {to, w} BY <1>4, <3>1, <3>3
      <4>. QED BY <1>1, <2>1, <2>2, <4>1, NotPosted
    <3>. QED BY <3>2, <3>3
  <2>3. CASE g # f BY <1>1, <2>1, <2>3, NotPosted
  <2>. QED BY <2>2, <2>3
<1>. QED BY <1>2, <1>3, <1>4 DEF to

\* Every other effect leaves the entries under refund references alone.
LEMMA RefundEntriesKept ==
  ASSUME RefDiscipline, TypeOK, NotSelf,
         \/ Quiet
         \/ \E from \in Wallets, to \in Wallets, amount \in Nat, ref \in MoveRefs,
               type \in TransferType : Moved(from, to, amount, ref, type)
         \/ \E w \in Owners, r \in HoldRefs :
               \/ \E new : Reserved(w, r, new) \/ Paid(w, r, new) \/ Relabelled(w, r, new)
               \/ \E final : FreeHold(w, r, final)
  PROVE  \A x \in Owners, y \in RefundRefs : entry'[x][y] = entry[x][y]
<1>1. CASE UNCHANGED entry BY <1>1
<1>2. ASSUME NEW from \in Wallets, NEW to \in Wallets, NEW amount, NEW type,
             NEW ref \in HoldRefs \cup MoveRefs, Post(from, to, amount, ref, type)
      PROVE  \A x \in Owners, y \in RefundRefs : entry'[x][y] = entry[x][y]
  <2>. SUFFICES ASSUME NEW x \in Owners, NEW y \in RefundRefs
                PROVE  entry'[x][y] = entry[x][y]
    OBVIOUS
  <2>1. y # ref /\ y \in Refs /\ ref \in Refs /\ x \in Wallets
    BY ConstantTypes DEF RefDiscipline
  <2>. QED BY <1>2, <2>1, NotPosted
<1>3. Quiet => UNCHANGED entry BY DEF Quiet
<1>4. \A w, r, new : Reserved(w, r, new) \/ Relabelled(w, r, new) => UNCHANGED entry
  BY DEF Reserved, Relabelled
<1>5. \A w, r, final : FreeHold(w, r, final) => UNCHANGED entry
  BY Zenon DEF FreeHold, money
<1>6. ASSUME NEW w \in Owners, NEW r \in HoldRefs, NEW new, Paid(w, r, new)
      PROVE  \A x \in Owners, y \in RefundRefs : entry'[x][y] = entry[x][y]
  <2>1. w \in Wallets /\ DestOf(hold[w][r]) \in Wallets BY HoldData, ConstantTypes
  <2>. QED BY <1>2, <1>6, <2>1 DEF Paid
<1>7. ASSUME NEW from \in Wallets, NEW to \in Wallets, NEW amount \in Nat,
             NEW ref \in MoveRefs, NEW type \in TransferType, Moved(from, to, amount, ref, type)
      PROVE  \A x \in Owners, y \in RefundRefs : entry'[x][y] = entry[x][y]
  BY <1>2, <1>7 DEF Moved
<1>. QED BY <1>1, <1>3, <1>4, <1>5, <1>6, <1>7

\* A step credits a refund reference for its hold only.
LEMMA RefundsFitStep ==
  ASSUME RefDiscipline, OwnRefundRef, TypeOK, NotSelf, CaptureSettles, RefundsFit,
         [Next]_vars
  PROVE  RefundsFit'
<1>1. ASSUME UNCHANGED hold,
             \A x \in Owners, y \in RefundRefs : entry'[x][y] = entry[x][y]
      PROVE  RefundsFit'
  BY <1>1, RefundsKept DEF SameTerms
<1>2. CASE Quiet BY <1>1, <1>2, RefundEntriesKept DEF Quiet
<1>3. ASSUME NEW from \in Wallets, NEW to \in Wallets, NEW amount \in Nat,
             NEW ref \in MoveRefs, NEW type \in TransferType, Moved(from, to, amount, ref, type)
      PROVE  RefundsFit'
  <2>1. UNCHANGED hold BY <1>3 DEF Moved
  <2>2. \A x \in Owners, y \in RefundRefs : entry'[x][y] = entry[x][y]
    BY <1>3, RefundEntriesKept
  <2>. QED BY <1>1, <2>1, <2>2
<1>4. ASSUME NEW w \in Owners, NEW r \in HoldRefs, HoldEffect(w, r) PROVE RefundsFit'
  <2>1. ASSUME NEW new, Turn(w, r, new),
               Settled(hold[w][r]) => Settled(new) /\ SameTerms(hold[w][r], new)
        PROVE  \A x \in Owners, y \in HoldRefs :
                  Settled(hold[x][y]) => /\ Settled(hold'[x][y])
                                         /\ SameTerms(hold[x][y], hold'[x][y])
    <3>. SUFFICES ASSUME NEW x \in Owners, NEW y \in HoldRefs, Settled(hold[x][y])
                  PROVE  Settled(hold'[x][y]) /\ SameTerms(hold[x][y], hold'[x][y])
      OBVIOUS
    <3>1. CASE x = w /\ y = r
      <4>1. hold'[x][y] = new BY <2>1, <3>1, Turned
      <4>. QED BY <2>1, <3>1, <4>1
    <3>2. CASE ~(x = w /\ y = r)
      <4>1. hold'[x][y] = hold[x][y] BY <2>1, <3>2, NotTurned
      <4>. QED BY <4>1 DEF SameTerms
    <3>. QED BY <3>1, <3>2
  <2>2. ASSUME NEW new, Reserved(w, r, new) \/ Paid(w, r, new) \/ Relabelled(w, r, new)
        PROVE  RefundsFit'
    <3>1. /\ Turn(w, r, new)
          /\ Settled(hold[w][r]) => Settled(new) /\ SameTerms(hold[w][r], new)
      BY <2>2 DEF Reserved, Paid, Relabelled, Settled, NoHold
    <3>2. \A x \in Owners, y \in RefundRefs : entry'[x][y] = entry[x][y]
      BY <2>2, RefundEntriesKept
    <3>. QED BY <2>1, <3>1, <3>2, RefundsKept
  <2>3. ASSUME NEW final, FreeHold(w, r, final) PROVE RefundsFit'
    <3>1. /\ Turn(w, r, [hold[w][r] EXCEPT !.status = final])
          /\ ~Settled(hold[w][r])
      BY <2>3 DEF FreeHold, Settled, Turn
    <3>2. \A x \in Owners, y \in RefundRefs : entry'[x][y] = entry[x][y]
      BY <2>3, RefundEntriesKept
    <3>. QED BY <2>1, <3>1, <3>2, RefundsKept
  <2>4. ASSUME NEW f \in RefundRefOf[r], NEW new, PaidBack(w, r, f, new) PROVE RefundsFit'
    <3>1. Turn(w, r, new) /\ Settled(hold[w][r]) /\ Settled(new) /\ SameTerms(hold[w][r], new)
      BY <2>4 DEF PaidBack
    <3>. SUFFICES ASSUME NEW x \in Owners, NEW y \in HoldRefs, NEW g \in RefundRefOf[y],
                         entry'[x][g].dir = "CREDIT"
                  PROVE  /\ Settled(hold'[x][y])
                         /\ entry'[x][g].type = "REFUND"
                         /\ entry'[x][g].amount = hold'[x][y].amount
                         /\ entry'[x][g].peer = DestOf(hold'[x][y])
      BY DEF RefundsFit
    <3>2. CASE x = w /\ y = r
      <4>1. g = f BY <3>2 DEF OwnRefundRef
      <4>2. hold'[x][y] = new BY <3>1, <3>2, Turned
      <4>. QED BY <2>4, <3>1, <3>2, <4>1, <4>2, PaidBackEntries DEF SameTerms, DestOf
    <3>3. CASE ~(x = w /\ y = r)
      <4>1. entry'[x][g] = entry[x][g] BY <2>4, <3>3, PaidBackEntries
      <4>2. hold'[x][y] = hold[x][y] BY <3>1, <3>3, NotTurned
      <4>. QED BY <4>1, <4>2 DEF RefundsFit
    <3>. QED BY <3>2, <3>3
  <2>. QED BY <1>4, <2>2, <2>3, <2>4 DEF HoldEffect
<1>. QED BY <1>2, <1>3, <1>4, StepEffect

\* The contract's variables, and what they are at a hold.
PhaseOf == [k \in HoldKeys |-> Phase(k[1], k[2])]
AmountOf == [k \in HoldKeys |-> hold[k[1]][k[2]].amount]
OutOf == [k \in HoldKeys |-> NetOut(k[1], k[2])]

LEMMA KeyValues ==
  ASSUME NEW w \in Owners, NEW r \in HoldRefs
  PROVE  /\ <<w, r>> \in HoldKeys
         /\ PhaseOf[<<w, r>>] = Phase(w, r) /\ (PhaseOf')[<<w, r>>] = Phase(w, r)'
         /\ AmountOf[<<w, r>>] = hold[w][r].amount
         /\ (AmountOf')[<<w, r>>] = hold'[w][r].amount
         /\ OutOf[<<w, r>>] = NetOut(w, r) /\ (OutOf')[<<w, r>>] = NetOut(w, r)'
<1>1. <<w, r>> \in HoldKeys BY DEF HoldKeys
<1>2. <<w, r>>[1] = w /\ <<w, r>>[2] = r OBVIOUS
<1>3. PhaseOf[<<w, r>>] = Phase(w, r) /\ (PhaseOf')[<<w, r>>] = Phase(w, r)'
  BY <1>1, <1>2 DEF PhaseOf
<1>4. /\ AmountOf[<<w, r>>] = hold[w][r].amount
      /\ (AmountOf')[<<w, r>>] = hold'[w][r].amount
  BY <1>1, <1>2 DEF AmountOf
<1>5. OutOf[<<w, r>>] = NetOut(w, r) /\ (OutOf')[<<w, r>>] = NetOut(w, r)'
  BY <1>1, <1>2 DEF OutOf
<1>. QED BY <1>1, <1>3, <1>4, <1>5

LEMMA OneChange ==
  ASSUME NEW K, NEW f, NEW g, f = [k \in K |-> f[k]], g = [k \in K |-> g[k]],
         NEW key \in K, \A k \in K : k # key => g[k] = f[k]
  PROVE  g = [f EXCEPT ![key] = g[key]]
OBVIOUS

\* The contract sees nothing move at hold (x, y).
Still(x, y) ==
    /\ Phase(x, y)' = Phase(x, y)
    /\ hold'[x][y].amount = hold[x][y].amount
    /\ NetOut(x, y)' = NetOut(x, y)

\* One step, as the contract sees it: hold (w, r) has moved and no other has.
LEMMA OneKey ==
  ASSUME NEW w \in Owners, NEW r \in HoldRefs,
         \A x \in Owners, y \in HoldRefs : ~(x = w /\ y = r) => Still(x, y)
  PROVE  /\ PhaseOf' = [PhaseOf EXCEPT ![<<w, r>>] = Phase(w, r)']
         /\ AmountOf' = [AmountOf EXCEPT ![<<w, r>>] = hold'[w][r].amount]
         /\ OutOf' = [OutOf EXCEPT ![<<w, r>>] = NetOut(w, r)']
<1>1. ASSUME NEW k \in HoldKeys, k # <<w, r>>
      PROVE  (PhaseOf')[k] = PhaseOf[k] /\ (AmountOf')[k] = AmountOf[k] /\ (OutOf')[k] = OutOf[k]
  <2>1. PICK x \in Owners, y \in HoldRefs : k = <<x, y>> BY DEF HoldKeys
  <2>2. Still(x, y) BY <1>1, <2>1
  <2>. QED BY <2>1, <2>2, KeyValues DEF Still
<1>2. /\ PhaseOf = [k \in HoldKeys |-> PhaseOf[k]]
      /\ PhaseOf' = [k \in HoldKeys |-> (PhaseOf')[k]]
  BY DEF PhaseOf
<1>3. /\ AmountOf = [k \in HoldKeys |-> AmountOf[k]]
      /\ AmountOf' = [k \in HoldKeys |-> (AmountOf')[k]]
  BY DEF AmountOf
<1>4. /\ OutOf = [k \in HoldKeys |-> OutOf[k]]
      /\ OutOf' = [k \in HoldKeys |-> (OutOf')[k]]
  BY DEF OutOf
<1>5. PhaseOf' = [PhaseOf EXCEPT ![<<w, r>>] = (PhaseOf')[<<w, r>>]]
  BY <1>1, <1>2, KeyValues, OneChange
<1>6. AmountOf' = [AmountOf EXCEPT ![<<w, r>>] = (AmountOf')[<<w, r>>]]
  BY <1>1, <1>3, KeyValues, OneChange
<1>7. OutOf' = [OutOf EXCEPT ![<<w, r>>] = (OutOf')[<<w, r>>]]
  BY <1>1, <1>4, KeyValues, OneChange
<1>. QED BY <1>5, <1>6, <1>7, KeyValues

\* A hold that keeps its amount and its kind of status, and is paid back after
\* the step if and only if before, stays where it was.
LEMMA StillHold ==
  ASSUME TypeOK, View, View', NEW x \in Owners, NEW y \in HoldRefs,
         hold'[x][y].amount = hold[x][y].amount,
         \/ hold'[x][y].status = hold[x][y].status
         \/ Settled(hold[x][y]) /\ Settled(hold'[x][y]),
         Returned(x, y)' <=> Returned(x, y)
  PROVE  Still(x, y)
<1>1. Seen(x, y) /\ Seen(x, y)' BY DEF View
<1>2. hold[x][y].status \in HoldStatus BY HoldData DEF Holds
<1>3. CASE Settled(hold[x][y])
  <2>1. Settled(hold'[x][y]) BY <1>3 DEF Settled
  <2>. QED BY <1>1, <1>3, <2>1 DEF Seen, Still
<1>4. CASE ~Settled(hold[x][y])
  <2>1. hold'[x][y].status = hold[x][y].status /\ ~Settled(hold'[x][y]) BY <1>4 DEF Settled
  <2>2. hold[x][y].status \in {"NONE", "PENDING", "RELEASED", "EXPIRED"}
    BY <1>2, <1>4 DEF HoldStatus, Settled
  <2>. QED BY <1>1, <1>4, <2>1, <2>2 DEF Seen, Still
<1>. QED BY <1>3, <1>4

\* A step after which the contract sees nothing move at all.
LEMMA AllStill ==
  ASSUME \A x \in Owners, y \in HoldRefs : Still(x, y)
  PROVE  UNCHANGED <<PhaseOf, AmountOf, OutOf>>
<1>1. \A k \in HoldKeys : \E x \in Owners, y \in HoldRefs : k = <<x, y>> BY DEF HoldKeys
<1>2. \A k \in HoldKeys : /\ (PhaseOf')[k] = PhaseOf[k]
                          /\ (AmountOf')[k] = AmountOf[k]
                          /\ (OutOf')[k] = OutOf[k]
  BY <1>1, KeyValues DEF Still
<1>3. PhaseOf' = PhaseOf
  <2>1. /\ PhaseOf = [k \in HoldKeys |-> PhaseOf[k]]
        /\ PhaseOf' = [k \in HoldKeys |-> (PhaseOf')[k]]
    BY DEF PhaseOf
  <2>. QED BY <1>2, <2>1
<1>4. AmountOf' = AmountOf
  <2>1. /\ AmountOf = [k \in HoldKeys |-> AmountOf[k]]
        /\ AmountOf' = [k \in HoldKeys |-> (AmountOf')[k]]
    BY DEF AmountOf
  <2>. QED BY <1>2, <2>1
<1>5. OutOf' = OutOf
  <2>1. /\ OutOf = [k \in HoldKeys |-> OutOf[k]]
        /\ OutOf' = [k \in HoldKeys |-> (OutOf')[k]]
    BY DEF OutOf
  <2>. QED BY <1>2, <2>1
<1>. QED BY <1>3, <1>4, <1>5

LEMMA KeptReturned ==
  ASSUME \A x \in Owners, y \in RefundRefs : entry'[x][y] = entry[x][y]
  PROVE  \A x \in Owners, y \in HoldRefs : Returned(x, y)' <=> Returned(x, y)
BY ConstantTypes DEF Returned

\* Only the hold that was turned moves.
LEMMA OthersStill ==
  ASSUME TypeOK, View, View', NEW w \in Owners, NEW r \in HoldRefs, NEW new, Turn(w, r, new),
         \A x \in Owners, y \in HoldRefs :
            ~(x = w /\ y = r) => (Returned(x, y)' <=> Returned(x, y))
  PROVE  \A x \in Owners, y \in HoldRefs : ~(x = w /\ y = r) => Still(x, y)
<1>. SUFFICES ASSUME NEW x \in Owners, NEW y \in HoldRefs, ~(x = w /\ y = r)
              PROVE  Still(x, y)
  OBVIOUS
<1>1. hold'[x][y] = hold[x][y] BY NotTurned
<1>2. Returned(x, y)' <=> Returned(x, y) OBVIOUS
<1>. QED BY <1>1, <1>2, StillHold

\* What the contract sees unchanged at the hold that moved is unchanged.
LEMMA KeptAt ==
  ASSUME NEW w \in Owners, NEW r \in HoldRefs,
         \A x \in Owners, y \in HoldRefs : ~(x = w /\ y = r) => Still(x, y)
  PROVE  /\ hold'[w][r].amount = hold[w][r].amount => AmountOf' = AmountOf
         /\ NetOut(w, r)' = NetOut(w, r) => OutOf' = OutOf
<1>1. ASSUME NEW K, NEW f, f = [k \in K |-> f[k]], NEW key
      PROVE  [f EXCEPT ![key] = f[key]] = f
  BY <1>1
<1>2. AmountOf = [k \in HoldKeys |-> AmountOf[k]] /\ OutOf = [k \in HoldKeys |-> OutOf[k]]
  BY DEF AmountOf, OutOf
<1>3. /\ [AmountOf EXCEPT ![<<w, r>>] = AmountOf[<<w, r>>]] = AmountOf
      /\ [OutOf EXCEPT ![<<w, r>>] = OutOf[<<w, r>>]] = OutOf
  BY <1>1, <1>2
<1>4. AmountOf[<<w, r>>] = hold[w][r].amount /\ OutOf[<<w, r>>] = NetOut(w, r) BY KeyValues
<1>5. /\ AmountOf' = [AmountOf EXCEPT ![<<w, r>>] = hold'[w][r].amount]
      /\ OutOf' = [OutOf EXCEPT ![<<w, r>>] = NetOut(w, r)']
  BY OneKey
<1>6. hold'[w][r].amount = hold[w][r].amount => AmountOf' = AmountOf BY <1>3, <1>4, <1>5, Zenon
<1>7. NetOut(w, r)' = NetOut(w, r) => OutOf' = OutOf BY <1>3, <1>4, <1>5, Zenon
<1>. QED BY <1>6, <1>7

\* The steps of a hold, one by one, in the terms of the contract.
LEMMA ReservedRefines ==
  ASSUME TypeOK, View, View', NEW w \in Owners, NEW r \in HoldRefs, NEW new,
         Reserved(w, r, new),
         \A x \in Owners, y \in HoldRefs : ~(x = w /\ y = r) => Still(x, y)
  PROVE  Contract!Reserve(<<w, r>>)
<1>1. Seen(w, r) /\ Seen(w, r)' BY DEF View
<1>2. hold'[w][r] = new BY Turned DEF Reserved
<1>3. Phase(w, r) = "none" /\ NetOut(w, r) = 0 BY <1>1 DEF Reserved, Seen, NoHold, Settled
<1>4. Phase(w, r)' = "reserved" /\ NetOut(w, r)' = 0
  BY <1>1, <1>2 DEF Reserved, Seen, Settled
<1>5. OutOf' = OutOf BY <1>3, <1>4, KeptAt
<1>6. PhaseOf[<<w, r>>] = "none" /\ PhaseOf' = [PhaseOf EXCEPT ![<<w, r>>] = "reserved"]
  BY <1>3, <1>4, OneKey, KeyValues
<1>7. \E a \in Amounts : AmountOf' = [AmountOf EXCEPT ![<<w, r>>] = a]
  BY <1>2, OneKey DEF Reserved
<1>. QED BY <1>5, <1>6, <1>7 DEF Contract!Reserve, PhaseOf, AmountOf, OutOf

LEMMA FreedRefines ==
  ASSUME TypeOK, View, View', NEW w \in Owners, NEW r \in HoldRefs,
         NEW final \in {"RELEASED", "EXPIRED"}, FreeHold(w, r, final),
         \A x \in Owners, y \in HoldRefs : ~(x = w /\ y = r) => Still(x, y)
  PROVE  Contract!Free(<<w, r>>)
<1>1. Seen(w, r) /\ Seen(w, r)' BY DEF View
<1>2. hold'[w][r] = [hold[w][r] EXCEPT !.status = final] BY DEF FreeHold, TypeOK
<1>3. hold[w][r] \in Holds BY HoldData
<1>4. hold'[w][r].status = final /\ hold'[w][r].amount = hold[w][r].amount
  BY <1>2, <1>3 DEF Holds
<1>5. Phase(w, r) = "reserved" /\ NetOut(w, r) = 0 BY <1>1 DEF FreeHold, Seen, Settled
<1>6. Phase(w, r)' = "freed" /\ NetOut(w, r)' = 0 BY <1>1, <1>4 DEF Seen, Settled
<1>7. OutOf' = OutOf BY <1>5, <1>6, KeptAt
<1>8. PhaseOf[<<w, r>>] = "reserved" /\ PhaseOf' = [PhaseOf EXCEPT ![<<w, r>>] = "freed"]
  BY <1>5, <1>6, OneKey, KeyValues
<1>9. AmountOf' = AmountOf BY <1>4, KeptAt
<1>. QED BY <1>7, <1>8, <1>9 DEF Contract!Free, PhaseOf, AmountOf, OutOf

LEMMA PaidRefines ==
  ASSUME TypeOK, RefundsFit, View, View', NEW w \in Owners, NEW r \in HoldRefs, NEW new,
         Paid(w, r, new), Returned(w, r)' <=> Returned(w, r),
         \A x \in Owners, y \in HoldRefs : ~(x = w /\ y = r) => Still(x, y)
  PROVE  Contract!Settle(<<w, r>>)
<1>1. Seen(w, r) /\ Seen(w, r)' BY DEF View
<1>2. hold'[w][r] = new BY Turned DEF Paid
<1>3. hold'[w][r].amount = hold[w][r].amount BY <1>2 DEF Paid, SameTerms
<1>4. ~Returned(w, r) BY DEF Returned, RefundsFit, Paid, Settled
<1>5. Phase(w, r) = "reserved" BY <1>1 DEF Paid, Seen
<1>6. Phase(w, r)' = "settled" /\ NetOut(w, r)' = hold[w][r].amount
  <2>1. Settled(hold'[w][r]) BY <1>2 DEF Paid, Settled
  <2>. QED BY <1>1, <1>3, <1>4, <2>1 DEF Seen
<1>7. PhaseOf[<<w, r>>] = "reserved" /\ PhaseOf' = [PhaseOf EXCEPT ![<<w, r>>] = "settled"]
  BY <1>5, <1>6, OneKey, KeyValues
<1>8. OutOf' = [OutOf EXCEPT ![<<w, r>>] = AmountOf[<<w, r>>]]
  BY <1>6, OneKey, KeyValues
<1>9. AmountOf' = AmountOf BY <1>3, KeptAt
<1>. QED BY <1>7, <1>8, <1>9 DEF Contract!Settle, PhaseOf, AmountOf, OutOf

LEMMA PaidBackRefines ==
  ASSUME RefDiscipline, OwnRefundRef, TypeOK, NotSelf, View, View',
         NEW w \in Owners, NEW r \in HoldRefs, NEW f \in RefundRefOf[r], NEW new,
         PaidBack(w, r, f, new),
         \A x \in Owners, y \in HoldRefs : ~(x = w /\ y = r) => Still(x, y)
  PROVE  Contract!Return(<<w, r>>)
<1>1. Seen(w, r) /\ Seen(w, r)' BY DEF View
<1>2. hold'[w][r] = new BY Turned DEF PaidBack
<1>3. hold'[w][r].amount = hold[w][r].amount BY <1>2 DEF PaidBack, SameTerms
<1>4. ~Returned(w, r) /\ Returned(w, r)'
  BY PaidBackEntries DEF Returned, OwnRefundRef
<1>5. Settled(hold[w][r]) /\ Settled(hold'[w][r]) BY <1>2 DEF PaidBack
<1>6. Phase(w, r) = "settled" /\ Phase(w, r)' = "returned" /\ NetOut(w, r)' = 0
  BY <1>1, <1>4, <1>5 DEF Seen
<1>7. PhaseOf[<<w, r>>] = "settled" /\ PhaseOf' = [PhaseOf EXCEPT ![<<w, r>>] = "returned"]
  BY <1>6, OneKey, KeyValues
<1>8. OutOf' = [OutOf EXCEPT ![<<w, r>>] = 0] BY <1>6, OneKey
<1>9. AmountOf' = AmountOf BY <1>3, KeptAt
<1>. QED BY <1>7, <1>8, <1>9 DEF Contract!Return, PhaseOf, AmountOf, OutOf

LEMMA HoldEffectRefines ==
  ASSUME RefDiscipline, OwnRefundRef, TypeOK, NotSelf, RefundsFit, View, View',
         NEW w \in Owners, NEW r \in HoldRefs, HoldEffect(w, r)
  PROVE  Contract!Next \/ UNCHANGED <<PhaseOf, AmountOf, OutOf>>
<1>0. <<w, r>> \in HoldKeys BY DEF HoldKeys
<1>1. ASSUME NEW new, Reserved(w, r, new) \/ Paid(w, r, new) \/ Relabelled(w, r, new)
      PROVE  Contract!Next \/ UNCHANGED <<PhaseOf, AmountOf, OutOf>>
  <2>1. \A x \in Owners, y \in RefundRefs : entry'[x][y] = entry[x][y]
    BY <1>1, RefundEntriesKept
  <2>2. \A x \in Owners, y \in HoldRefs : Returned(x, y)' <=> Returned(x, y)
    BY <2>1, KeptReturned
  <2>3. Turn(w, r, new) BY <1>1 DEF Reserved, Paid, Relabelled
  <2>4. \A x \in Owners, y \in HoldRefs : ~(x = w /\ y = r) => Still(x, y)
    BY <2>2, <2>3, OthersStill
  <2>5. CASE Reserved(w, r, new)
    BY <1>0, <2>4, <2>5, ReservedRefines DEF Contract!Next
  <2>6. CASE Paid(w, r, new)
    <3>1. Returned(w, r)' <=> Returned(w, r) BY <2>2
    <3>. QED BY <1>0, <2>4, <2>6, <3>1, PaidRefines DEF Contract!Next
  <2>7. CASE Relabelled(w, r, new)
    <3>1. hold'[w][r] = new BY <2>3, Turned
    <3>2. Still(w, r)
      <4>1. Returned(w, r)' <=> Returned(w, r) BY <2>2
      <4>2. hold'[w][r].amount = hold[w][r].amount
        BY <2>7, <3>1 DEF Relabelled, SameTerms
      <4>3. \/ hold'[w][r].status = hold[w][r].status
            \/ Settled(hold[w][r]) /\ Settled(hold'[w][r])
        BY <2>7, <3>1 DEF Relabelled
      <4>. QED BY <4>1, <4>2, <4>3, StillHold
    <3>3. \A x \in Owners, y \in HoldRefs : Still(x, y) BY <2>4, <3>2
    <3>. QED BY <3>3, AllStill
  <2>. QED BY <1>1, <2>5, <2>6, <2>7
<1>2. ASSUME NEW final \in {"RELEASED", "EXPIRED"}, FreeHold(w, r, final)
      PROVE  Contract!Next
  <2>1. \A x \in Owners, y \in RefundRefs : entry'[x][y] = entry[x][y]
    BY <1>2, RefundEntriesKept
  <2>2. \A x \in Owners, y \in HoldRefs : Returned(x, y)' <=> Returned(x, y)
    BY <2>1, KeptReturned
  <2>3. Turn(w, r, [hold[w][r] EXCEPT !.status = final]) BY <1>2 DEF FreeHold, Turn
  <2>4. \A x \in Owners, y \in HoldRefs : ~(x = w /\ y = r) => Still(x, y)
    BY <2>2, <2>3, OthersStill
  <2>. QED BY <1>0, <1>2, <2>4, FreedRefines DEF Contract!Next
<1>3. ASSUME NEW f \in RefundRefOf[r], NEW new, PaidBack(w, r, f, new)
      PROVE  Contract!Next
  <2>1. \A x \in Owners, y \in HoldRefs :
           ~(x = w /\ y = r) => (Returned(x, y)' <=> Returned(x, y))
    <3>. SUFFICES ASSUME NEW x \in Owners, NEW y \in HoldRefs, ~(x = w /\ y = r)
                  PROVE  Returned(x, y)' <=> Returned(x, y)
      OBVIOUS
    <3>1. \A g \in RefundRefOf[y] : \/ entry'[x][g] = entry[x][g]
                                    \/ entry[x][g].dir # "CREDIT" /\ entry'[x][g].dir # "CREDIT"
      BY <1>3, PaidBackEntries
    <3>. QED BY <3>1 DEF Returned
  <2>2. Turn(w, r, new) BY <1>3 DEF PaidBack
  <2>3. \A x \in Owners, y \in HoldRefs : ~(x = w /\ y = r) => Still(x, y)
    BY <2>1, <2>2, OthersStill
  <2>. QED BY <1>0, <1>3, <2>3, PaidBackRefines DEF Contract!Next
<1>. QED BY <1>1, <1>2, <1>3 DEF HoldEffect

LEMMA StepRefines ==
  ASSUME RefDiscipline, OwnRefundRef, TypeOK, NotSelf, CaptureSettles, RefundsFit,
         View, View', [Next]_vars
  PROVE  [Contract!Next]_Contract!vars
<1>1. ASSUME UNCHANGED hold,
             \A x \in Owners, y \in RefundRefs : entry'[x][y] = entry[x][y]
      PROVE  UNCHANGED <<PhaseOf, AmountOf, OutOf>>
  <2>1. \A x \in Owners, y \in HoldRefs : Returned(x, y)' <=> Returned(x, y)
    BY <1>1, KeptReturned
  <2>2. \A x \in Owners, y \in HoldRefs : Still(x, y) BY <1>1, <2>1, StillHold
  <2>. QED BY <2>2, AllStill
<1>2. CASE Quiet BY <1>1, <1>2, RefundEntriesKept DEF Quiet, Contract!vars, PhaseOf, AmountOf, OutOf
<1>3. ASSUME NEW from \in Wallets, NEW to \in Wallets, NEW amount \in Nat,
             NEW ref \in MoveRefs, NEW type \in TransferType, Moved(from, to, amount, ref, type)
      PROVE  UNCHANGED <<PhaseOf, AmountOf, OutOf>>
  <2>1. UNCHANGED hold BY <1>3 DEF Moved
  <2>2. \A x \in Owners, y \in RefundRefs : entry'[x][y] = entry[x][y]
    BY <1>3, RefundEntriesKept
  <2>. QED BY <1>1, <2>1, <2>2
<1>4. UNCHANGED <<PhaseOf, AmountOf, OutOf>> => UNCHANGED Contract!vars
  BY DEF Contract!vars, PhaseOf, AmountOf, OutOf
<1>. QED BY <1>2, <1>3, <1>4, HoldEffectRefines, StepEffect

LEMMA InitRefines ==
  ASSUME OwnRefundRef, Init
  PROVE  RefundsFit /\ Contract!Init
<1>1. RefundsFit BY ConstantTypes DEF Init, RefundsFit, NoEntry
<1>2. ASSUME NEW w \in Owners, NEW r \in HoldRefs
      PROVE  Phase(w, r) = "none" /\ hold[w][r].amount = 0 /\ NetOut(w, r) = 0
  <2>1. hold[w][r].status = "NONE" /\ hold[w][r].amount = 0 BY <1>2 DEF Init, NoHold
  <2>2. TypeOK BY InitType
  <2>3. entry[w][r].dir = "NONE" BY <1>2, ConstantTypes DEF Init, NoEntry
  <2>4. ~Returned(w, r) BY <1>2, ConstantTypes DEF Init, NoEntry, Returned
  <2>5. SumFunctionOnSet(CreditedAmounts(w), RefundRefOf[r]) = 0
    BY <1>1, <1>2, <2>2, <2>4, CameBack
  <2>. QED BY <2>1, <2>3, <2>5 DEF Phase, NetOut
<1>3. \A k \in HoldKeys : \E x \in Owners, y \in HoldRefs : k = <<x, y>> BY DEF HoldKeys
<1>4. \A k \in HoldKeys : PhaseOf[k] = "none" /\ AmountOf[k] = 0 /\ OutOf[k] = 0
  BY <1>2, <1>3, KeyValues
<1>5. /\ PhaseOf = [k \in HoldKeys |-> PhaseOf[k]]
      /\ AmountOf = [k \in HoldKeys |-> AmountOf[k]]
      /\ OutOf = [k \in HoldKeys |-> OutOf[k]]
  BY DEF PhaseOf, AmountOf, OutOf
<1>6. /\ PhaseOf = [k \in HoldKeys |-> "none"]
      /\ AmountOf = [k \in HoldKeys |-> 0]
      /\ OutOf = [k \in HoldKeys |-> 0]
  BY <1>4, <1>5
<1>. QED BY <1>1, <1>6 DEF Contract!Init, PhaseOf, AmountOf, OutOf

\* Each hold, as the ledger shows it, keeps HoldContract: reserved once, then
\* freed or paid out in full, and given back at most once (createHold,
\* captureHold, releaseHold, refundCapture and the sweeper).
THEOREM HoldsImplementContract ==
  RefDiscipline /\ OwnRefundRef => (Spec => HoldsKeepContract)
<1>. SUFFICES ASSUME RefDiscipline, OwnRefundRef PROVE Spec => HoldsKeepContract OBVIOUS
<1>1. Init => NotSelf /\ RefundsFit /\ Contract!Init
  <2>1. Init => NotSelf BY ConstantTypes DEF Init, NotSelf, NoHold
  <2>. QED BY <2>1, InitRefines
<1>2. TypeOK /\ NotSelf /\ CaptureSettles /\ RefundsFit /\ [Next]_vars => RefundsFit'
  BY RefundsFitStep
<1>3. TypeOK /\ DoubleEntry /\ CaptureSettles /\ RefundsFit => View BY ViewHolds
<1>4. /\ TypeOK /\ NotSelf /\ CaptureSettles /\ RefundsFit /\ View /\ View'
      /\ [Next]_vars
      => [Contract!Next]_Contract!vars
  BY StepRefines
<1>5. Spec => []CaptureSettles BY CaptureIsPayment
<1>. QED BY <1>1, <1>2, <1>3, <1>4, <1>5, NotSelfStep, TypeCorrect, LedgerIsDoubleEntry, PTL
     DEF Spec, HoldsKeepContract, Contract!Spec
=============================================================================
