-------------------------- MODULE Billing_proofs --------------------------
(***************************************************************************)
(* Machine-checked proofs about Billing, for any plans, metering rows,     *)
(* payments, credits, rates, batch size and retention: the ledger explains *)
(* every balance, each row is billed once and exactly, prepaid money is    *)
(* touched last and the cursor of reconcile passes only what it billed.    *)
(*                                                                         *)
(* debit folds over the subscriptions that pay, reconcile folds debit over *)
(* a batch of rows.  Sums and folds come first, then what one draw, one    *)
(* debit, one row and one batch do to an account that is Sound, then the   *)
(* operations.                                                             *)
(***************************************************************************)
EXTENDS Billing, FiniteSetTheorems, TLAPS

-----------------------------------------------------------------------------
(***************************************************************************)
(* Folds over finite sets.  The prover cannot instantiate an induction     *)
(* theorem that takes a predicate; induction is proved here for sets,      *)
(* which it can: Good is the set of what the predicate holds of.  A table  *)
(* of the values of a fold over every part of a finite set exists          *)
(* (FoldExists), so that the CHOOSE of MapThenFoldSet is that table and    *)
(* sums are reasoned about one element at a time.                          *)
(***************************************************************************)
\* Induction over the natural numbers, for a set of them.
LEMMA NumberInduction ==
  ASSUME NEW Good, 0 \in Good, \A n \in Nat : n \in Good => n + 1 \in Good
  PROVE  Nat \subseteq Good
<1> DEFINE Bad == Nat \ Good
<1> SUFFICES ASSUME Bad # {} PROVE FALSE
  OBVIOUS
<1>1. IsWellFoundedOn(OpToRel(<, Nat), Nat)
  BY NatLessThanWellFounded
<1>2. PICK m \in Bad : \A k \in Bad : <<k, m>> \notin OpToRel(<, Nat)
  <2>1. Bad \subseteq Nat
    OBVIOUS
  <2> HIDE DEF Bad
  <2> QED
    BY <1>1, <2>1, WFMin
<1>3. \A k \in Bad : ~(k < m)
  BY <1>2 DEF OpToRel
<1>4. m # 0 /\ m - 1 \in Nat /\ m - 1 < m /\ m = (m - 1) + 1
  OBVIOUS
<1>5. m - 1 \in Good
  BY <1>3, <1>4
<1> QED
  BY <1>2, <1>4, <1>5

\* Induction over the subsets of a finite set, by taking one element away.
LEMMA SubsetInduction ==
  ASSUME NEW S, IsFiniteSet(S), NEW Good,
         \A T \in SUBSET S : (\A x \in T : T \ {x} \in Good) => T \in Good
  PROVE  \A T \in SUBSET S : T \in Good
<1> DEFINE Bad == (SUBSET S) \ Good
<1> SUFFICES ASSUME Bad # {} PROVE FALSE
  OBVIOUS
<1>1. IsWellFoundedOn(StrictSubsetOrdering(S), SUBSET S)
  <2>1. IsWellFoundedOn(StrictSubsetOrdering(S), FiniteSubsetsOf(S))
    BY FS_StrictSubsetOrderingWellFounded
  <2>2. FiniteSubsetsOf(S) = SUBSET S
    BY FS_FiniteSubsetsOfFinite
  <2> QED
    BY <2>1, <2>2
<1>2. PICK T \in Bad : \A U \in Bad : <<U, T>> \notin StrictSubsetOrdering(S)
  <2>1. Bad \subseteq SUBSET S
    OBVIOUS
  <2> HIDE DEF Bad
  <2> QED
    BY <1>1, <2>1, WFMin
<1>3. ASSUME NEW x \in T PROVE T \ {x} \in Good
  <2>1. T \ {x} \in SUBSET S /\ T \ {x} # T
    OBVIOUS
  <2>2. T \ {x} \notin Bad
    BY <1>2, <2>1 DEF StrictSubsetOrdering
  <2> QED
    BY <2>1, <2>2
<1> QED
  BY <1>2, <1>3

\* f is the fold on the sets D: pick[T] is who comes last in T, step[x][v]
\* what the element x makes of the value v.
Solves(f, D, base, pick, step) ==
  \A T \in D : f[T] = IF T = {} THEN base ELSE step[pick[T]][f[T \ {pick[T]}]]

Upto(S, n) == {T \in SUBSET S : Cardinality(T) <= n}

\* What folds over a finite set compute exists: a table with a value for every part
\* of the set, for one element at a time, picked by pick.
LEMMA FoldExists ==
  ASSUME NEW S, IsFiniteSet(S), NEW V, NEW base \in V,
         NEW pick, \A T \in SUBSET S : T # {} => pick[T] \in T,
         NEW step \in [S -> [V -> V]]
  PROVE  \E f \in [SUBSET S -> V] : Solves(f, SUBSET S, base, pick, step)
<1> DEFINE Sizes == {n \in Nat : \E f \in [Upto(S, n) -> V] :
                                   Solves(f, Upto(S, n), base, pick, step)}
<1>0. \A T \in SUBSET S : IsFiniteSet(T) /\ Cardinality(T) \in Nat
  BY FS_Subset, FS_CardinalityType
<1>1. 0 \in Sizes
  <2>1. \A T \in Upto(S, 0) : T = {}
    BY <1>0, FS_EmptySet DEF Upto
  <2> DEFINE f == [T \in Upto(S, 0) |-> base]
  <2>2. f \in [Upto(S, 0) -> V] /\ Solves(f, Upto(S, 0), base, pick, step)
    BY <2>1 DEF Solves
  <2> QED
    BY <2>2
<1>2. ASSUME NEW n \in Nat, n \in Sizes PROVE n + 1 \in Sizes
  <2>1. PICK f \in [Upto(S, n) -> V] : Solves(f, Upto(S, n), base, pick, step)
    BY <1>2
  <2>2. ASSUME NEW T \in Upto(S, n + 1), T # {}
        PROVE  pick[T] \in T /\ pick[T] \in S /\ T \ {pick[T]} \in Upto(S, n)
    <3>1. pick[T] \in T /\ T \in SUBSET S /\ Cardinality(T) <= n + 1
      BY <2>2 DEF Upto
    <3>2. Cardinality(T \ {pick[T]}) = Cardinality(T) - 1
      BY <1>0, <3>1, FS_RemoveElement
    <3> QED
      BY <1>0, <3>1, <3>2 DEF Upto
  <2> DEFINE g == [T \in Upto(S, n + 1) |->
                     IF T = {} THEN base ELSE step[pick[T]][f[T \ {pick[T]}]]]
  <2>3. g \in [Upto(S, n + 1) -> V]
    <3> SUFFICES ASSUME NEW T \in Upto(S, n + 1), T # {}
                 PROVE  step[pick[T]][f[T \ {pick[T]}]] \in V
      OBVIOUS
    <3>1. pick[T] \in S /\ f[T \ {pick[T]}] \in V
      BY <2>2
    <3>2. step[pick[T]] \in [V -> V]
      BY <3>1
    <3> QED
      BY <3>1, <3>2
  <2>4. \A T \in Upto(S, n) : T \in Upto(S, n + 1)
    BY <1>0 DEF Upto
  <2>5. \A T \in Upto(S, n) : g[T] = f[T]
    BY <2>1, <2>4 DEF Solves
  <2>6. Solves(g, Upto(S, n + 1), base, pick, step)
    BY <2>2, <2>5 DEF Solves
  <2> HIDE DEF g
  <2>7. \E h \in [Upto(S, n + 1) -> V] : Solves(h, Upto(S, n + 1), base, pick, step)
    BY <2>3, <2>6
  <2> QED
    BY <2>7
<1>3. Nat \subseteq Sizes
  <2> HIDE DEF Sizes
  <2> QED
    BY <1>1, <1>2, NumberInduction
<1>4. Cardinality(S) \in Nat /\ Upto(S, Cardinality(S)) = SUBSET S
  BY <1>0, FS_Subset, FS_CardinalityType DEF Upto
<1>5. \E f \in [Upto(S, Cardinality(S)) -> V] :
        Solves(f, Upto(S, Cardinality(S)), base, pick, step)
  BY <1>3, <1>4
<1> QED
  BY <1>4, <1>5

(***************************************************************************)
(* Sums.                                                                   *)
(***************************************************************************)
Some(T) == CHOOSE x \in T : TRUE

IsTable(t, f, S) ==
  t = [T \in SUBSET S |-> IF T = {} THEN 0 ELSE f[Some(T)] + t[T \ {Some(T)}]]

\* The partial sums of f over S, as SumFunctionOnSet computes them.
Table(f, S) == CHOOSE t : IsTable(t, f, S)

\* The library's sum is the last entry of that table.
LEMMA SumIsOfTable ==
  ASSUME NEW f, NEW S
  PROVE  SumFunctionOnSet(f, S) = Table(f, S)[S]
BY DEF SumFunctionOnSet, FoldFunctionOnSet, MapThenFoldSet, Table, IsTable, Some

\* The partial sums of integers exist and are integers.
LEMMA TableExists ==
  ASSUME NEW S, IsFiniteSet(S), NEW f, \A x \in S : f[x] \in Int
  PROVE  IsTable(Table(f, S), f, S) /\ Table(f, S) \in [SUBSET S -> Int]
<1> DEFINE pick == [T \in SUBSET S |-> Some(T)]
           step == [x \in S |-> [v \in Int |-> f[x] + v]]
<1>1. \A T \in SUBSET S : T # {} => Some(T) \in T
  BY DEF Some
<1>2. \A T \in SUBSET S : T # {} => pick[T] \in T
  BY <1>1
<1>3. step \in [S -> [Int -> Int]]
  OBVIOUS
<1>4. 0 \in Int
  OBVIOUS
<1>5. PICK t \in [SUBSET S -> Int] : Solves(t, SUBSET S, 0, pick, step)
  <2> HIDE DEF pick, step
  <2> DEFINE V == Int
  <2>1. step \in [S -> [V -> V]] /\ 0 \in V
    BY <1>3
  <2> HIDE DEF V
  <2>2. \E t \in [SUBSET S -> V] : Solves(t, SUBSET S, 0, pick, step)
    BY <1>2, <2>1, FoldExists
  <2> QED
    BY <2>2 DEF V
<1>6. ASSUME NEW T \in SUBSET S
      PROVE  t[T] = IF T = {} THEN 0 ELSE f[Some(T)] + t[T \ {Some(T)}]
  <2>1. T # {} => Some(T) \in S /\ t[T \ {Some(T)}] \in Int /\ pick[T] = Some(T)
    BY <1>1
  <2>2. T # {} => step[Some(T)][t[T \ {Some(T)}]] = f[Some(T)] + t[T \ {Some(T)}]
    BY <2>1
  <2> QED
    BY <1>5, <2>1, <2>2 DEF Solves
<1>7. IsTable(t, f, S)
  BY <1>6 DEF IsTable
<1>8. IsTable(Table(f, S), f, S)
  BY <1>7 DEF Table
<1>9. ASSUME NEW u, IsTable(u, f, S)
      PROVE  u \in [SUBSET S -> Int]
  <2> DEFINE Good == {T \in SUBSET S : u[T] \in Int}
  <2>1. ASSUME NEW T \in SUBSET S, \A x \in T : T \ {x} \in Good
        PROVE  T \in Good
    <3>1. u[T] = IF T = {} THEN 0 ELSE f[Some(T)] + u[T \ {Some(T)}]
      BY <1>9 DEF IsTable
    <3>2. T # {} => f[Some(T)] \in Int /\ u[T \ {Some(T)}] \in Int
      BY <1>1, <2>1
    <3> QED
      BY <3>1, <3>2
  <2>2. \A T \in SUBSET S : T \in Good
    <3> HIDE DEF Good
    <3> QED
      BY <2>1, SubsetInduction
  <2>3. u = [T \in SUBSET S |-> u[T]]
    BY <1>9 DEF IsTable
  <2> QED
    BY <2>2, <2>3
<1> QED
  BY <1>8, <1>9

\* A sum of integers is an integer.
LEMMA SumType ==
  ASSUME NEW S, IsFiniteSet(S), NEW f, \A x \in S : f[x] \in Int
  PROVE  SumFunctionOnSet(f, S) \in Int
BY TableExists, SumIsOfTable

\* A sum over nothing is 0.
LEMMA SumEmpty ==
  ASSUME NEW f
  PROVE  SumFunctionOnSet(f, {}) = 0
<1>1. IsFiniteSet({}) /\ \A x \in {} : f[x] \in Int
  BY FS_EmptySet
<1>2. IsTable(Table(f, {}), f, {})
  BY <1>1, TableExists
<1> QED
  BY <1>2, SumIsOfTable DEF IsTable

\* Sums over subsets of S can be read off the table of S.
LEMMA TableOfSubset ==
  ASSUME NEW S, IsFiniteSet(S), NEW f, \A x \in S : f[x] \in Int, NEW U \in SUBSET S
  PROVE  Table(f, S)[U] = SumFunctionOnSet(f, U)
<1>1. IsFiniteSet(U)
  BY FS_Subset
<1>2. IsTable(Table(f, S), f, S) /\ IsTable(Table(f, U), f, U)
  BY <1>1, TableExists
<1> DEFINE Good == {T \in SUBSET U : Table(f, S)[T] = Table(f, U)[T]}
<1>3. ASSUME NEW T \in SUBSET U, \A x \in T : T \ {x} \in Good
      PROVE  T \in Good
  <2>1. /\ Table(f, S)[T] = IF T = {} THEN 0 ELSE f[Some(T)] + Table(f, S)[T \ {Some(T)}]
        /\ Table(f, U)[T] = IF T = {} THEN 0 ELSE f[Some(T)] + Table(f, U)[T \ {Some(T)}]
    BY <1>2 DEF IsTable
  <2>2. T # {} => Some(T) \in T
    BY DEF Some
  <2> QED
    BY <1>3, <2>1, <2>2
<1>4. \A T \in SUBSET U : T \in Good
  <2> HIDE DEF Good
  <2> QED
    BY <1>1, <1>3, SubsetInduction
<1> QED
  BY <1>4, SumIsOfTable

\* Any element may be taken out of a sum.
LEMMA SumTake ==
  ASSUME NEW S, IsFiniteSet(S), NEW f, \A y \in S : f[y] \in Int, NEW x \in S
  PROVE  SumFunctionOnSet(f, S) = f[x] + SumFunctionOnSet(f, S \ {x})
<1> DEFINE s(T) == SumFunctionOnSet(f, T)
           Good == {T \in SUBSET S : \A y \in T : s(T) = f[y] + s(T \ {y})}
<1>1. ASSUME NEW T \in SUBSET S, T # {}
      PROVE  /\ Some(T) \in T /\ s(T) = f[Some(T)] + s(T \ {Some(T)})
             /\ s(T) \in Int
  <2>1. Some(T) \in T
    BY <1>1 DEF Some
  <2>2. Table(f, S)[T] = f[Some(T)] + Table(f, S)[T \ {Some(T)}]
    <3>1. IsTable(Table(f, S), f, S)
      BY TableExists
    <3> QED
      BY <1>1, <3>1 DEF IsTable
  <2>3. Table(f, S)[T] = s(T) /\ Table(f, S)[T \ {Some(T)}] = s(T \ {Some(T)})
    BY TableOfSubset
  <2>4. s(T) \in Int
    BY FS_Subset, SumType
  <2> QED
    BY <2>1, <2>2, <2>3, <2>4
<1>2. ASSUME NEW T \in SUBSET S, \A y \in T : T \ {y} \in Good
      PROVE  T \in Good
  <2> SUFFICES ASSUME NEW y \in T PROVE s(T) = f[y] + s(T \ {y})
    OBVIOUS
  <2> DEFINE z == Some(T)
  <2>1. z \in T /\ s(T) = f[z] + s(T \ {z})
    BY <1>1
  <2>2. CASE y = z
    BY <2>1, <2>2
  <2>3. CASE y # z
    <3>1. s(T \ {z}) = f[y] + s((T \ {z}) \ {y})
      BY <1>2, <2>1, <2>3
    <3>2. s(T \ {y}) = f[z] + s((T \ {y}) \ {z})
      BY <1>2, <2>1, <2>3
    <3>3. (T \ {z}) \ {y} = (T \ {y}) \ {z}
      OBVIOUS
    <3>4. f[y] \in Int /\ f[z] \in Int /\ s((T \ {z}) \ {y}) \in Int
      <4>1. (T \ {z}) \ {y} \in SUBSET S
        OBVIOUS
      <4> QED
        BY <2>1, <4>1, FS_Subset, SumType
    <3>5. /\ s(T) = f[z] + (f[y] + s((T \ {z}) \ {y}))
          /\ s(T \ {y}) = f[z] + s((T \ {z}) \ {y})
      BY <2>1, <3>1, <3>2, <3>3
    <3> HIDE DEF s, z
    <3> QED
      BY <3>4, <3>5
  <2> QED
    BY <2>2, <2>3
<1>3. \A T \in SUBSET S : T \in Good
  <2> HIDE DEF Good
  <2> QED
    BY <1>2, SubsetInduction
<1> QED
  BY <1>3

\* A new element adds its value.
LEMMA SumAdd ==
  ASSUME NEW S, IsFiniteSet(S), NEW x, x \notin S,
         NEW f, \A y \in S \cup {x} : f[y] \in Int
  PROVE  SumFunctionOnSet(f, S \cup {x}) = f[x] + SumFunctionOnSet(f, S)
<1>1. IsFiniteSet(S \cup {x}) /\ (S \cup {x}) \ {x} = S
  BY FS_AddElement
<1> QED
  BY <1>1, SumTake

\* The sum depends on the values over the set only.
LEMMA SumSame ==
  ASSUME NEW S, IsFiniteSet(S), NEW f, NEW g,
         \A x \in S : f[x] \in Int /\ g[x] = f[x]
  PROVE  SumFunctionOnSet(g, S) = SumFunctionOnSet(f, S)
<1> DEFINE Good == {T \in SUBSET S : SumFunctionOnSet(g, T) = SumFunctionOnSet(f, T)}
<1>1. ASSUME NEW T \in SUBSET S, \A x \in T : T \ {x} \in Good
      PROVE  T \in Good
  <2>1. CASE T = {}
    BY <2>1, SumEmpty
  <2>2. CASE T # {}
    <3>1. PICK x \in T : TRUE
      BY <2>2
    <3>2. IsFiniteSet(T)
      BY FS_Subset
    <3>3. /\ SumFunctionOnSet(f, T) = f[x] + SumFunctionOnSet(f, T \ {x})
          /\ SumFunctionOnSet(g, T) = g[x] + SumFunctionOnSet(g, T \ {x})
      BY <3>2, SumTake
    <3> QED
      BY <1>1, <3>3
  <2> QED
    BY <2>1, <2>2
<1>2. \A T \in SUBSET S : T \in Good
  <2> HIDE DEF Good
  <2> QED
    BY <1>1, SubsetInduction
<1> QED
  BY <1>2

\* A change of one value changes the sum by as much.
LEMMA SumChange ==
  ASSUME NEW S, IsFiniteSet(S), NEW f, NEW g, NEW x \in S,
         \A y \in S : f[y] \in Int /\ g[y] \in Int,
         \A y \in S \ {x} : g[y] = f[y]
  PROVE  SumFunctionOnSet(g, S) = SumFunctionOnSet(f, S) + g[x] - f[x]
<1>1. IsFiniteSet(S \ {x})
  BY FS_Subset
<1>2. SumFunctionOnSet(g, S \ {x}) = SumFunctionOnSet(f, S \ {x})
  BY <1>1, SumSame
<1>3. SumFunctionOnSet(f, S \ {x}) \in Int
  BY <1>1, SumType
<1>4. /\ SumFunctionOnSet(f, S) = f[x] + SumFunctionOnSet(f, S \ {x})
      /\ SumFunctionOnSet(g, S) = g[x] + SumFunctionOnSet(g, S \ {x})
  BY SumTake
<1> QED
  BY <1>2, <1>3, <1>4

\* A sum of naturals is a natural.
LEMMA SumOfNat ==
  ASSUME NEW S, IsFiniteSet(S), NEW f, \A x \in S : f[x] \in Nat
  PROVE  SumFunctionOnSet(f, S) \in Nat
<1> DEFINE Good == {T \in SUBSET S : SumFunctionOnSet(f, T) \in Nat}
<1>1. ASSUME NEW T \in SUBSET S, \A x \in T : T \ {x} \in Good
      PROVE  T \in Good
  <2>1. CASE T = {}
    BY <2>1, SumEmpty
  <2>2. CASE T # {}
    <3>1. PICK x \in T : TRUE
      BY <2>2
    <3>2. IsFiniteSet(T)
      BY FS_Subset
    <3>3. SumFunctionOnSet(f, T) = f[x] + SumFunctionOnSet(f, T \ {x})
      BY <3>2, SumTake
    <3> QED
      BY <1>1, <3>3
  <2> QED
    BY <2>1, <2>2
<1>2. \A T \in SUBSET S : T \in Good
  <2> HIDE DEF Good
  <2> QED
    BY <1>1, SubsetInduction
<1> QED
  BY <1>2

\* A sum over one element.
LEMMA SumOfOne ==
  ASSUME NEW f, NEW x, f[x] \in Int
  PROVE  SumFunctionOnSet(f, {x}) = f[x]
<1>1. SumFunctionOnSet(f, {}) = 0
  BY SumEmpty
<1>2. IsFiniteSet({})
  BY FS_EmptySet
<1>3. SumFunctionOnSet(f, {} \cup {x}) = f[x] + SumFunctionOnSet(f, {})
  BY <1>2, SumAdd
<1>4. {} \cup {x} = {x}
  OBVIOUS
<1> QED
  BY <1>1, <1>3, <1>4

\* A sum over two elements.
LEMMA SumOfTwo ==
  ASSUME NEW f, NEW x, NEW y, x # y, f[x] \in Int, f[y] \in Int
  PROVE  SumFunctionOnSet(f, {x, y}) = f[x] + f[y]
<1>1. SumFunctionOnSet(f, {x}) = f[x]
  BY SumOfOne
<1>2. IsFiniteSet({x})
  BY FS_Singleton
<1>3. SumFunctionOnSet(f, {x} \cup {y}) = f[y] + SumFunctionOnSet(f, {x})
  BY <1>2, SumAdd
<1>4. {x} \cup {y} = {x, y}
  OBVIOUS
<1>5. SumFunctionOnSet(f, {x, y}) = f[y] + f[x]
  BY <1>1, <1>3, <1>4
<1> QED
  BY <1>5

-----------------------------------------------------------------------------
(***************************************************************************)
(* Subscriptions and what drawing on one makes of it.                      *)
(***************************************************************************)
\* In a finite set ordered by R, every part that is not empty has a last element.
LEMMA LastExists ==
  ASSUME NEW S, IsFiniteSet(S), NEW R,
         \A x, y \in S : x # y => <<x, y>> \in R \/ <<y, x>> \in R,
         \A x, y, z \in S : <<x, y>> \in R /\ <<y, z>> \in R => <<x, z>> \in R
  PROVE  \A T \in SUBSET S : T # {} => \E x \in T : \A y \in T \ {x} : <<y, x>> \in R
<1> DEFINE Good == {T \in SUBSET S : T # {} => \E x \in T : \A y \in T \ {x} : <<y, x>> \in R}
<1>1. ASSUME NEW T \in SUBSET S, \A x \in T : T \ {x} \in Good
      PROVE  T \in Good
  <2> SUFFICES ASSUME NEW w \in T PROVE \E x \in T : \A y \in T \ {x} : <<y, x>> \in R
    OBVIOUS
  <2>1. CASE T \ {w} = {}
    BY <2>1
  <2>2. CASE T \ {w} # {}
    <3>1. PICK z \in T \ {w} : \A y \in (T \ {w}) \ {z} : <<y, z>> \in R
      BY <1>1, <2>2
    <3>2. CASE <<w, z>> \in R
      BY <3>1, <3>2
    <3>3. CASE <<w, z>> \notin R
      <4>1. <<z, w>> \in R
        BY <3>1, <3>3
      <4>2. \A y \in T \ {w} : <<y, w>> \in R
        BY <3>1, <4>1
      <4> QED
        BY <4>2
    <3> QED
      BY <3>2, <3>3
  <2> QED
    BY <2>1, <2>2
<1>2. \A T \in SUBSET S : T \in Good
  <2> HIDE DEF Good
  <2> QED
    BY <1>1, SubsetInduction
<1> QED
  BY <1>2

\* A finite set of integers that is not empty has a maximum.
LEMMA MaxExists ==
  ASSUME NEW S, IsFiniteSet(S), S # {}, S \subseteq Int
  PROVE  Max(S) \in S /\ \A y \in S : Max(S) >= y
<1> DEFINE R == {p \in S \X S : p[1] <= p[2]}
<1>1. \A x, y \in S : <<x, y>> \in R <=> x <= y
  OBVIOUS
<1>2. /\ \A x, y \in S : x # y => <<x, y>> \in R \/ <<y, x>> \in R
      /\ \A x, y, z \in S : <<x, y>> \in R /\ <<y, z>> \in R => <<x, z>> \in R
  BY <1>1
<1> HIDE DEF R
<1>3. \E x \in S : \A y \in S \ {x} : <<y, x>> \in R
  <2>1. S \in SUBSET S
    OBVIOUS
  <2>2. \A T \in SUBSET S : T # {} => \E x \in T : \A y \in T \ {x} : <<y, x>> \in R
    BY <1>2, LastExists
  <2> QED
    BY <2>1, <2>2
<1>4. \E x \in S : \A y \in S : x >= y
  <2>1. PICK x \in S : \A y \in S \ {x} : <<y, x>> \in R
    BY <1>3
  <2>2. ASSUME NEW y \in S PROVE x >= y
    <3>1. CASE y = x
      BY <3>1
    <3>2. CASE y # x
      BY <1>1, <2>1, <3>2
    <3> QED
      BY <3>1, <3>2
  <2> QED
    BY <2>2
<1> QED
  BY <1>4 DEF Max

(***************************************************************************)
(* Types.                                                                  *)
(***************************************************************************)
Sources == {"subscription", "admin", "payment", "usage", "unfunded"}
Refs == Nat \cup Events \cup Credits \cup Payments
Entries == [source : Sources, ref : Refs, tokens : Nat, cents : Nat]

AccountRecords ==
  [subs : Seq(SubType), tokens : Nat, cents : Nat, ledger : SUBSET Entries, cursor : Nat,
   envelope : PlanIds \cup {NoPlan}, restored : Nat]

\* A subscription of which only the use and the timer moved.
Moved(s, t) ==
  /\ t \in SubType
  /\ t.plan = s.plan /\ t.status = s.status /\ t.periodEnd = s.periodEnd
  /\ t.included = s.included /\ t.method = s.method /\ t.duration = s.duration
  /\ t.basis = s.basis /\ t.resets = s.resets
  /\ s.used <= t.used /\ (s.used <= s.included => t.used <= t.included)

\* None stands for no time at all.
LEMMA NoneIsNotNat == None \notin Nat
  BY DEF None

\* The lesser of two numbers is one of them.
LEMMA LesserType ==
  ASSUME NEW m \in Nat, NEW n \in Nat
  PROVE  Lesser(m, n) \in Nat /\ Lesser(m, n) <= m /\ Lesser(m, n) <= n /\ Lesser(m, n) \in {m, n}
BY DEF Lesser

\* activateFirstUse starts the timer of a pending subscription and leaves any other
\* as it is.
LEMMA ActivateMoves ==
  ASSUME NEW s \in SubType, now \in Nat
  PROVE  LET t == activateFirstUse(s)
         IN  /\ Moved(s, t) /\ t.used = s.used
             /\ ~(Pending(t) /\ t.status = "active")
             /\ ~(Pending(s) /\ s.status = "active") => t = s
<1> DEFINE t == [s EXCEPT !.activated = now, !.expires = now + s.duration]
<1>1. t \in SubType
  <2>1. now + s.duration \in Nat
    BY DEF SubType
  <2>2. now \in Nat \cup {None} /\ now + s.duration \in Nat \cup {None}
    BY <2>1
  <2> QED
    BY <2>2 DEF SubType
<1>2. Moved(s, t) /\ t.used = s.used /\ t.activated = now
  BY <1>1 DEF Moved, SubType
<1>3. ~Pending(t)
  BY <1>2, NoneIsNotNat DEF Pending
<1>4. Moved(s, s)
  BY DEF Moved, SubType
<1> QED
  BY <1>2, <1>3, <1>4 DEF activateFirstUse

\* What draw makes of the subscription it draws from, left the amount left.
Paid(s, left) ==
  LET sub == activateFirstUse(s)
  IN  IF windowActive(sub) THEN Lesser(Available(sub), left) ELSE 0

\* What is left of an allowance.
LEMMA AvailableType ==
  ASSUME NEW s \in SubType
  PROVE  Available(s) \in Nat /\ (s.used <= s.included => Available(s) = s.included - s.used)
BY DEF Available, SubType

\* What drawing on one subscription makes of it: its use grows by what it pays, and
\* if something is left to pay, it has nothing more to give.
LEMMA DrawMoves ==
  ASSUME NEW s \in SubType, NEW left \in Nat, now \in Nat
  PROVE  LET sub  == activateFirstUse(s)
             part == Paid(s, left)
             t    == [sub EXCEPT !.used = @ + part]
         IN  /\ part \in Nat /\ part <= left
             /\ Moved(s, t) /\ t.used = s.used + part
             /\ ~(Pending(t) /\ t.status = "active")
             /\ left - part > 0 /\ windowActive(t) => Available(t) = 0
             /\ (/\ ~(Pending(s) /\ s.status = "active")
                 /\ windowActive(s) => Available(s) = 0) => part = 0 /\ t = s
<1> DEFINE sub  == activateFirstUse(s)
           part == Paid(s, left)
           t    == [sub EXCEPT !.used = @ + part]
<1>1. Moved(s, sub) /\ sub.used = s.used /\ sub \in SubType
  BY ActivateMoves DEF Moved
<1>2. part \in Nat /\ part <= left /\ part <= Available(sub) /\ (windowActive(sub) => part \in {left, Available(sub)})
  BY <1>1, AvailableType, LesserType DEF Paid
<1> HIDE DEF part
<1>3. t \in SubType /\ t.used = s.used + part
  BY <1>1, <1>2 DEF SubType
<1>4. /\ t.plan = sub.plan /\ t.status = sub.status /\ t.periodEnd = sub.periodEnd
      /\ t.included = sub.included /\ t.method = sub.method /\ t.duration = sub.duration
      /\ t.basis = sub.basis /\ t.resets = sub.resets /\ t.activated = sub.activated
      /\ t.expires = sub.expires
  BY <1>1 DEF SubType
<1>5. s.used <= s.included => t.used <= t.included
  BY <1>1, <1>2, <1>3, <1>4 DEF Moved, Available, SubType
<1>6. Moved(s, t)
  <2> HIDE DEF sub, t
  <2> QED
    BY <1>1, <1>2, <1>3, <1>4, <1>5 DEF Moved, SubType
<1>7. ~(Pending(t) /\ t.status = "active")
  BY <1>4, ActivateMoves DEF Pending
<1>8. left - part > 0 /\ windowActive(t) => Available(t) = 0
  <2> SUFFICES ASSUME left - part > 0, windowActive(t) PROVE Available(t) = 0
    OBVIOUS
  <2>1. windowActive(sub)
    BY <1>4 DEF windowActive
  <2>2. part = Available(sub)
    BY <1>2, <2>1
  <2> HIDE DEF sub, t
  <2> QED
    BY <1>1, <1>3, <1>4, <2>2 DEF Available, SubType
<1>9. ASSUME ~(Pending(s) /\ s.status = "active"), windowActive(s) => Available(s) = 0
      PROVE  part = 0 /\ t = s
  <2>1. sub = s
    BY <1>9, ActivateMoves
  <2>2. part = 0
    BY <1>2, <1>9, <2>1, AvailableType, LesserType DEF Paid, part
  <2>3. [s EXCEPT !.used = @ + 0] = s
    BY DEF SubType
  <2> QED
    BY <2>1, <2>2, <2>3
<1> QED
  BY <1>2, <1>3, <1>6, <1>7, <1>8, <1>9 DEF part

-----------------------------------------------------------------------------
(***************************************************************************)
(* Drawing: the subscriptions that pay, in their order.                    *)
(***************************************************************************)
\* The subscriptions of an account.
LEMMA SubsAreTyped ==
  ASSUME NEW a \in AccountRecords
  PROVE  /\ DOMAIN a.subs = 1 .. Len(a.subs) /\ Len(a.subs) \in Nat
         /\ IsFiniteSet(DOMAIN a.subs)
         /\ \A i \in DOMAIN a.subs : a.subs[i] \in SubType
         /\ activeSubscriptions(a) \subseteq DOMAIN a.subs
<1>1. a.subs \in Seq(SubType)
  BY DEF AccountRecords
<1>2. DOMAIN a.subs = 1 .. Len(a.subs) /\ Len(a.subs) \in Nat
  BY <1>1
<1>3. IsFiniteSet(1 .. Len(a.subs))
  BY <1>2, FS_Interval
<1> QED
  BY <1>1, <1>2, <1>3 DEF activeSubscriptions

\* What pays are live passes and packs, finitely many.
LEMMA DrawableIsLive ==
  ASSUME NEW a \in AccountRecords
  PROVE  /\ Drawable(a) \subseteq activeSubscriptions(a)
         /\ Drawable(a) \subseteq DOMAIN a.subs
         /\ Drawable(a) \subseteq Nat
         /\ IsFiniteSet(Drawable(a))
         /\ \A i \in Drawable(a) : a.subs[i].method \in {"rolling_time", "token_pack"}
<1>1. Drawable(a) \subseteq activeSubscriptions(a)
  BY DEF Drawable, Oldest, Rolling, Packs
<1> QED
  BY <1>1, SubsAreTyped, FS_Subset DEF Drawable, Oldest, Rolling, Packs

Last(a, T) == CHOOSE i \in T : \A j \in T \ {i} : SpentBefore(a, j, i)

\* SpentBefore is a total order on what pays, so that there is a last one to be drawn.
LEMMA LastIsAMember ==
  ASSUME NEW a \in AccountRecords
  PROVE  \A T \in SUBSET Drawable(a) : T # {} => Last(a, T) \in T
<1> DEFINE R == {p \in Drawable(a) \X Drawable(a) : SpentBefore(a, p[1], p[2])}
<1>1. \A i, j \in Drawable(a) : <<i, j>> \in R <=> SpentBefore(a, i, j)
  OBVIOUS
<1>2. ASSUME NEW i \in Drawable(a)
      PROVE  Expiry(a.subs[i]) \in Nat /\ i \in Nat
  BY SubsAreTyped, DrawableIsLive DEF Expiry, SubType
<1>3. ASSUME NEW i \in Drawable(a), NEW j \in Drawable(a), i # j
      PROVE  SpentBefore(a, i, j) \/ SpentBefore(a, j, i)
  BY <1>2, <1>3, DrawableIsLive DEF SpentBefore
<1>4. ASSUME NEW i \in Drawable(a), NEW j \in Drawable(a), NEW k \in Drawable(a),
             SpentBefore(a, i, j), SpentBefore(a, j, k)
      PROVE  SpentBefore(a, i, k)
  BY <1>2, <1>4, DrawableIsLive DEF SpentBefore
<1> HIDE DEF R
<1>5. \A T \in SUBSET Drawable(a) : T # {} => \E i \in T : \A j \in T \ {i} : <<j, i>> \in R
  <2>1. /\ \A i, j \in Drawable(a) : i # j => <<i, j>> \in R \/ <<j, i>> \in R
        /\ \A i, j, k \in Drawable(a) : <<i, j>> \in R /\ <<j, k>> \in R => <<i, k>> \in R
    BY <1>1, <1>3, <1>4
  <2>2. IsFiniteSet(Drawable(a))
    BY DrawableIsLive
  <2> QED
    BY <2>1, <2>2, LastExists
<1>6. \A T \in SUBSET Drawable(a) : T # {} => \E i \in T : \A j \in T \ {i} : SpentBefore(a, j, i)
  BY <1>1, <1>5
<1> QED
  BY <1>6 DEF Last

(***************************************************************************)
(* Drawing: the fold of draw, set by set of what may be drawn from.        *)
(***************************************************************************)
Undrawn(a, n) == [subs |-> a.subs, left |-> n, drawn |-> {}]

DrawIs(t, a, n) ==
  t = [T \in SUBSET Drawable(a) |->
         IF T = {} THEN Undrawn(a, n) ELSE draw(t[T \ {Last(a, T)}], Last(a, T))]

Drawing(a, n) == CHOOSE t : DrawIs(t, a, n)

\* What is drawn from the wallets when spend is what the subscriptions paid.
FromWallets(a, spend) ==
  LET b      == [a EXCEPT !.subs = spend.subs]
      fromWallet == Lesser(a.tokens, spend.left)
      unpaid == spend.left - fromWallet
      rate   == paygRatePlan(b)
      inCents == IF unpaid > 0 /\ rate > 0
                 THEN Lesser(a.cents, centsForTokens(rate, unpaid)) ELSE 0
      covered == IF inCents > 0 THEN Lesser(tokensForCents(rate, inCents), unpaid) ELSE 0
  IN  [account |-> [b EXCEPT !.tokens = @ - fromWallet, !.cents = @ - inCents],
       left |-> unpaid - covered, cents |-> inCents, drawn |-> spend.drawn]

\* debit is its drawing on the subscriptions, then on the wallets.
LEMMA DebitDraws ==
  ASSUME NEW a, NEW n
  PROVE  debit(a, n) = FromWallets(a, Drawing(a, n)[Drawable(a)])
BY DEF debit, FromWallets, Drawing, DrawIs, Undrawn, Last, FoldInOrder, MapThenFoldSet

Spends(a) ==
  {sp \in [subs : Seq(SubType), left : Nat, drawn : SUBSET Drawable(a)] :
     Len(sp.subs) = Len(a.subs)}

\* A subscription that pays nothing, now or later, unless it is reset.
Exhausted(s) ==
  /\ windowActive(s) => Available(s) = 0
  /\ ~(Pending(s) /\ s.status = "active")

\* A spend in progress keeps the number of subscriptions.
LEMMA SpendIsTyped ==
  ASSUME NEW a \in AccountRecords, NEW sp \in Spends(a)
  PROVE  /\ sp.subs \in Seq(SubType) /\ sp.left \in Nat /\ sp.drawn \subseteq Drawable(a)
         /\ Len(sp.subs) = Len(a.subs) /\ DOMAIN sp.subs = DOMAIN a.subs
         /\ \A i \in DOMAIN a.subs : sp.subs[i] \in SubType
BY SubsAreTyped DEF Spends, AccountRecords

\* One step of the drawing keeps the spend typed and touches the one subscription.
LEMMA DrawOne ==
  ASSUME NEW a \in AccountRecords, NEW sp \in Spends(a), NEW i \in Drawable(a), now \in Nat
  PROVE  LET next == draw(sp, i)
         IN  /\ next \in Spends(a)
             /\ next.left <= sp.left
             /\ \A j \in DOMAIN a.subs \ {i} : next.subs[j] = sp.subs[j]
             /\ Moved(sp.subs[i], next.subs[i])
             /\ next.subs[i].used = sp.subs[i].used + (sp.left - next.left)
             /\ next.left > 0 => Exhausted(next.subs[i])
             /\ Exhausted(sp.subs[i]) => next.subs = sp.subs /\ next.left = sp.left
<1> DEFINE next == draw(sp, i)
           sub  == activateFirstUse(sp.subs[i])
           part == Paid(sp.subs[i], sp.left)
           t    == [sub EXCEPT !.used = @ + part]
<1>1. i \in DOMAIN a.subs /\ i \in DOMAIN sp.subs /\ sp.subs[i] \in SubType /\ sp.left \in Nat
  BY SpendIsTyped, DrawableIsLive
<1>2. CASE sp.left = 0
  <2>1. next = sp
    BY <1>2 DEF draw
  <2>2. Moved(sp.subs[i], sp.subs[i])
    BY <1>1 DEF Moved, SubType
  <2>3. sp.subs[i].used = sp.subs[i].used + (sp.left - sp.left)
    BY <1>1 DEF SubType
  <2> QED
    BY <1>1, <1>2, <2>1, <2>2, <2>3
<1>3. CASE sp.left # 0
  <2>1. next = [sp EXCEPT !.subs[i] = t, !.left = @ - part,
                          !.drawn = IF part > 0 THEN @ \cup {i} ELSE @]
    BY <1>3 DEF draw, Paid
  <2>2. /\ part \in Nat /\ part <= sp.left
        /\ Moved(sp.subs[i], t) /\ t.used = sp.subs[i].used + part
        /\ ~(Pending(t) /\ t.status = "active")
        /\ sp.left - part > 0 /\ windowActive(t) => Available(t) = 0
        /\ Exhausted(sp.subs[i]) => part = 0 /\ t = sp.subs[i]
    BY <1>1, DrawMoves DEF Exhausted
  <2> HIDE DEF next, t, part, sub
  <2>3. t \in SubType
    BY <2>2 DEF Moved
  <2>4. /\ next.subs = [sp.subs EXCEPT ![i] = t] /\ next.left = sp.left - part
        /\ next.drawn = IF part > 0 THEN sp.drawn \cup {i} ELSE sp.drawn
    BY <2>1 DEF Spends
  <2>5. next.subs \in Seq(SubType) /\ Len(next.subs) = Len(sp.subs)
    BY <1>1, <2>3, <2>4, SpendIsTyped
  <2>6. next.left \in Nat /\ next.drawn \subseteq Drawable(a) /\ next.left <= sp.left
    BY <1>1, <2>2, <2>4, SpendIsTyped
  <2>7. next \in Spends(a)
    BY <2>1, <2>5, <2>6 DEF Spends
  <2>8. next.subs[i] = t /\ \A j \in DOMAIN a.subs \ {i} : next.subs[j] = sp.subs[j]
    BY <1>1, <2>4, SpendIsTyped
  <2>9. sp.left - next.left = part
    BY <1>1, <2>2, <2>4
  <2>10. next.left > 0 => Exhausted(t)
    BY <2>2, <2>4 DEF Exhausted
  <2>11. Exhausted(sp.subs[i]) => next.subs = sp.subs /\ next.left = sp.left
    BY <1>1, <2>2, <2>4, SpendIsTyped
  <2> QED
    BY <2>2, <2>6, <2>7, <2>8, <2>9, <2>10, <2>11 DEF next
<1> QED
  BY <1>2, <1>3

-----------------------------------------------------------------------------
(***************************************************************************)
(* The drawing as a fold over what pays.                                   *)
(***************************************************************************)
\* The drawing is what its recursion says.
LEMMA DrawingExists ==
  ASSUME NEW a \in AccountRecords, NEW n \in Nat, now \in Nat
  PROVE  DrawIs(Drawing(a, n), a, n) /\ Drawing(a, n) \in [SUBSET Drawable(a) -> Spends(a)]
<1> DEFINE S == Drawable(a)
           V == Spends(a)
           pick == [T \in SUBSET S |-> Last(a, T)]
           step == [i \in S |-> [v \in V |-> draw(v, i)]]
<1>1. IsFiniteSet(S) /\ \A T \in SUBSET S : T # {} => Last(a, T) \in T
  BY DrawableIsLive, LastIsAMember
<1>2. Undrawn(a, n) \in V
  BY DEF Undrawn, Spends, AccountRecords
<1>3. \A i \in S, v \in V : draw(v, i) \in V
  BY DrawOne
<1> HIDE DEF S, V
<1>4. step \in [S -> [V -> V]]
  BY <1>3
<1>5. \A T \in SUBSET S : T # {} => pick[T] \in T
  BY <1>1
<1>6. PICK t \in [SUBSET S -> V] : Solves(t, SUBSET S, Undrawn(a, n), pick, step)
  <2> DEFINE base == Undrawn(a, n)
  <2>1. base \in V /\ IsFiniteSet(S) /\ step \in [S -> [V -> V]]
    BY <1>1, <1>2, <1>4
  <2> HIDE DEF pick, step, base
  <2>2. \E t \in [SUBSET S -> V] : Solves(t, SUBSET S, base, pick, step)
    BY <1>5, <2>1, FoldExists
  <2> QED
    BY <2>2 DEF base
<1>7. ASSUME NEW T \in SUBSET S
      PROVE  t[T] = IF T = {} THEN Undrawn(a, n) ELSE draw(t[T \ {Last(a, T)}], Last(a, T))
  <2>1. T # {} => Last(a, T) \in S /\ t[T \ {Last(a, T)}] \in V /\ pick[T] = Last(a, T)
    BY <1>1
  <2>2. T # {} => step[Last(a, T)][t[T \ {Last(a, T)}]] = draw(t[T \ {Last(a, T)}], Last(a, T))
    BY <2>1
  <2> QED
    BY <1>6, <2>1, <2>2 DEF Solves
<1>8. DrawIs(t, a, n)
  BY <1>7 DEF DrawIs, S
<1>9. DrawIs(Drawing(a, n), a, n)
  BY <1>8 DEF Drawing
<1>10. ASSUME NEW u, DrawIs(u, a, n)
       PROVE  u \in [SUBSET S -> V]
  <2> DEFINE Good == {T \in SUBSET S : u[T] \in V}
  <2>1. ASSUME NEW T \in SUBSET S, \A x \in T : T \ {x} \in Good
        PROVE  T \in Good
    <3>1. u[T] = IF T = {} THEN Undrawn(a, n) ELSE draw(u[T \ {Last(a, T)}], Last(a, T))
      BY <1>10 DEF DrawIs, S
    <3>2. T # {} => Last(a, T) \in S /\ u[T \ {Last(a, T)}] \in V
      BY <1>1, <2>1
    <3> QED
      BY <1>2, <1>3, <3>1, <3>2
  <2>2. \A T \in SUBSET S : T \in Good
    <3> HIDE DEF Good
    <3> QED
      BY <1>1, <2>1, SubsetInduction
  <2>3. u = [T \in SUBSET S |-> u[T]]
    BY <1>10 DEF DrawIs, S
  <2> QED
    BY <2>2, <2>3
<1> QED
  BY <1>9, <1>10 DEF S, V

\* The tokens used of a sequence of subscriptions.
UsedOf(subs) == SumFunctionOnSet([i \in DOMAIN subs |-> subs[i].used], DOMAIN subs)

\* What was used of all allowances is a sum over the subscriptions.
LEMMA UsedIsUsedOf ==
  ASSUME NEW a
  PROVE  Used(a) = UsedOf(a.subs)
BY DEF Used, UsedOf, SumFunction

\* What was used is a natural.
LEMMA UsedType ==
  ASSUME NEW a \in AccountRecords, NEW sp \in Spends(a)
  PROVE  UsedOf(sp.subs) \in Nat
<1>1. DOMAIN sp.subs = DOMAIN a.subs /\ IsFiniteSet(DOMAIN a.subs)
  BY SpendIsTyped, SubsAreTyped
<1>2. \A i \in DOMAIN sp.subs : [j \in DOMAIN sp.subs |-> sp.subs[j].used][i] \in Nat
  BY <1>1, SpendIsTyped DEF SubType
<1> QED
  BY <1>1, <1>2, SumOfNat DEF UsedOf

\* A draw moves tokens from what is left to what is used.
LEMMA DrawBalances ==
  ASSUME NEW a \in AccountRecords, NEW sp \in Spends(a), NEW i \in Drawable(a), now \in Nat
  PROVE  UsedOf(draw(sp, i).subs) + draw(sp, i).left = UsedOf(sp.subs) + sp.left
<1> DEFINE next == draw(sp, i)
           f == [j \in DOMAIN sp.subs |-> sp.subs[j].used]
           g == [j \in DOMAIN next.subs |-> next.subs[j].used]
           S == DOMAIN a.subs
<1>1. next \in Spends(a)
  BY DrawOne
<1>2. DOMAIN sp.subs = S /\ DOMAIN next.subs = S /\ IsFiniteSet(S) /\ i \in S
  BY <1>1, SpendIsTyped, SubsAreTyped, DrawableIsLive
<1>3. \A j \in S : f[j] \in Int /\ g[j] \in Int
  <2>1. \A j \in S : sp.subs[j] \in SubType /\ next.subs[j] \in SubType
    BY <1>1, SpendIsTyped
  <2> HIDE DEF next
  <2> QED
    BY <1>2, <2>1 DEF SubType
<1>4. \A j \in S \ {i} : g[j] = f[j]
  <2>1. \A j \in S \ {i} : next.subs[j] = sp.subs[j]
    BY DrawOne
  <2> QED
    BY <1>2, <2>1
<1>5. g[i] = f[i] + (sp.left - next.left)
  <2>1. next.subs[i].used = sp.subs[i].used + (sp.left - next.left)
    BY DrawOne
  <2> QED
    BY <1>2, <2>1
<1>6. UsedOf(next.subs) = SumFunctionOnSet(g, S) /\ UsedOf(sp.subs) = SumFunctionOnSet(f, S)
  BY <1>2 DEF UsedOf
<1> HIDE DEF f, g
<1>7. SumFunctionOnSet(g, S) = SumFunctionOnSet(f, S) + g[i] - f[i]
  BY <1>2, <1>3, <1>4, SumChange
<1>8. SumFunctionOnSet(f, S) \in Int
  BY <1>2, <1>3, SumType
<1>9. sp.left \in Nat /\ next.left \in Nat
  BY <1>1, SpendIsTyped
<1> HIDE DEF next
<1>10. UsedOf(next.subs) + next.left = UsedOf(sp.subs) + sp.left
  BY <1>2, <1>3, <1>5, <1>6, <1>7, <1>8, <1>9
<1> QED
  BY <1>10 DEF next

\* What is known of sp when n was drawn from the members of T.
Drawn(sp, a, n, T) ==
  /\ \A i \in DOMAIN a.subs : Moved(a.subs[i], sp.subs[i])
  /\ \A i \in DOMAIN a.subs \ T : sp.subs[i] = a.subs[i]
  /\ sp.left <= n
  /\ UsedOf(sp.subs) + sp.left = UsedOf(a.subs) + n
  /\ sp.left > 0 => \A i \in T : Exhausted(sp.subs[i])
  /\ (\A i \in T : Exhausted(a.subs[i])) => sp.subs = a.subs /\ sp.left = n

\* What two draws make of a subscription, one draw could.
LEMMA MovedTwice ==
  ASSUME NEW s \in SubType, NEW t \in SubType, NEW u \in SubType, Moved(s, t), Moved(t, u)
  PROVE  Moved(s, u)
BY DEF Moved, SubType

\* The whole drawing: what the subscriptions paid and what is left add up to what was
\* asked, and nothing is left unless everything that could pay is exhausted.
LEMMA DrawingDraws ==
  ASSUME NEW a \in AccountRecords, NEW n \in Nat, now \in Nat
  PROVE  /\ Drawing(a, n)[Drawable(a)] \in Spends(a)
         /\ Drawn(Drawing(a, n)[Drawable(a)], a, n, Drawable(a))
<1> DEFINE S == Drawable(a)
           t == Drawing(a, n)
           Good == {T \in SUBSET S : Drawn(t[T], a, n, T)}
<1>1. /\ DrawIs(t, a, n) /\ t \in [SUBSET S -> Spends(a)]
      /\ \A T \in SUBSET S : T # {} => Last(a, T) \in T
      /\ IsFiniteSet(S) /\ S \subseteq DOMAIN a.subs
  BY DrawingExists, LastIsAMember, DrawableIsLive
<1>2. ASSUME NEW T \in SUBSET S, \A x \in T : T \ {x} \in Good
      PROVE  T \in Good
  <2>1. CASE T = {}
    <3>1. t[T] = Undrawn(a, n)
      BY <1>1, <2>1 DEF DrawIs
    <3>2. t[T].subs = a.subs /\ t[T].left = n
      BY <3>1 DEF Undrawn
    <3>3. \A i \in DOMAIN a.subs : Moved(a.subs[i], a.subs[i])
      BY SubsAreTyped DEF Moved, SubType
    <3> HIDE DEF t
    <3> QED
      BY <2>1, <3>2, <3>3 DEF Drawn
  <2>2. CASE T # {}
    <3> DEFINE i == Last(a, T)
               sp == t[T \ {i}]
               next == t[T]
    <3>1. i \in T /\ i \in S /\ next = draw(sp, i)
      BY <1>1, <2>2 DEF DrawIs
    <3>2. sp \in Spends(a) /\ next \in Spends(a) /\ Drawn(sp, a, n, T \ {i})
      <4>1. T \ {i} \in SUBSET S
        OBVIOUS
      <4>2. T \ {i} \in Good
        BY <1>2, <3>1
      <4> QED
        BY <1>1, <4>1, <4>2
    <3> HIDE DEF i, sp, next, t
    <3>3. /\ next.left <= sp.left
          /\ \A j \in DOMAIN a.subs \ {i} : next.subs[j] = sp.subs[j]
          /\ Moved(sp.subs[i], next.subs[i])
          /\ next.left > 0 => Exhausted(next.subs[i])
          /\ Exhausted(sp.subs[i]) => next.subs = sp.subs /\ next.left = sp.left
      BY <3>1, <3>2, DrawOne
    <3>4. UsedOf(next.subs) + next.left = UsedOf(a.subs) + n
      BY <3>1, <3>2, DrawBalances DEF Drawn
    <3>5. sp.left \in Nat /\ next.left \in Nat /\ next.left <= n
      BY <3>2, <3>3, SpendIsTyped DEF Drawn
    <3>6. ASSUME NEW j \in DOMAIN a.subs PROVE Moved(a.subs[j], next.subs[j])
      <4>1. Moved(a.subs[j], sp.subs[j])
        BY <3>2 DEF Drawn
      <4>2. CASE j = i
        BY <3>2, <3>3, <4>1, <4>2, MovedTwice, SpendIsTyped, SubsAreTyped
      <4>3. CASE j # i
        BY <3>3, <4>1, <4>3
      <4> QED
        BY <4>2, <4>3
    <3>7. \A j \in DOMAIN a.subs \ T : next.subs[j] = a.subs[j]
      BY <3>1, <3>2, <3>3 DEF Drawn
    <3>8. ASSUME next.left > 0, NEW j \in T PROVE Exhausted(next.subs[j])
      <4>1. CASE j = i
        BY <3>3, <3>8, <4>1
      <4>2. CASE j # i
        <5>1. sp.left > 0
          BY <3>3, <3>5, <3>8
        <5>2. Exhausted(sp.subs[j])
          BY <3>2, <4>2, <5>1 DEF Drawn
        <5> QED
          BY <1>1, <3>3, <4>2, <5>2
      <4> QED
        BY <4>1, <4>2
    <3>9. ASSUME \A j \in T : Exhausted(a.subs[j])
          PROVE  next.subs = a.subs /\ next.left = n
      <4>1. sp.subs = a.subs /\ sp.left = n
        BY <3>2, <3>9 DEF Drawn
      <4> QED
        BY <3>1, <3>3, <3>9, <4>1
    <3>10. Drawn(next, a, n, T)
      BY <3>4, <3>5, <3>6, <3>7, <3>8, <3>9 DEF Drawn
    <3> QED
      BY <3>10 DEF next
  <2> QED
    BY <2>1, <2>2
<1>3. \A T \in SUBSET S : T \in Good
  <2> HIDE DEF Good, t
  <2> QED
    BY <1>1, <1>2, SubsetInduction
<1>4. S \in SUBSET S
  OBVIOUS
<1> QED
  BY <1>1, <1>3, <1>4

(***************************************************************************)
(* Debits.                                                                 *)
(***************************************************************************)
\* A product of naturals is a natural.
LEMMA ProductType ==
  ASSUME NEW m \in Nat, NEW n \in Nat
  PROVE  m * n \in Nat
OBVIOUS

\* A quotient of naturals is a natural.
LEMMA QuotientType ==
  ASSUME NEW m \in Nat, NEW n \in Nat \ {0}
  PROVE  m \div n \in Nat
OBVIOUS

\* Tokens for cents and cents for tokens are naturals.
LEMMA MoneyType ==
  ASSUME NEW rate \in Nat, NEW m \in Nat
  PROVE  /\ centsForTokens(rate, m) \in Nat
         /\ rate > 0 => tokensForCents(rate, m) \in Nat
<1>1. Million \in Nat \ {0}
  BY NumbersAssumption
<1>2. m * rate \in Nat /\ m * Million \in Nat
  BY <1>1, ProductType
<1>3. m * rate + Million - 1 \in Nat
  BY <1>1, <1>2
<1>4. (m * rate + Million - 1) \div Million \in Nat
  BY <1>1, <1>3, QuotientType
<1>5. rate > 0 => (m * Million) \div rate \in Nat
  BY <1>2, QuotientType
<1> QED
  BY <1>4, <1>5 DEF centsForTokens, tokensForCents

\* The rate of an account is a natural.
LEMMA RateType ==
  ASSUME NEW a \in AccountRecords, plans \in [PlanIds -> PlanRecords]
  PROVE  paygRatePlan(a) \in Nat
<1> DEFINE rated == {i \in activeSubscriptions(a) : plans[a.subs[i].plan].rate > 0}
           R == {p \in rated \X rated : p[1] >= p[2]}
<1>1. rated \subseteq DOMAIN a.subs /\ IsFiniteSet(rated) /\ rated \subseteq Nat
  BY SubsAreTyped, FS_Subset
<1>2. CASE rated = {}
  BY <1>2 DEF paygRatePlan
<1>3. CASE rated # {}
  <2>1. \A i, j \in rated : <<i, j>> \in R <=> i >= j
    OBVIOUS
  <2> HIDE DEF rated, R
  <2>2. /\ \A i, j \in rated : i # j => <<i, j>> \in R \/ <<j, i>> \in R
        /\ \A i, j, k \in rated : <<i, j>> \in R /\ <<j, k>> \in R => <<i, k>> \in R
    BY <1>1, <2>1
  <2>3. \A T \in SUBSET rated : T # {} => \E i \in T : \A j \in T \ {i} : <<j, i>> \in R
    BY <1>1, <2>2, LastExists
  <2>4. PICK i \in rated : \A j \in rated \ {i} : <<j, i>> \in R
    <3>1. rated \in SUBSET rated
      OBVIOUS
    <3> QED
      BY <1>3, <2>3, <3>1
  <2>5. \A j \in rated : i <= j
    <3> TAKE j \in rated
    <3>1. CASE j = i
      BY <1>1, <3>1
    <3>2. CASE j # i
      BY <1>1, <2>1, <2>4, <3>2
    <3> QED
      BY <3>1, <3>2
  <2> DEFINE first == CHOOSE k \in rated : \A j \in rated : k <= j
  <2>6. first \in rated
    BY <2>5
  <2>7. a.subs[first] \in SubType
    BY <1>1, <2>6, SubsAreTyped
  <2>8. plans[a.subs[first].plan].rate \in Nat
    <3> HIDE DEF first
    <3> QED
      BY <2>7 DEF SubType, PlanRecords
  <2>9. paygRatePlan(a) = plans[a.subs[first].plan].rate
    BY <1>3 DEF paygRatePlan, rated
  <2> QED
    BY <2>8, <2>9
<1> QED
  BY <1>2, <1>3

\* What debit takes from the wallets: tokens first, cents for what is unpaid, and
\* nothing from either while an allowance has paid all.
LEMMA DebitPays ==
  ASSUME NEW a \in AccountRecords, NEW n \in Nat, now \in Nat,
         plans \in [PlanIds -> PlanRecords]
  PROVE  LET sp   == Drawing(a, n)[Drawable(a)]
             paid == debit(a, n)
             b    == paid.account
         IN  /\ b = [a EXCEPT !.subs = sp.subs, !.tokens = b.tokens, !.cents = b.cents]
             /\ b \in AccountRecords
             /\ b.tokens <= a.tokens /\ b.cents = a.cents - paid.cents
             /\ paid.cents \in Nat /\ paid.cents <= a.cents
             /\ paid.left \in Nat /\ paid.left <= n
             /\ paid.drawn \subseteq Drawable(a)
             /\ paid.left + (a.tokens - b.tokens) <= sp.left
             /\ paid.cents = 0 => paid.left + (a.tokens - b.tokens) = sp.left
             /\ b.tokens < a.tokens \/ paid.cents > 0 => sp.left > 0
             /\ a.tokens = 0 /\ a.cents = 0 => paid.left = sp.left
<1> DEFINE sp == Drawing(a, n)[Drawable(a)]
           c == [a EXCEPT !.subs = sp.subs]
           fromWallet == Lesser(a.tokens, sp.left)
           unpaid == sp.left - fromWallet
           rate   == paygRatePlan(c)
           inCents == IF unpaid > 0 /\ rate > 0
                      THEN Lesser(a.cents, centsForTokens(rate, unpaid)) ELSE 0
           covered == IF inCents > 0 THEN Lesser(tokensForCents(rate, inCents), unpaid) ELSE 0
           paid == debit(a, n)
           b    == paid.account
<1>1. sp \in Spends(a) /\ sp.left <= n
  BY DrawingDraws DEF Drawn
<1>2. sp.subs \in Seq(SubType) /\ sp.left \in Nat /\ sp.drawn \subseteq Drawable(a)
  BY <1>1, SpendIsTyped
<1>3. a.tokens \in Nat /\ a.cents \in Nat
  BY DEF AccountRecords
<1>4. paid = [account |-> [c EXCEPT !.tokens = @ - fromWallet, !.cents = @ - inCents],
              left |-> unpaid - covered, cents |-> inCents, drawn |-> sp.drawn]
  BY DebitDraws DEF FromWallets
<1> HIDE DEF sp, paid
<1>5. c \in AccountRecords
  BY <1>2 DEF AccountRecords
<1>6. rate \in Nat
  BY <1>5, RateType
<1>7. fromWallet \in Nat /\ fromWallet <= a.tokens /\ fromWallet <= sp.left
      /\ unpaid \in Nat
  <2>1. fromWallet \in Nat /\ fromWallet <= a.tokens /\ fromWallet <= sp.left
    BY <1>2, <1>3, LesserType
  <2> HIDE DEF fromWallet
  <2> QED
    BY <1>2, <2>1
<1> HIDE DEF rate, fromWallet
<1>8. inCents \in Nat /\ inCents <= a.cents /\ (inCents > 0 => unpaid > 0 /\ rate > 0)
  <2>1. centsForTokens(rate, unpaid) \in Nat
    BY <1>6, <1>7, MoneyType
  <2>2. LET part == Lesser(a.cents, centsForTokens(rate, unpaid))
        IN  part \in Nat /\ part <= a.cents
    BY <1>3, <2>1, LesserType
  <2> HIDE DEF unpaid
  <2> QED
    BY <1>3, <1>6, <1>7, <2>2
<1> HIDE DEF inCents
<1>9. covered \in Nat /\ covered <= unpaid /\ (covered > 0 => inCents > 0)
  <2>1. inCents > 0 => tokensForCents(rate, inCents) \in Nat
    BY <1>6, <1>8, MoneyType
  <2> HIDE DEF unpaid
  <2> QED
    BY <1>7, <2>1, LesserType
<1> HIDE DEF covered
<1>10. b = [a EXCEPT !.subs = sp.subs, !.tokens = a.tokens - fromWallet, !.cents = a.cents - inCents]
  BY <1>4 DEF AccountRecords
<1>11. a.tokens - fromWallet \in Nat /\ a.cents - inCents \in Nat
  BY <1>3, <1>7, <1>8
<1>12. b \in AccountRecords
  BY <1>2, <1>10, <1>11 DEF AccountRecords
<1>13. b.tokens = a.tokens - fromWallet /\ b.cents = a.cents - inCents
  BY <1>10 DEF AccountRecords
<1>14. b = [a EXCEPT !.subs = sp.subs, !.tokens = b.tokens, !.cents = b.cents]
  BY <1>10, <1>13
<1>15. paid.left = unpaid - covered /\ paid.cents = inCents /\ paid.drawn = sp.drawn
  BY <1>4
<1>16. a.tokens - b.tokens = fromWallet
  BY <1>3, <1>7, <1>13
<1>17. /\ b.tokens <= a.tokens /\ b.cents = a.cents - paid.cents
       /\ paid.cents \in Nat /\ paid.cents <= a.cents
       /\ paid.left \in Nat /\ paid.left <= n
       /\ paid.drawn \subseteq Drawable(a)
  <2>1. unpaid <= sp.left
    BY <1>2, <1>7
  <2> HIDE DEF b, unpaid
  <2>2. b.tokens <= a.tokens /\ b.cents = a.cents - paid.cents
    BY <1>3, <1>7, <1>13, <1>15
  <2>3. paid.cents \in Nat /\ paid.cents <= a.cents /\ paid.drawn \subseteq Drawable(a)
    BY <1>2, <1>8, <1>15
  <2>4. paid.left \in Nat /\ paid.left <= n
    BY <1>1, <1>2, <1>7, <1>9, <1>15, <2>1
  <2> QED
    BY <2>2, <2>3, <2>4
<1>18. /\ paid.left + (a.tokens - b.tokens) <= sp.left
       /\ paid.cents = 0 => paid.left + (a.tokens - b.tokens) = sp.left
       /\ b.tokens < a.tokens \/ paid.cents > 0 => sp.left > 0
       /\ a.tokens = 0 /\ a.cents = 0 => paid.left = sp.left
  <2> HIDE DEF b
  <2>1. paid.left + (a.tokens - b.tokens) = sp.left - covered
    BY <1>2, <1>7, <1>9, <1>15, <1>16
  <2>2. paid.left + (a.tokens - b.tokens) <= sp.left
    BY <1>2, <1>9, <2>1
  <2>3. paid.cents = 0 => paid.left + (a.tokens - b.tokens) = sp.left
    BY <1>2, <1>8, <1>9, <1>15, <2>1
  <2>4. b.tokens < a.tokens \/ paid.cents > 0 => sp.left > 0
    BY <1>2, <1>3, <1>7, <1>8, <1>13, <1>15
  <2>5. a.tokens = 0 /\ a.cents = 0 => paid.left = sp.left
    BY <1>2, <1>3, <1>7, <1>8, <1>9, <1>15
  <2> QED
    BY <2>2, <2>3, <2>4, <2>5
<1> QED
  BY <1>12, <1>14, <1>17, <1>18 DEF sp, paid

(***************************************************************************)
(* The ledger.                                                             *)
(***************************************************************************)
OfSource(L, source) == {e \in L : e.source = source}

TokensOf(L, source) == SumFunctionOnSet([e \in L |-> e.tokens], OfSource(L, source))
CentsOf(L, source)  == SumFunctionOnSet([e \in L |-> e.cents], OfSource(L, source))

\* What an entry adds to the sums of its source.
LEMMA SumsAdd ==
  ASSUME NEW L, L \subseteq Entries, IsFiniteSet(L), NEW x \in Entries, x \notin L, NEW source
  PROVE  /\ x.source = source =>
              /\ TokensOf(L \cup {x}, source) = TokensOf(L, source) + x.tokens
              /\ CentsOf(L \cup {x}, source) = CentsOf(L, source) + x.cents
         /\ x.source # source =>
              /\ TokensOf(L \cup {x}, source) = TokensOf(L, source)
              /\ CentsOf(L \cup {x}, source) = CentsOf(L, source)
<1> DEFINE S == OfSource(L, source)
           ft == [e \in L |-> e.tokens]
           gt == [e \in L \cup {x} |-> e.tokens]
           fc == [e \in L |-> e.cents]
           gc == [e \in L \cup {x} |-> e.cents]
<1>1. IsFiniteSet(S) /\ x \notin S
  BY FS_Subset DEF OfSource
<1>2. /\ \A e \in S : ft[e] \in Int /\ gt[e] = ft[e]
      /\ \A e \in S : fc[e] \in Int /\ gc[e] = fc[e]
  BY DEF Entries, OfSource
<1>3. /\ gt[x] = x.tokens /\ gt[x] \in Int
      /\ gc[x] = x.cents /\ gc[x] \in Int
  BY DEF Entries
<1>4. /\ TokensOf(L, source) = SumFunctionOnSet(ft, S)
      /\ TokensOf(L \cup {x}, source) = SumFunctionOnSet(gt, OfSource(L \cup {x}, source))
      /\ CentsOf(L, source) = SumFunctionOnSet(fc, S)
      /\ CentsOf(L \cup {x}, source) = SumFunctionOnSet(gc, OfSource(L \cup {x}, source))
  BY DEF TokensOf, CentsOf
<1>5. /\ x.source = source => OfSource(L \cup {x}, source) = S \cup {x}
      /\ x.source # source => OfSource(L \cup {x}, source) = S
  BY DEF OfSource
<1> HIDE DEF S, ft, gt, fc, gc
<1>6. /\ SumFunctionOnSet(gt, S) = SumFunctionOnSet(ft, S)
      /\ SumFunctionOnSet(ft, S) \in Int
  BY <1>1, <1>2, SumSame, SumType
<1>7. /\ SumFunctionOnSet(gc, S) = SumFunctionOnSet(fc, S)
      /\ SumFunctionOnSet(fc, S) \in Int
  BY <1>1, <1>2, SumSame, SumType
<1>8. SumFunctionOnSet(gt, S \cup {x}) = gt[x] + SumFunctionOnSet(gt, S)
  <2>1. \A e \in S \cup {x} : gt[e] \in Int
    BY <1>2, <1>3
  <2> QED
    BY <1>1, <2>1, SumAdd
<1>9. SumFunctionOnSet(gc, S \cup {x}) = gc[x] + SumFunctionOnSet(gc, S)
  <2>1. \A e \in S \cup {x} : gc[e] \in Int
    BY <1>2, <1>3
  <2> QED
    BY <1>1, <2>1, SumAdd
<1>10. /\ SumFunctionOnSet(gt, S \cup {x}) = SumFunctionOnSet(ft, S) + x.tokens
       /\ SumFunctionOnSet(gc, S \cup {x}) = SumFunctionOnSet(fc, S) + x.cents
  BY <1>3, <1>6, <1>7, <1>8, <1>9
<1> QED
  BY <1>4, <1>5, <1>6, <1>7, <1>10

\* The sums of a ledger are naturals.
LEMMA SumsType ==
  ASSUME NEW L, L \subseteq Entries, IsFiniteSet(L), NEW source
  PROVE  TokensOf(L, source) \in Nat /\ CentsOf(L, source) \in Nat
<1> DEFINE S == OfSource(L, source)
           ft == [e \in L |-> e.tokens]
           fc == [e \in L |-> e.cents]
<1>1. IsFiniteSet(S) /\ \A e \in S : ft[e] \in Nat /\ fc[e] \in Nat
  BY FS_Subset DEF OfSource, Entries
<1>2. SumFunctionOnSet(ft, S) \in Nat /\ SumFunctionOnSet(fc, S) \in Nat
  <2> HIDE DEF S, ft, fc
  <2> QED
    BY <1>1, SumOfNat
<1> QED
  BY <1>2 DEF TokensOf, CentsOf

\* An entry that is new.
LEMMA Recorded ==
  ASSUME NEW a, NEW x, ~HasEntry(a, x.source, x.ref)
  PROVE  recordLedger(a, x) = [a EXCEPT !.ledger = a.ledger \cup {x}] /\ x \notin a.ledger
BY DEF recordLedger, HasEntry

(***************************************************************************)
(* What one settled row makes of the account.                              *)
(***************************************************************************)
MeterRecords ==
  [state : {"absent", "reserved", "settled", "released", "deleted"}, units : Nat, at : Nat]

Typed ==
  /\ plans \in [PlanIds -> PlanRecords]
  /\ meter \in [Events -> MeterRecords]
  /\ now \in Nat

\* The account a charged with the row u becomes b: the subscriptions paid what
\* makes them sp, the wallet taken tokens and cts cents, left is unfunded.
Charged(a, b, u, sp, left, taken, cts) ==
  LET n == meter[u].units
  IN  /\ sp \in Spends(a) /\ Drawn(sp, a, n, Drawable(a))
      /\ left \in Nat /\ left <= n
      /\ taken \in Nat /\ taken <= a.tokens
      /\ cts \in Nat /\ cts <= a.cents
      /\ left + taken <= sp.left
      /\ cts = 0 => left + taken = sp.left
      /\ taken > 0 \/ cts > 0 => sp.left > 0
      /\ b \in AccountRecords
      /\ DOMAIN b.subs = DOMAIN a.subs
      /\ \A i \in DOMAIN a.subs :
           \/ b.subs[i] = sp.subs[i]
           \/ i \in activeSubscriptions(a) /\ b.subs[i] = [sp.subs[i] EXCEPT !.status = "past_due"]
      /\ b.tokens = a.tokens - taken /\ b.cents = a.cents - cts
      /\ left = 0 => b.ledger = a.ledger \cup {Entry("usage", u, n - left, cts)}
      /\ left # 0 => b.ledger = (a.ledger \cup {Entry("usage", u, n - left, cts)})
                                   \cup {Entry("unfunded", u, left, 0)}
      /\ b.cursor = a.cursor /\ b.envelope = a.envelope /\ b.restored = a.restored

\* An entry of the ledger and its fields.
LEMMA EntryType ==
  ASSUME NEW source \in Sources, NEW ref \in Refs, NEW m \in Nat, NEW c \in Nat
  PROVE  /\ Entry(source, ref, m, c) \in Entries
         /\ Entry(source, ref, m, c).source = source /\ Entry(source, ref, m, c).ref = ref
         /\ Entry(source, ref, m, c).tokens = m /\ Entry(source, ref, m, c).cents = c
BY DEF Entry, Entries

\* Marking past due changes the status of live subscriptions, nothing else.
LEMMA MarkingMarks ==
  ASSUME NEW a \in AccountRecords, NEW drawn, drawn \subseteq activeSubscriptions(a)
  PROVE  LET b == MarkPastDue(a, drawn)
         IN  /\ b \in AccountRecords
             /\ b = [a EXCEPT !.subs = b.subs]
             /\ DOMAIN b.subs = DOMAIN a.subs
             /\ \A i \in DOMAIN a.subs :
                  \/ b.subs[i] = a.subs[i]
                  \/ i \in activeSubscriptions(a) /\ b.subs[i] = [a.subs[i] EXCEPT !.status = "past_due"]
<1> DEFINE live == activeSubscriptions(a)
           due  == IF drawn # {} THEN drawn ELSE {i \in live : \A j \in live : j <= i}
           subs == [i \in DOMAIN a.subs |->
                      IF i \in due THEN [a.subs[i] EXCEPT !.status = "past_due"] ELSE a.subs[i]]
           b == MarkPastDue(a, drawn)
<1>1. due \subseteq live
  OBVIOUS
<1>2. b = [a EXCEPT !.subs = subs]
  BY DEF MarkPastDue, AccountRecords
<1> HIDE DEF due, b
<1>3. \A i \in DOMAIN a.subs : subs[i] \in SubType
  <2> TAKE i \in DOMAIN a.subs
  <2>1. a.subs[i] \in SubType
    BY SubsAreTyped
  <2>2. [a.subs[i] EXCEPT !.status = "past_due"] \in SubType
    BY <2>1 DEF SubType
  <2> QED
    BY <2>1, <2>2
<1>4. subs \in Seq(SubType)
  <2>1. DOMAIN a.subs = 1 .. Len(a.subs) /\ Len(a.subs) \in Nat
    BY SubsAreTyped
  <2>2. subs \in [1 .. Len(a.subs) -> SubType]
    BY <1>3, <2>1
  <2> HIDE DEF subs
  <2> QED
    BY <2>1, <2>2
<1>5. \A i \in DOMAIN a.subs :
        \/ subs[i] = a.subs[i]
        \/ i \in live /\ subs[i] = [a.subs[i] EXCEPT !.status = "past_due"]
  BY <1>1
<1>6. DOMAIN subs = DOMAIN a.subs
  OBVIOUS
<1> HIDE DEF subs
<1>7. b \in AccountRecords /\ b.subs = subs
  BY <1>2, <1>4 DEF AccountRecords
<1> QED
  BY <1>2, <1>5, <1>6, <1>7 DEF b

\* applyUsage charges the account with the row, as Charged says.
LEMMA UsageCharges ==
  ASSUME Typed, NEW a \in AccountRecords, NEW u \in Events,
         ~HasEntry(a, "usage", u), ~HasEntry(a, "unfunded", u)
  PROVE  \E sp \in Spends(a), left, taken, cts \in Nat :
           Charged(a, applyUsage(a, u), u, sp, left, taken, cts)
<1> DEFINE n    == meter[u].units
           paid == debit(a, n)
           sp   == Drawing(a, n)[Drawable(a)]
           b    == applyUsage(a, u)
<1>1. n \in Nat /\ u \in Refs
  BY DEF Typed, MeterRecords, Refs
<1>2. "usage" \in Sources /\ "unfunded" \in Sources
  BY DEF Sources
<1>3. CASE n = 0
  <2> DEFINE none == Undrawn(a, 0)
             x == Entry("usage", u, 0, 0)
  <2>1. none.subs = a.subs /\ none.left = 0 /\ none \in Spends(a)
    BY DEF Undrawn, Spends, AccountRecords
  <2>2. Drawn(none, a, n, Drawable(a))
    <3>1. \A i \in DOMAIN a.subs : Moved(a.subs[i], a.subs[i])
      BY SubsAreTyped DEF Moved, SubType
    <3> HIDE DEF none
    <3> QED
      BY <1>3, <2>1, <3>1 DEF Drawn
  <2>3. b = recordLedger(a, x)
    BY <1>3 DEF applyUsage
  <2>4. x \in Entries /\ x.source = "usage" /\ x.ref = u
    BY <1>1, <1>2, EntryType
  <2> HIDE DEF x, none, b
  <2>5. b = [a EXCEPT !.ledger = a.ledger \cup {x}]
    BY <2>3, <2>4, Recorded
  <2>6. b \in AccountRecords
    BY <2>4, <2>5 DEF AccountRecords
  <2>7. /\ b.subs = a.subs /\ b.tokens = a.tokens /\ b.cents = a.cents
        /\ b.ledger = a.ledger \cup {x}
        /\ b.cursor = a.cursor /\ b.envelope = a.envelope /\ b.restored = a.restored
    BY <2>5 DEF AccountRecords
  <2>8. a.tokens \in Nat /\ a.cents \in Nat
    BY DEF AccountRecords
  <2>9. a.tokens - 0 = a.tokens /\ a.cents - 0 = a.cents /\ 0 - 0 = 0
    BY <2>8
  <2>10. Charged(a, b, u, none, 0, 0, 0)
    BY <1>3, <2>1, <2>2, <2>6, <2>7, <2>8, <2>9 DEF Charged, x
  <2> QED
    BY <2>1, <2>10 DEF b
<1>4. CASE n # 0
  <2> DEFINE x == Entry("usage", u, n - paid.left, paid.cents)
             y == Entry("unfunded", u, paid.left, 0)
             c == paid.account
             booked == recordLedger(c, x)
             taken == a.tokens - c.tokens
  <2>1. /\ c = [a EXCEPT !.subs = sp.subs, !.tokens = c.tokens, !.cents = c.cents]
        /\ c \in AccountRecords
        /\ c.tokens <= a.tokens /\ c.cents = a.cents - paid.cents
        /\ paid.cents \in Nat /\ paid.cents <= a.cents
        /\ paid.left \in Nat /\ paid.left <= n
        /\ paid.drawn \subseteq Drawable(a)
        /\ paid.left + taken <= sp.left
        /\ paid.cents = 0 => paid.left + taken = sp.left
        /\ c.tokens < a.tokens \/ paid.cents > 0 => sp.left > 0
    BY <1>1, DebitPays DEF Typed
  <2>2. sp \in Spends(a) /\ Drawn(sp, a, n, Drawable(a))
    BY <1>1, DrawingDraws DEF Typed
  <2>3. b = IF paid.left = 0 THEN booked
            ELSE MarkPastDue(recordLedger(booked, y), paid.drawn)
    BY <1>4 DEF applyUsage
  <2> HIDE DEF n, paid, sp, b
  <2>4. /\ x \in Entries /\ x.source = "usage" /\ x.ref = u
        /\ y \in Entries /\ y.source = "unfunded" /\ y.ref = u
    <3>1. n - paid.left \in Nat
      BY <1>1, <2>1
    <3> QED
      BY <1>1, <1>2, <2>1, <3>1, EntryType
  <2> HIDE DEF x, y, c, booked
  <2>5. /\ c.subs = sp.subs /\ c.ledger = a.ledger /\ c.cursor = a.cursor
        /\ c.envelope = a.envelope /\ c.restored = a.restored
    BY <2>1 DEF AccountRecords
  <2>6. a.tokens \in Nat /\ a.cents \in Nat /\ c.tokens \in Nat /\ c.cents \in Nat
    BY <2>1 DEF AccountRecords
  <2>7. taken \in Nat /\ taken <= a.tokens /\ c.tokens = a.tokens - taken
        /\ (taken > 0 \/ paid.cents > 0 => sp.left > 0)
    BY <2>1, <2>6
  <2> HIDE DEF taken
  <2>8. booked = [c EXCEPT !.ledger = c.ledger \cup {x}]
    <3>1. ~HasEntry(c, x.source, x.ref)
      BY <2>4, <2>5 DEF HasEntry
    <3> QED
      BY <3>1, Recorded DEF booked
  <2>9. /\ booked \in AccountRecords /\ booked.subs = sp.subs
        /\ booked.ledger = a.ledger \cup {x}
        /\ booked.tokens = c.tokens /\ booked.cents = c.cents
        /\ booked.cursor = a.cursor /\ booked.envelope = a.envelope /\ booked.restored = a.restored
    BY <2>1, <2>4, <2>5, <2>8 DEF AccountRecords
  <2>10. DOMAIN sp.subs = DOMAIN a.subs
    BY <2>2, SpendIsTyped
  <2>11. CASE paid.left = 0
    <3>1. b = booked
      BY <2>3, <2>11
    <3>2. Charged(a, b, u, sp, paid.left, taken, paid.cents)
      BY <2>1, <2>2, <2>7, <2>9, <2>10, <2>11, <3>1 DEF Charged, x, n
    <3> QED
      BY <2>1, <2>2, <2>7, <3>2 DEF b
  <2>12. CASE paid.left # 0
    <3> DEFINE short == recordLedger(booked, y)
    <3>1. short = [booked EXCEPT !.ledger = booked.ledger \cup {y}]
      <4>1. ~HasEntry(booked, y.source, y.ref)
        BY <2>4, <2>9 DEF HasEntry
      <4> QED
        BY <4>1, Recorded
    <3>2. b = MarkPastDue(short, paid.drawn)
      BY <2>3, <2>12
    <3> HIDE DEF short
    <3>3. /\ short \in AccountRecords /\ short.subs = sp.subs
          /\ short.ledger = (a.ledger \cup {x}) \cup {y}
          /\ short.tokens = c.tokens /\ short.cents = c.cents
          /\ short.cursor = a.cursor /\ short.envelope = a.envelope /\ short.restored = a.restored
      BY <2>4, <2>9, <3>1 DEF AccountRecords
    <3>4. activeSubscriptions(short) = activeSubscriptions(a)
      <4>1. \A i \in DOMAIN a.subs : sp.subs[i].status = a.subs[i].status
        BY <2>2 DEF Drawn, Moved
      <4> QED
        BY <2>10, <3>3, <4>1 DEF activeSubscriptions
    <3>5. paid.drawn \subseteq activeSubscriptions(short)
      BY <2>1, <3>4, DrawableIsLive
    <3>6. /\ b \in AccountRecords
          /\ b = [short EXCEPT !.subs = b.subs]
          /\ DOMAIN b.subs = DOMAIN short.subs
          /\ \A i \in DOMAIN short.subs :
               \/ b.subs[i] = short.subs[i]
               \/ /\ i \in activeSubscriptions(short)
                  /\ b.subs[i] = [short.subs[i] EXCEPT !.status = "past_due"]
      BY <3>2, <3>3, <3>5, MarkingMarks
    <3>7. /\ b.ledger = (a.ledger \cup {x}) \cup {y}
          /\ b.tokens = c.tokens /\ b.cents = c.cents
          /\ b.cursor = a.cursor /\ b.envelope = a.envelope /\ b.restored = a.restored
      BY <3>3, <3>6 DEF AccountRecords
    <3>8. Charged(a, b, u, sp, paid.left, taken, paid.cents)
      BY <2>1, <2>2, <2>7, <2>10, <2>12, <3>3, <3>4, <3>6, <3>7 DEF Charged, x, y, n
    <3> QED
      BY <2>1, <2>2, <2>7, <3>8 DEF b
  <2> QED
    BY <2>11, <2>12
<1> QED
  BY <1>3, <1>4

-----------------------------------------------------------------------------
(***************************************************************************)
(* The strengthening.  Explained is not inductive as it stands: a charge   *)
(* needs the ledger keyed (an entry recorded is a new one), the rows       *)
(* booked (a shortfall never without its debit) and one live pass at most  *)
(* (what is drawable is all that could pay).                               *)
(***************************************************************************)
\* Entries are unique by source and reference, and one of a subscription names it.
Keyed(a) ==
  /\ IsFiniteSet(a.ledger)
  /\ \A e, f \in a.ledger : e.source = f.source /\ e.ref = f.ref => e = f
  /\ \A e \in a.ledger : e.source = "subscription" => e.ref \in DOMAIN a.subs

\* What usage debited and what it left unfunded add up to the units of a row
\* that is settled, or was.
Booked(a) ==
  /\ \A e \in a.ledger : e.source = "usage" =>
       /\ e.ref \in Events /\ meter[e.ref].state \in {"settled", "deleted"}
       /\ ~HasEntry(a, "unfunded", e.ref) => e.tokens = meter[e.ref].units
  /\ \A f \in a.ledger : f.source = "unfunded" =>
       \E e \in a.ledger : /\ e.source = "usage" /\ e.ref = f.ref
                           /\ e.tokens + f.tokens = meter[f.ref].units

\* The envelope is of a live subscription, and one pass at most is live.
Enveloped(a) ==
  /\ a.envelope # NoPlan => \E i \in activeSubscriptions(a) : a.subs[i].plan = a.envelope
  /\ \A i, j \in Rolling(a) : i = j

Sound(a) == a \in AccountRecords /\ Keyed(a) /\ Booked(a) /\ Explained(a) /\ Enveloped(a)

\* No live pass or pack has anything to pay with.
AllExhausted(a) ==
  \A i \in activeSubscriptions(a) :
    a.subs[i].method \in {"rolling_time", "token_pack"} => Exhausted(a.subs[i])

\* A charge changes no plan, method or grant, and no allowance is overdrawn.
LEMMA ChargedSubs ==
  ASSUME Typed, NEW a \in AccountRecords, NEW b, NEW u \in Events, NEW sp \in Spends(a),
         NEW left \in Nat, NEW taken \in Nat, NEW cts \in Nat,
         Charged(a, b, u, sp, left, taken, cts)
  PROVE  /\ \A i \in DOMAIN a.subs :
              /\ b.subs[i].plan = a.subs[i].plan /\ b.subs[i].method = a.subs[i].method
              /\ b.subs[i].included = a.subs[i].included
              /\ b.subs[i].used = sp.subs[i].used
              /\ a.subs[i].used <= a.subs[i].included => b.subs[i].used <= b.subs[i].included
              /\ Exhausted(sp.subs[i]) => Exhausted(b.subs[i])
         /\ activeSubscriptions(b) = activeSubscriptions(a)
         /\ Rolling(b) = Rolling(a)
<1>1. ASSUME NEW i \in DOMAIN a.subs
      PROVE  /\ b.subs[i].plan = a.subs[i].plan /\ b.subs[i].method = a.subs[i].method
             /\ b.subs[i].included = a.subs[i].included
             /\ b.subs[i].used = sp.subs[i].used
             /\ a.subs[i].used <= a.subs[i].included => b.subs[i].used <= b.subs[i].included
             /\ Exhausted(sp.subs[i]) => Exhausted(b.subs[i])
             /\ b.subs[i].status \in {"active", "past_due"}
                  <=> a.subs[i].status \in {"active", "past_due"}
  <2> DEFINE s == sp.subs[i]
             t == b.subs[i]
  <2>1. Moved(a.subs[i], s) /\ s \in SubType
    BY SpendIsTyped DEF Charged, Drawn
  <2>2. CASE t = s
    <3> HIDE DEF s, t
    <3> QED
      BY <2>1, <2>2 DEF Moved, s, t
  <2>3. CASE i \in activeSubscriptions(a) /\ t = [s EXCEPT !.status = "past_due"]
    <3>1. /\ t.plan = s.plan /\ t.method = s.method /\ t.included = s.included
          /\ t.used = s.used /\ t.duration = s.duration /\ t.activated = s.activated
          /\ t.expires = s.expires /\ t.periodEnd = s.periodEnd /\ t.status = "past_due"
          /\ t.basis = s.basis
      BY <2>1, <2>3 DEF SubType
    <3>2. a.subs[i].status \in {"active", "past_due"}
      BY <2>3 DEF activeSubscriptions
    <3> HIDE DEF s, t
    <3>3. Exhausted(s) => Exhausted(t)
      BY <3>1 DEF Exhausted, windowActive, Available
    <3> QED
      BY <2>1, <3>1, <3>2, <3>3 DEF Moved, s, t
  <2> QED
    BY <2>2, <2>3 DEF Charged
<1>2. DOMAIN b.subs = DOMAIN a.subs
  BY DEF Charged
<1>3. activeSubscriptions(b) = activeSubscriptions(a)
  BY <1>1, <1>2 DEF activeSubscriptions
<1>4. Rolling(b) = Rolling(a)
  BY <1>1, <1>3, SubsAreTyped DEF Rolling
<1> QED
  BY <1>1, <1>3, <1>4

\* Where one pass at most is live, every live pass and pack pays.
LEMMA DrawableIsAll ==
  ASSUME NEW a \in AccountRecords, Enveloped(a), NEW i \in activeSubscriptions(a),
         a.subs[i].method \in {"rolling_time", "token_pack"}
  PROVE  i \in Drawable(a)
<1>1. i \in Nat
  BY SubsAreTyped
<1>2. CASE a.subs[i].method = "rolling_time"
  <2>1. i \in Rolling(a) /\ \A j \in Rolling(a) : i = j
    BY <1>2 DEF Rolling, Enveloped
  <2> QED
    BY <1>1, <2>1 DEF Drawable, Oldest
<1>3. CASE a.subs[i].method = "token_pack"
  BY <1>3 DEF Drawable, Packs
<1> QED
  BY <1>2, <1>3

\* Wallets are touched only where no pass or pack has anything left, and nothing comes
\* back to them by another charge.
LEMMA ChargedExhausts ==
  ASSUME Typed, NEW a \in AccountRecords, NEW b, NEW u \in Events, NEW sp \in Spends(a),
         NEW left \in Nat, NEW taken \in Nat, NEW cts \in Nat,
         Charged(a, b, u, sp, left, taken, cts), Enveloped(a)
  PROVE  /\ taken > 0 \/ cts > 0 => AllExhausted(b)
         /\ AllExhausted(a) => AllExhausted(b)
<1>0. /\ \A i \in DOMAIN a.subs :
           /\ b.subs[i].method = a.subs[i].method
           /\ Exhausted(sp.subs[i]) => Exhausted(b.subs[i])
      /\ activeSubscriptions(b) = activeSubscriptions(a)
  BY ChargedSubs
<1>1. ASSUME \A i \in Drawable(a) : Exhausted(sp.subs[i])
      PROVE  AllExhausted(b)
  <2> SUFFICES ASSUME NEW i \in activeSubscriptions(b),
                      b.subs[i].method \in {"rolling_time", "token_pack"}
               PROVE  Exhausted(b.subs[i])
    BY DEF AllExhausted
  <2>1. i \in activeSubscriptions(a) /\ i \in DOMAIN a.subs
    BY <1>0, SubsAreTyped
  <2>2. a.subs[i].method \in {"rolling_time", "token_pack"}
    BY <1>0, <2>1
  <2>3. i \in Drawable(a)
    BY <2>1, <2>2, DrawableIsAll
  <2>4. Exhausted(sp.subs[i])
    BY <1>1, <2>3
  <2> QED
    BY <1>0, <2>1, <2>4
<1>2. taken > 0 \/ cts > 0 => \A i \in Drawable(a) : Exhausted(sp.subs[i])
  BY DEF Charged, Drawn
<1>3. ASSUME AllExhausted(a) PROVE \A i \in Drawable(a) : Exhausted(sp.subs[i])
  <2>1. \A i \in Drawable(a) : Exhausted(a.subs[i])
    BY <1>3, DrawableIsLive DEF AllExhausted
  <2>2. sp.subs = a.subs
    BY <2>1 DEF Charged, Drawn
  <2> QED
    BY <2>1, <2>2
<1> QED
  BY <1>1, <1>2, <1>3

\* A charge keeps the ledger keyed, the rows booked and the envelope held.
LEMMA ChargedKeeps ==
  ASSUME Typed, NEW a \in AccountRecords, NEW b, NEW u \in Events, NEW sp \in Spends(a),
         NEW left \in Nat, NEW taken \in Nat, NEW cts \in Nat,
         Charged(a, b, u, sp, left, taken, cts), Keyed(a), Booked(a), Enveloped(a),
         ~HasEntry(a, "usage", u), meter[u].state = "settled"
  PROVE  /\ Keyed(b) /\ Booked(b) /\ Enveloped(b)
         /\ Billed(b, u) /\ a.ledger \subseteq b.ledger
<1> DEFINE n == meter[u].units
           x == Entry("usage", u, n - left, cts)
           y == Entry("unfunded", u, left, 0)
<1>1. ~HasEntry(a, "unfunded", u)
  BY DEF Booked, HasEntry
<1>2. n \in Nat /\ u \in Refs /\ n - left \in Nat
  BY DEF Typed, MeterRecords, Refs, Charged
<1>3. /\ x \in Entries /\ x.source = "usage" /\ x.ref = u /\ x.tokens = n - left
      /\ y \in Entries /\ y.source = "unfunded" /\ y.ref = u /\ y.tokens = left
  <2>1. "usage" \in Sources /\ "unfunded" \in Sources /\ 0 \in Nat
    BY DEF Sources
  <2>2. /\ x \in Entries /\ x.source = "usage" /\ x.ref = u /\ x.tokens = n - left
    BY <1>2, <2>1, EntryType
  <2>3. y \in Entries /\ y.source = "unfunded" /\ y.ref = u /\ y.tokens = left
    BY <1>2, <2>1, EntryType
  <2> QED
    BY <2>2, <2>3
<1>4. /\ left = 0 => b.ledger = a.ledger \cup {x}
      /\ left # 0 => b.ledger = (a.ledger \cup {x}) \cup {y}
      /\ DOMAIN b.subs = DOMAIN a.subs
      /\ b.envelope = a.envelope
  BY DEF Charged
<1> HIDE DEF x, y
<1>5. x.tokens + y.tokens = n /\ (left = 0 => x.tokens = n)
  BY <1>2, <1>3
<1>6. Keyed(b)
  <2>1. IsFiniteSet(b.ledger)
    <3>1. IsFiniteSet(a.ledger \cup {x}) /\ IsFiniteSet((a.ledger \cup {x}) \cup {y})
      BY FS_AddElement DEF Keyed
    <3> QED
      BY <1>4, <3>1
  <2>2. ASSUME NEW e \in b.ledger, NEW f \in b.ledger, e.source = f.source, e.ref = f.ref
        PROVE  e = f
    <3>1. e \in a.ledger /\ f \in a.ledger => e = f
      BY <2>2 DEF Keyed
    <3>2. \A g \in a.ledger : ~(g.source = "usage" /\ g.ref = u)
                              /\ ~(g.source = "unfunded" /\ g.ref = u)
      BY <1>1 DEF HasEntry
    <3>3. e \in a.ledger \cup {x, y} /\ f \in a.ledger \cup {x, y}
      BY <1>4
    <3> QED
      BY <1>3, <2>2, <3>1, <3>2, <3>3
  <2>3. ASSUME NEW e \in b.ledger, e.source = "subscription"
        PROVE  e.ref \in DOMAIN b.subs
    BY <1>3, <1>4, <2>3 DEF Keyed
  <2> QED
    BY <2>1, <2>2, <2>3 DEF Keyed
<1>7. Booked(b)
  <2>1. ASSUME NEW e \in b.ledger, e.source = "usage"
        PROVE  /\ e.ref \in Events /\ meter[e.ref].state \in {"settled", "deleted"}
               /\ ~HasEntry(b, "unfunded", e.ref) => e.tokens = meter[e.ref].units
    <3>1. CASE e = x
      <4>1. left # 0 => HasEntry(b, "unfunded", u)
        BY <1>3, <1>4 DEF HasEntry
      <4> QED
        BY <1>3, <1>5, <3>1, <4>1
    <3>2. CASE e \in a.ledger
      <4>1. HasEntry(a, "unfunded", e.ref) => HasEntry(b, "unfunded", e.ref)
        BY <1>4 DEF HasEntry
      <4> QED
        BY <2>1, <3>2, <4>1 DEF Booked
    <3> QED
      BY <1>3, <1>4, <2>1, <3>1, <3>2
  <2>2. ASSUME NEW f \in b.ledger, f.source = "unfunded"
        PROVE  \E e \in b.ledger : /\ e.source = "usage" /\ e.ref = f.ref
                                   /\ e.tokens + f.tokens = meter[f.ref].units
    <3>1. CASE f = y
      <4>1. x \in b.ledger
        BY <1>4
      <4> QED
        BY <1>3, <1>5, <3>1, <4>1
    <3>2. CASE f \in a.ledger
      BY <1>4, <2>2, <3>2 DEF Booked
    <3> QED
      BY <1>3, <1>4, <2>2, <3>1, <3>2
  <2> QED
    BY <2>1, <2>2 DEF Booked
<1>8. Enveloped(b)
  <2>1. /\ activeSubscriptions(b) = activeSubscriptions(a) /\ Rolling(b) = Rolling(a)
        /\ \A i \in DOMAIN a.subs : b.subs[i].plan = a.subs[i].plan
    BY ChargedSubs
  <2> QED
    BY <1>4, <2>1, SubsAreTyped DEF Enveloped
<1>9. Billed(b, u) /\ a.ledger \subseteq b.ledger
  BY <1>3, <1>4 DEF Billed, HasEntry
<1> QED
  BY <1>6, <1>7, <1>8, <1>9

-----------------------------------------------------------------------------
(***************************************************************************)
(* Balances.                                                               *)
(***************************************************************************)
GrantedOf(subs) == SumFunctionOnSet([i \in DOMAIN subs |-> subs[i].included], DOMAIN subs)

\* The quantities of the properties are the sums of these proofs.
LEMMA SumsOf ==
  ASSUME NEW a
  PROVE  /\ \A source \in Sources : /\ Tokens(a, source) = TokensOf(a.ledger, source)
                                    /\ Cents(a, source) = CentsOf(a.ledger, source)
         /\ Used(a) = UsedOf(a.subs) /\ Granted(a) = GrantedOf(a.subs)
BY DEF Tokens, Cents, TokensOf, CentsOf, OfSource, Used, UsedOf, Granted, GrantedOf, SumFunction

\* What was used and what was granted are naturals.
LEMMA SubSumsType ==
  ASSUME NEW a \in AccountRecords
  PROVE  UsedOf(a.subs) \in Nat /\ GrantedOf(a.subs) \in Nat
<1> DEFINE f == [i \in DOMAIN a.subs |-> a.subs[i].used]
           g == [i \in DOMAIN a.subs |-> a.subs[i].included]
<1>1. /\ IsFiniteSet(DOMAIN a.subs)
      /\ \A i \in DOMAIN a.subs : f[i] \in Nat
      /\ \A i \in DOMAIN a.subs : g[i] \in Nat
  BY SubsAreTyped DEF SubType
<1> HIDE DEF f, g
<1>2. SumFunctionOnSet(f, DOMAIN a.subs) \in Nat /\ SumFunctionOnSet(g, DOMAIN a.subs) \in Nat
  BY <1>1, SumOfNat
<1> QED
  BY <1>2 DEF UsedOf, GrantedOf, f, g

\* The sums of a source are naturals.
LEMMA LedgerSumsType ==
  ASSUME NEW a \in AccountRecords, Keyed(a)
  PROVE  \A source \in Sources : /\ TokensOf(a.ledger, source) \in Nat
                                 /\ CentsOf(a.ledger, source) \in Nat
<1>1. a.ledger \subseteq Entries /\ IsFiniteSet(a.ledger)
  BY DEF AccountRecords, Keyed
<1> QED
  BY <1>1, SumsType

\* Explained, of the sums themselves.
Balanced(a) ==
  /\ TokensOf(a.ledger, "subscription") = GrantedOf(a.subs)
  /\ a.tokens <= TokensOf(a.ledger, "admin") + TokensOf(a.ledger, "payment")
  /\ CentsOf(a.ledger, "payment") = a.cents + CentsOf(a.ledger, "usage")
  /\ TokensOf(a.ledger, "admin") + TokensOf(a.ledger, "payment") + UsedOf(a.subs) + a.restored
       <= TokensOf(a.ledger, "usage") + a.tokens
  /\ CentsOf(a.ledger, "usage") = 0 =>
       TokensOf(a.ledger, "admin") + TokensOf(a.ledger, "payment") + UsedOf(a.subs) + a.restored
         = TokensOf(a.ledger, "usage") + a.tokens
  /\ \A i \in DOMAIN a.subs : a.subs[i].used <= a.subs[i].included

\* Explained is an equation between sums.
LEMMA ExplainedIsBalanced ==
  ASSUME NEW a \in AccountRecords, Keyed(a)
  PROVE  Explained(a) <=> Balanced(a)
<1>1. /\ {"subscription", "admin", "payment", "usage"} \subseteq Sources
      /\ \A source \in Sources : TokensOf(a.ledger, source) \in Nat /\ CentsOf(a.ledger, source) \in Nat
      /\ UsedOf(a.subs) \in Nat /\ GrantedOf(a.subs) \in Nat
      /\ a.tokens \in Nat /\ a.cents \in Nat /\ a.restored \in Nat
  BY SubSumsType, LedgerSumsType DEF AccountRecords, Sources
<1> DEFINE ts == TokensOf(a.ledger, "subscription")
           ta == TokensOf(a.ledger, "admin")
           tp == TokensOf(a.ledger, "payment")
           tu == TokensOf(a.ledger, "usage")
           cp == CentsOf(a.ledger, "payment")
           cu == CentsOf(a.ledger, "usage")
           used == UsedOf(a.subs)
           granted == GrantedOf(a.subs)
<1>2. /\ Tokens(a, "subscription") = ts /\ Tokens(a, "admin") = ta /\ Tokens(a, "payment") = tp
      /\ Tokens(a, "usage") = tu /\ Cents(a, "payment") = cp /\ Cents(a, "usage") = cu
      /\ Used(a) = used /\ Granted(a) = granted
  BY <1>1, SumsOf
<1>3. /\ ta \in Nat /\ tp \in Nat /\ tu \in Nat /\ cp \in Nat /\ cu \in Nat /\ used \in Nat
      /\ ts \in Nat /\ granted \in Nat
  BY <1>1
<1> HIDE DEF ts, ta, tp, tu, cp, cu, used, granted
<1>4. FromWallet(a) = ta + tp - a.tokens /\ InCents(a) = cp - a.cents
      /\ Covered(a) = tu - used - a.restored - (ta + tp - a.tokens)
  BY <1>2 DEF FromWallet, InCents, Covered
<1>5. /\ FromWallet(a) >= 0 <=> a.tokens <= ta + tp
      /\ InCents(a) = cu <=> cp = a.cents + cu
      /\ Covered(a) >= 0 <=> ta + tp + used + a.restored <= tu + a.tokens
      /\ Covered(a) = 0 <=> ta + tp + used + a.restored = tu + a.tokens
  <2>1. a.tokens \in Nat /\ a.cents \in Nat /\ a.restored \in Nat
    BY <1>1
  <2>2. FromWallet(a) >= 0 <=> a.tokens <= ta + tp
    BY <1>3, <1>4, <2>1
  <2>3. InCents(a) = cu <=> cp = a.cents + cu
    BY <1>3, <1>4, <2>1
  <2>4. Covered(a) >= 0 <=> ta + tp + used + a.restored <= tu + a.tokens
    BY <1>3, <1>4, <2>1
  <2>5. Covered(a) = 0 <=> ta + tp + used + a.restored = tu + a.tokens
    BY <1>3, <1>4, <2>1
  <2> QED
    BY <2>2, <2>3, <2>4, <2>5
<1> QED
  BY <1>2, <1>5 DEF Explained, Balanced, ts, ta, tp, tu, cp, cu, used, granted

\* What a charge adds to the sums of the ledger.
LEMMA ChargedSums ==
  ASSUME Typed, NEW a \in AccountRecords, NEW b, NEW u \in Events, NEW sp \in Spends(a),
         NEW left \in Nat, NEW taken \in Nat, NEW cts \in Nat,
         Charged(a, b, u, sp, left, taken, cts), Keyed(a), Booked(a),
         ~HasEntry(a, "usage", u)
  PROVE  /\ TokensOf(b.ledger, "usage") = TokensOf(a.ledger, "usage") + (meter[u].units - left)
         /\ CentsOf(b.ledger, "usage") = CentsOf(a.ledger, "usage") + cts
         /\ \A source \in {"subscription", "admin", "payment"} :
              /\ TokensOf(b.ledger, source) = TokensOf(a.ledger, source)
              /\ CentsOf(b.ledger, source) = CentsOf(a.ledger, source)
<1> DEFINE n == meter[u].units
           x == Entry("usage", u, n - left, cts)
           y == Entry("unfunded", u, left, 0)
           L == a.ledger
           M == a.ledger \cup {x}
<1>1. n \in Nat /\ u \in Refs /\ n - left \in Nat
  BY DEF Typed, MeterRecords, Refs, Charged
<1>2. /\ x \in Entries /\ x.source = "usage" /\ x.ref = u /\ x.tokens = n - left /\ x.cents = cts
      /\ y \in Entries /\ y.source = "unfunded" /\ y.ref = u /\ y.tokens = left
  <2>1. "usage" \in Sources /\ "unfunded" \in Sources /\ 0 \in Nat
    BY DEF Sources
  <2>2. /\ x \in Entries /\ x.source = "usage" /\ x.ref = u /\ x.tokens = n - left /\ x.cents = cts
    BY <1>1, <2>1, EntryType
  <2>3. y \in Entries /\ y.source = "unfunded" /\ y.ref = u /\ y.tokens = left
    BY <1>1, <2>1, EntryType
  <2> QED
    BY <2>2, <2>3
<1>3. /\ left = 0 => b.ledger = M
      /\ left # 0 => b.ledger = M \cup {y}
  BY DEF Charged
<1> HIDE DEF x, y
<1>4. x \notin L /\ y \notin M
  BY <1>2 DEF HasEntry, Booked
<1>5. L \subseteq Entries /\ IsFiniteSet(L)
  BY DEF AccountRecords, Keyed
<1>6. M \subseteq Entries /\ IsFiniteSet(M)
  BY <1>2, <1>5, FS_AddElement
<1>7. /\ TokensOf(M, "usage") = TokensOf(L, "usage") + (n - left)
      /\ CentsOf(M, "usage") = CentsOf(L, "usage") + cts
      /\ \A source \in {"subscription", "admin", "payment"} :
           TokensOf(M, source) = TokensOf(L, source) /\ CentsOf(M, source) = CentsOf(L, source)
  <2>1. \A source :
          /\ x.source = source =>
               /\ TokensOf(L \cup {x}, source) = TokensOf(L, source) + x.tokens
               /\ CentsOf(L \cup {x}, source) = CentsOf(L, source) + x.cents
          /\ x.source # source =>
               /\ TokensOf(L \cup {x}, source) = TokensOf(L, source)
               /\ CentsOf(L \cup {x}, source) = CentsOf(L, source)
    BY <1>2, <1>4, <1>5, SumsAdd
  <2> QED
    BY <1>2, <2>1
<1> HIDE DEF M
<1>8. \A source \in {"usage", "subscription", "admin", "payment"} :
        /\ TokensOf(M \cup {y}, source) = TokensOf(M, source)
        /\ CentsOf(M \cup {y}, source) = CentsOf(M, source)
  BY <1>2, <1>4, <1>6, SumsAdd
<1> QED
  BY <1>3, <1>7, <1>8

\* A charge keeps the account explained, whatever part the cents paid.
LEMMA ChargedExplains ==
  ASSUME Typed, NEW a \in AccountRecords, NEW b, NEW u \in Events, NEW sp \in Spends(a),
         NEW left \in Nat, NEW taken \in Nat, NEW cts \in Nat,
         Charged(a, b, u, sp, left, taken, cts), Keyed(a), Booked(a), Enveloped(a), Explained(a),
         ~HasEntry(a, "usage", u), meter[u].state = "settled"
  PROVE  Explained(b)
<1> DEFINE n == meter[u].units
<1>1. b \in AccountRecords /\ Keyed(b)
  BY ChargedKeeps DEF Charged
<1>2. Balanced(a)
  BY ExplainedIsBalanced
<1>3. DOMAIN b.subs = DOMAIN a.subs /\ DOMAIN sp.subs = DOMAIN a.subs
  BY SpendIsTyped DEF Charged
<1>4. \A i \in DOMAIN a.subs :
        /\ b.subs[i].included = a.subs[i].included
        /\ b.subs[i].used = sp.subs[i].used
        /\ a.subs[i].used <= a.subs[i].included => b.subs[i].used <= b.subs[i].included
  BY ChargedSubs
<1>5. UsedOf(b.subs) = UsedOf(sp.subs)
  <2>1. [i \in DOMAIN b.subs |-> b.subs[i].used] = [i \in DOMAIN sp.subs |-> sp.subs[i].used]
    BY <1>3, <1>4
  <2> QED
    BY <1>3, <2>1 DEF UsedOf
<1>6. GrantedOf(b.subs) = GrantedOf(a.subs)
  <2>1. [i \in DOMAIN b.subs |-> b.subs[i].included] = [i \in DOMAIN a.subs |-> a.subs[i].included]
    BY <1>3, <1>4
  <2> QED
    BY <1>3, <2>1 DEF GrantedOf
<1> DEFINE ta == TokensOf(a.ledger, "admin")
           tp == TokensOf(a.ledger, "payment")
           tu == TokensOf(a.ledger, "usage")
           cp == CentsOf(a.ledger, "payment")
           cu == CentsOf(a.ledger, "usage")
           used == UsedOf(a.subs)
           more == UsedOf(sp.subs)
<1>7. /\ TokensOf(b.ledger, "subscription") = TokensOf(a.ledger, "subscription")
      /\ TokensOf(b.ledger, "admin") = ta /\ TokensOf(b.ledger, "payment") = tp
      /\ CentsOf(b.ledger, "payment") = cp
      /\ TokensOf(b.ledger, "usage") = tu + (n - left)
      /\ CentsOf(b.ledger, "usage") = cu + cts
  BY ChargedSums
<1>8. /\ more + sp.left = used + n
      /\ left <= n /\ taken <= a.tokens /\ cts <= a.cents
      /\ left + taken <= sp.left
      /\ cts = 0 => left + taken = sp.left
      /\ b.tokens = a.tokens - taken /\ b.cents = a.cents - cts /\ b.restored = a.restored
  BY DEF Charged, Drawn
<1>9. /\ ta \in Nat /\ tp \in Nat /\ tu \in Nat /\ cp \in Nat /\ cu \in Nat
      /\ used \in Nat /\ more \in Nat /\ n \in Nat /\ sp.left \in Nat
      /\ a.tokens \in Nat /\ a.cents \in Nat /\ a.restored \in Nat
  BY LedgerSumsType, SubSumsType, UsedType, SpendIsTyped
     DEF Sources, AccountRecords, Typed, MeterRecords
<1>10. /\ a.tokens <= ta + tp
       /\ cp = a.cents + cu
       /\ ta + tp + used + a.restored <= tu + a.tokens
       /\ cu = 0 => ta + tp + used + a.restored = tu + a.tokens
  BY <1>2 DEF Balanced
<1> HIDE DEF ta, tp, tu, cp, cu, used, more, n
<1>11. b.tokens <= ta + tp
  BY <1>8, <1>9, <1>10
<1>12. cp = b.cents + (cu + cts)
  BY <1>8, <1>9, <1>10
<1>13. ta + tp + more + b.restored <= (tu + (n - left)) + b.tokens
  BY <1>8, <1>9, <1>10
<1>14. cu + cts = 0 => ta + tp + more + b.restored = (tu + (n - left)) + b.tokens
  <2> SUFFICES ASSUME cu + cts = 0
               PROVE  ta + tp + more + b.restored = (tu + (n - left)) + b.tokens
    OBVIOUS
  <2>1. cu = 0 /\ cts = 0
    BY <1>9
  <2>2. left + taken = sp.left /\ ta + tp + used + a.restored = tu + a.tokens
    BY <1>8, <1>10, <2>1
  <2>3. more + (left + taken) = used + n
    BY <1>8, <2>2
  <2>4. ta + tp + more + a.restored = (tu + (n - left)) + (a.tokens - taken)
    BY <1>9, <2>2, <2>3
  <2> QED
    BY <1>8, <2>4
<1>15. Balanced(b)
  BY <1>2, <1>3, <1>4, <1>5, <1>6, <1>7, <1>11, <1>12, <1>13, <1>14
     DEF Balanced, ta, tp, tu, cp, cu, more
<1> QED
  BY <1>1, <1>15, ExplainedIsBalanced

-----------------------------------------------------------------------------
(***************************************************************************)
(* Reconciliation, as a fold over the batch.                               *)
(***************************************************************************)
\* applyUsage keeps an account sound, bills the row, and takes from the wallets only
\* where every allowance is exhausted.
LEMMA UsageApplied ==
  ASSUME Typed, NEW a, Sound(a), NEW u \in Events, meter[u].state = "settled"
  PROVE  LET b == applyUsage(a, u)
         IN  /\ Sound(b) /\ Billed(b, u) /\ a.ledger \subseteq b.ledger
             /\ b.tokens <= a.tokens /\ b.cents <= a.cents /\ b.cursor = a.cursor
             /\ b.tokens < a.tokens \/ b.cents < a.cents => AllExhausted(b)
             /\ AllExhausted(a) => AllExhausted(b)
<1> DEFINE b == applyUsage(a, u)
<1>1. /\ a \in AccountRecords /\ Keyed(a) /\ Booked(a) /\ Explained(a) /\ Enveloped(a)
      /\ a.tokens \in Nat /\ a.cents \in Nat
  BY DEF Sound, AccountRecords
<1>2. CASE HasEntry(a, "usage", u)
  <2>1. b = a
    BY <1>2 DEF applyUsage
  <2> HIDE DEF b
  <2>2. /\ Sound(b) /\ Billed(b, u) /\ a.ledger \subseteq b.ledger
        /\ b.tokens <= a.tokens /\ b.cents <= a.cents /\ b.cursor = a.cursor
        /\ ~(b.tokens < a.tokens) /\ ~(b.cents < a.cents)
    BY <1>1, <1>2, <2>1 DEF Billed
  <2> QED
    BY <2>1, <2>2 DEF b
<1>3. CASE ~HasEntry(a, "usage", u)
  <2>1. ~HasEntry(a, "unfunded", u)
    BY <1>1, <1>3 DEF Booked, HasEntry
  <2>2. PICK sp \in Spends(a), left, taken, cts \in Nat : Charged(a, b, u, sp, left, taken, cts)
    BY <1>1, <1>3, <2>1, UsageCharges
  <2> HIDE DEF b
  <2>3. Keyed(b) /\ Booked(b) /\ Enveloped(b) /\ Billed(b, u) /\ a.ledger \subseteq b.ledger
    BY <1>1, <1>3, <2>2, ChargedKeeps
  <2>4. Explained(b)
    BY <1>1, <1>3, <2>2, ChargedExplains
  <2>5. /\ taken > 0 \/ cts > 0 => AllExhausted(b)
        /\ AllExhausted(a) => AllExhausted(b)
    BY <1>1, <2>2, ChargedExhausts
  <2>6. /\ b \in AccountRecords /\ b.tokens = a.tokens - taken /\ b.cents = a.cents - cts
        /\ b.cursor = a.cursor
    BY <2>2 DEF Charged
  <2>7. /\ b.tokens <= a.tokens /\ b.cents <= a.cents
        /\ b.tokens < a.tokens => taken > 0
        /\ b.cents < a.cents => cts > 0
    BY <1>1, <2>2, <2>6
  <2> QED
    BY <2>3, <2>4, <2>5, <2>6, <2>7 DEF Sound, b
<1> QED
  BY <1>2, <1>3

(***************************************************************************)
(* Billing: the fold of applyUsage, set by set of the selected rows.       *)
(***************************************************************************)
LastRow(T) == CHOOSE u \in T : \A v \in T \ {u} : ReservedBefore(v, u)

BillIs(t, a) ==
  t = [T \in SUBSET Selected(a) |->
         IF T = {} THEN a ELSE applyUsage(t[T \ {LastRow(T)}], LastRow(T))]

Billings(a) == CHOOSE t : BillIs(t, a)

\* The rows of a batch are finitely many, and settled.
LEMMA SelectedRows ==
  ASSUME NEW a
  PROVE  /\ Selected(a) \subseteq Events /\ IsFiniteSet(Selected(a))
         /\ Unbilled(a) \subseteq Events /\ IsFiniteSet(Unbilled(a))
         /\ \A u \in Selected(a) : meter[u].state = "settled"
<1>1. Unbilled(a) \subseteq Events /\ Selected(a) \subseteq Unbilled(a)
  BY DEF Unbilled, Selected
<1>2. IsFiniteSet(Events)
  BY NumbersAssumption
<1> QED
  BY <1>1, <1>2, FS_Subset DEF Unbilled

\* ReservedBefore is a total order on a batch, so that there is a last row.
LEMMA LastRowIsSelected ==
  ASSUME Typed, NEW a
  PROVE  \A T \in SUBSET Selected(a) : T # {} => LastRow(T) \in T
<1> DEFINE S == Selected(a)
           R == {p \in S \X S : ReservedBefore(p[1], p[2])}
<1>1. \A u, v \in S : <<u, v>> \in R <=> ReservedBefore(u, v)
  OBVIOUS
<1>2. \A u \in S : u \in Nat /\ meter[u].at \in Nat
  BY SelectedRows, NumbersAssumption DEF Typed, MeterRecords
<1>3. IsFiniteSet(S)
  BY SelectedRows
<1> HIDE DEF R, S
<1>4. /\ \A u, v \in S : u # v => <<u, v>> \in R \/ <<v, u>> \in R
      /\ \A u, v, w \in S : <<u, v>> \in R /\ <<v, w>> \in R => <<u, w>> \in R
  BY <1>1, <1>2 DEF ReservedBefore
<1>5. \A T \in SUBSET S : T # {} => \E u \in T : \A v \in T \ {u} : <<v, u>> \in R
  BY <1>3, <1>4, LastExists
<1>6. \A T \in SUBSET S : T # {} => \E u \in T : \A v \in T \ {u} : ReservedBefore(v, u)
  BY <1>1, <1>5
<1> QED
  BY <1>6 DEF LastRow, S

\* reconcile is its billing of the batch, then the move of the cursor.
LEMMA ReconcileBills ==
  ASSUME NEW a
  PROVE  reconcile(a) = [Billings(a)[Selected(a)] EXCEPT
                           !.cursor = Max({meter[u].at : u \in Selected(a)} \cup {a.cursor})]
BY DEF reconcile, FoldInOrder, MapThenFoldSet, Billings, BillIs, LastRow

\* The billing of a batch is what its recursion says, and keeps the account sound.
LEMMA BillingsExist ==
  ASSUME Typed, NEW a, Sound(a)
  PROVE  /\ BillIs(Billings(a), a)
         /\ \A T \in SUBSET Selected(a) : Sound(Billings(a)[T])
<1> DEFINE S == Selected(a)
           V == {b \in AccountRecords : Sound(b)}
           pick == [T \in SUBSET S |-> LastRow(T)]
           step == [u \in S |-> [v \in V |-> applyUsage(v, u)]]
<1>1. IsFiniteSet(S) /\ \A T \in SUBSET S : T # {} => LastRow(T) \in T
  BY SelectedRows, LastRowIsSelected
<1>2. a \in V /\ \A b : b \in V <=> Sound(b)
  BY DEF Sound
<1>3. \A u \in S, v \in V : applyUsage(v, u) \in V
  <2> HIDE DEF V
  <2> QED
    BY <1>2, SelectedRows, UsageApplied
<1> HIDE DEF S, V
<1>4. step \in [S -> [V -> V]]
  BY <1>3
<1>5. \A T \in SUBSET S : T # {} => pick[T] \in T
  BY <1>1
<1>6. PICK t \in [SUBSET S -> V] : Solves(t, SUBSET S, a, pick, step)
  <2>1. a \in V /\ IsFiniteSet(S) /\ step \in [S -> [V -> V]]
    BY <1>1, <1>2, <1>4
  <2> HIDE DEF pick, step
  <2>2. \E t \in [SUBSET S -> V] : Solves(t, SUBSET S, a, pick, step)
    BY <1>5, <2>1, FoldExists
  <2> QED
    BY <2>2
<1>7. ASSUME NEW T \in SUBSET S
      PROVE  t[T] = IF T = {} THEN a ELSE applyUsage(t[T \ {LastRow(T)}], LastRow(T))
  <2>1. T # {} => LastRow(T) \in S /\ t[T \ {LastRow(T)}] \in V /\ pick[T] = LastRow(T)
    BY <1>1
  <2>2. T # {} => step[LastRow(T)][t[T \ {LastRow(T)}]] = applyUsage(t[T \ {LastRow(T)}], LastRow(T))
    BY <2>1
  <2> QED
    BY <1>6, <2>1, <2>2 DEF Solves
<1>8. BillIs(t, a)
  BY <1>7 DEF BillIs, S
<1>9. BillIs(Billings(a), a)
  BY <1>8 DEF Billings
<1> DEFINE u == Billings(a)
           Good == {T \in SUBSET S : u[T] \in V}
<1>10. ASSUME NEW T \in SUBSET S, \A x \in T : T \ {x} \in Good
       PROVE  T \in Good
  <2>1. u[T] = IF T = {} THEN a ELSE applyUsage(u[T \ {LastRow(T)}], LastRow(T))
    BY <1>9 DEF BillIs, S
  <2>2. T # {} => LastRow(T) \in S /\ u[T \ {LastRow(T)}] \in V
    BY <1>1, <1>10
  <2> QED
    BY <1>2, <1>3, <2>1, <2>2
<1>11. \A T \in SUBSET S : T \in Good
  <2> HIDE DEF Good
  <2> QED
    BY <1>1, <1>10, SubsetInduction
<1> QED
  BY <1>2, <1>9, <1>11 DEF S

\* What holds of b when the rows of T were billed to a.
BilledTo(b, a, T) ==
  /\ \A u \in T : Billed(b, u)
  /\ a.ledger \subseteq b.ledger
  /\ b.tokens <= a.tokens /\ b.cents <= a.cents /\ b.cursor = a.cursor
  /\ b.tokens < a.tokens \/ b.cents < a.cents => AllExhausted(b)

\* Whatever part of a batch is billed is billed in full.
LEMMA BillingsBill ==
  ASSUME Typed, NEW a, Sound(a)
  PROVE  \A T \in SUBSET Selected(a) : BilledTo(Billings(a)[T], a, T)
<1> DEFINE S == Selected(a)
           t == Billings(a)
           Good == {T \in SUBSET S : BilledTo(t[T], a, T)}
<1>1. /\ BillIs(t, a) /\ \A T \in SUBSET S : Sound(t[T])
      /\ \A T \in SUBSET S : T # {} => LastRow(T) \in T
      /\ IsFiniteSet(S)
  BY BillingsExist, LastRowIsSelected, SelectedRows
<1>2. ASSUME NEW T \in SUBSET S, \A x \in T : T \ {x} \in Good
      PROVE  T \in Good
  <2>1. CASE T = {}
    <3>1. t[T] = a
      BY <1>1, <2>1 DEF BillIs
    <3>2. a.tokens \in Nat /\ a.cents \in Nat
      BY DEF Sound, AccountRecords
    <3> QED
      BY <2>1, <3>1, <3>2 DEF BilledTo
  <2>2. CASE T # {}
    <3> DEFINE u == LastRow(T)
               b == t[T \ {u}]
               c == t[T]
    <3>1. u \in T /\ u \in S /\ c = applyUsage(b, u)
      BY <1>1, <2>2 DEF BillIs
    <3>2. Sound(b) /\ Sound(c) /\ BilledTo(b, a, T \ {u})
      <4>1. T \ {u} \in SUBSET S
        OBVIOUS
      <4>2. T \ {u} \in Good
        BY <1>2, <3>1
      <4> QED
        BY <1>1, <4>1, <4>2
    <3>3. u \in Events /\ meter[u].state = "settled"
      BY <3>1, SelectedRows
    <3> HIDE DEF u, b, c, t
    <3>4. /\ Billed(c, u) /\ b.ledger \subseteq c.ledger
          /\ c.tokens <= b.tokens /\ c.cents <= b.cents /\ c.cursor = b.cursor
          /\ c.tokens < b.tokens \/ c.cents < b.cents => AllExhausted(c)
          /\ AllExhausted(b) => AllExhausted(c)
      BY <3>1, <3>2, <3>3, UsageApplied
    <3>5. \A v \in T : Billed(c, v)
      BY <3>2, <3>4 DEF BilledTo, Billed, HasEntry
    <3>6. /\ a.tokens \in Nat /\ a.cents \in Nat /\ b.tokens \in Nat /\ b.cents \in Nat
          /\ c.tokens \in Nat /\ c.cents \in Nat
      BY <3>2 DEF Sound, AccountRecords
    <3>7. BilledTo(c, a, T)
      BY <3>2, <3>4, <3>5, <3>6 DEF BilledTo
    <3> QED
      BY <3>7 DEF c
  <2> QED
    BY <2>1, <2>2
<1>3. \A T \in SUBSET S : T \in Good
  <2> HIDE DEF Good, t
  <2> QED
    BY <1>1, <1>2, SubsetInduction
<1> QED
  BY <1>3

\* A reconciliation bills what it selected and moves the cursor no further.
LEMMA Reconciled ==
  ASSUME Typed, NEW a, Sound(a)
  PROVE  LET b == reconcile(a)
         IN  /\ Sound(b)
             /\ \A u \in Selected(a) : Billed(b, u)
             /\ a.ledger \subseteq b.ledger
             /\ b.tokens < a.tokens \/ b.cents < a.cents => AllExhausted(b)
             /\ b.cursor \in {meter[u].at : u \in Selected(a)} \cup {a.cursor}
<1> DEFINE c == Billings(a)[Selected(a)]
           b == reconcile(a)
           times == {meter[u].at : u \in Selected(a)} \cup {a.cursor}
<1>1. Sound(c) /\ BilledTo(c, a, Selected(a))
  <2>1. Selected(a) \in SUBSET Selected(a)
    OBVIOUS
  <2> QED
    BY <2>1, BillingsExist, BillingsBill
<1>2. b = [c EXCEPT !.cursor = Max(times)]
  BY ReconcileBills
<1>3. Max(times) \in times /\ Max(times) \in Nat
  <2>1. times \subseteq Nat
    <3>1. \A u \in Selected(a) : meter[u].at \in Nat
      BY SelectedRows DEF Typed, MeterRecords
    <3>2. a.cursor \in Nat
      BY DEF Sound, AccountRecords
    <3> QED
      BY <3>1, <3>2
  <2>2. IsFiniteSet(times)
    <3>1. IsFiniteSet({meter[u].at : u \in Selected(a)})
      <4> DEFINE f == [u \in Selected(a) |-> meter[u].at]
      <4>1. f \in Surjection(Selected(a), {meter[u].at : u \in Selected(a)})
        BY DEF Surjection
      <4>2. IsFiniteSet(Selected(a))
        BY SelectedRows
      <4> QED
        BY <4>1, <4>2, FS_Surjection
    <3> QED
      BY <3>1, FS_AddElement
  <2> HIDE DEF times
  <2>3. times # {} /\ times \subseteq Int
    BY <2>1 DEF times
  <2> QED
    BY <2>1, <2>2, <2>3, MaxExists
<1> HIDE DEF c, b, times
<1>4. c \in AccountRecords
  BY <1>1 DEF Sound
<1>5. /\ b \in AccountRecords /\ b.cursor = Max(times) /\ b.subs = c.subs /\ b.ledger = c.ledger
      /\ b.tokens = c.tokens /\ b.cents = c.cents /\ b.restored = c.restored
      /\ b.envelope = c.envelope
  BY <1>2, <1>3, <1>4 DEF AccountRecords
<1>6. activeSubscriptions(b) = activeSubscriptions(c) /\ Rolling(b) = Rolling(c)
  BY <1>5 DEF activeSubscriptions, Rolling
<1>7. Keyed(b) /\ Booked(b) /\ Enveloped(b)
  BY <1>1, <1>5, <1>6 DEF Sound, Keyed, Booked, Enveloped, HasEntry
<1>8. Explained(b)
  <2>1. Balanced(c)
    BY <1>1, <1>4, ExplainedIsBalanced DEF Sound
  <2>2. Balanced(b)
    BY <1>5, <2>1 DEF Balanced
  <2> QED
    BY <1>5, <1>7, <2>2, ExplainedIsBalanced
<1>9. AllExhausted(c) => AllExhausted(b)
  BY <1>5, <1>6 DEF AllExhausted
<1>10. (\A u \in Selected(a) : Billed(b, u)) /\ a.ledger \subseteq b.ledger
  BY <1>1, <1>5 DEF BilledTo, Billed, HasEntry
<1>11. b.tokens < a.tokens \/ b.cents < a.cents => AllExhausted(b)
  BY <1>1, <1>5, <1>9 DEF BilledTo
<1> QED
  BY <1>3, <1>5, <1>7, <1>8, <1>10, <1>11 DEF Sound, b, times

(***************************************************************************)
(* What is bought, credited and reset.                                     *)
(***************************************************************************)
\* A new subscription adds its grant to the sums.
LEMMA SubsGrow ==
  ASSUME NEW a \in AccountRecords, NEW b \in AccountRecords,
         DOMAIN b.subs = 1 .. (Len(a.subs) + 1),
         \A i \in DOMAIN a.subs :
           b.subs[i].used = a.subs[i].used /\ b.subs[i].included = a.subs[i].included,
         b.subs[Len(a.subs) + 1].used = 0
  PROVE  /\ UsedOf(b.subs) = UsedOf(a.subs)
         /\ GrantedOf(b.subs) = GrantedOf(a.subs) + b.subs[Len(a.subs) + 1].included
<1> DEFINE S == DOMAIN a.subs
           k == Len(a.subs) + 1
           fu == [i \in DOMAIN a.subs |-> a.subs[i].used]
           gu == [i \in DOMAIN b.subs |-> b.subs[i].used]
           fi == [i \in DOMAIN a.subs |-> a.subs[i].included]
           gi == [i \in DOMAIN b.subs |-> b.subs[i].included]
<1>1. /\ IsFiniteSet(S) /\ k \notin S /\ DOMAIN b.subs = S \cup {k}
      /\ \A i \in S : a.subs[i] \in SubType
      /\ \A i \in S \cup {k} : b.subs[i] \in SubType
  BY SubsAreTyped
<1>2. /\ \A i \in S : fu[i] \in Int /\ gu[i] = fu[i]
      /\ \A i \in S \cup {k} : gu[i] \in Int
      /\ \A i \in S : fi[i] \in Int /\ gi[i] = fi[i]
      /\ \A i \in S \cup {k} : gi[i] \in Int
      /\ gu[k] = 0 /\ gi[k] = b.subs[k].included
  <2>1. \A i \in S : /\ fu[i] = a.subs[i].used /\ a.subs[i].used \in Int
                     /\ fi[i] = a.subs[i].included /\ a.subs[i].included \in Int
    <3>1. \A i \in S : a.subs[i].used \in Int /\ a.subs[i].included \in Int
      BY <1>1 DEF SubType
    <3> QED
      BY <3>1
  <2>2. \A i \in S \cup {k} : /\ gu[i] = b.subs[i].used /\ b.subs[i].used \in Int
                            /\ gi[i] = b.subs[i].included /\ b.subs[i].included \in Int
    <3>1. \A i \in S \cup {k} : b.subs[i].used \in Int /\ b.subs[i].included \in Int
      BY <1>1 DEF SubType
    <3> HIDE DEF k
    <3> QED
      BY <1>1, <3>1
  <2>3. \A i \in S : b.subs[i].used = a.subs[i].used /\ b.subs[i].included = a.subs[i].included
    OBVIOUS
  <2>4. b.subs[k].used = 0 /\ k \in S \cup {k}
    OBVIOUS
  <2> HIDE DEF S, k, fu, gu, fi, gi
  <2> QED
    BY <2>1, <2>2, <2>3, <2>4
<1>3. /\ UsedOf(a.subs) = SumFunctionOnSet(fu, S) /\ UsedOf(b.subs) = SumFunctionOnSet(gu, S \cup {k})
      /\ GrantedOf(a.subs) = SumFunctionOnSet(fi, S)
      /\ GrantedOf(b.subs) = SumFunctionOnSet(gi, S \cup {k})
  BY <1>1 DEF UsedOf, GrantedOf
<1> HIDE DEF S, k, fu, gu, fi, gi
<1>4. SumFunctionOnSet(gu, S) = SumFunctionOnSet(fu, S) /\ SumFunctionOnSet(fu, S) \in Int
  BY <1>1, <1>2, SumSame, SumType
<1>5. SumFunctionOnSet(gi, S) = SumFunctionOnSet(fi, S) /\ SumFunctionOnSet(fi, S) \in Int
  BY <1>1, <1>2, SumSame, SumType
<1>6. SumFunctionOnSet(gu, S \cup {k}) = gu[k] + SumFunctionOnSet(gu, S)
  BY <1>1, <1>2, SumAdd
<1>7. SumFunctionOnSet(gi, S \cup {k}) = gi[k] + SumFunctionOnSet(gi, S)
  BY <1>1, <1>2, SumAdd
<1>8. gi[k] \in Int
  BY <1>2
<1>9. /\ UsedOf(b.subs) = UsedOf(a.subs)
      /\ GrantedOf(b.subs) = GrantedOf(a.subs) + gi[k]
  BY <1>2, <1>3, <1>4, <1>5, <1>6, <1>7, <1>8
<1> QED
  BY <1>2, <1>9 DEF k

\* A new entry that is neither usage nor unfunded leaves usage accounted for.
LEMMA EntryKeepsUsage ==
  ASSUME NEW a \in AccountRecords, Keyed(a), Booked(a), NEW b \in AccountRecords,
         NEW x \in Entries, x.source \notin {"usage", "unfunded"}, ~HasEntry(a, x.source, x.ref),
         b.ledger = a.ledger \cup {x}, DOMAIN a.subs \subseteq DOMAIN b.subs,
         x.source = "subscription" => x.ref \in DOMAIN b.subs
  PROVE  Keyed(b) /\ Booked(b)
<1>1. Keyed(b)
  <2>1. IsFiniteSet(b.ledger)
    BY FS_AddElement DEF Keyed
  <2>2. \A e, f \in b.ledger : e.source = f.source /\ e.ref = f.ref => e = f
    BY DEF Keyed, HasEntry
  <2>3. \A e \in b.ledger : e.source = "subscription" => e.ref \in DOMAIN b.subs
    BY DEF Keyed
  <2> QED
    BY <2>1, <2>2, <2>3 DEF Keyed
<1>2. Booked(b)
  <2>1. \A ref : HasEntry(b, "unfunded", ref) <=> HasEntry(a, "unfunded", ref)
    BY DEF HasEntry
  <2>2. ASSUME NEW e \in b.ledger, e.source = "usage"
        PROVE  /\ e.ref \in Events /\ meter[e.ref].state \in {"settled", "deleted"}
               /\ ~HasEntry(b, "unfunded", e.ref) => e.tokens = meter[e.ref].units
    BY <2>1, <2>2 DEF Booked
  <2>3. ASSUME NEW f \in b.ledger, f.source = "unfunded"
        PROVE  \E e \in b.ledger : /\ e.source = "usage" /\ e.ref = f.ref
                                   /\ e.tokens + f.tokens = meter[f.ref].units
    BY <2>3 DEF Booked
  <2> QED
    BY <2>2, <2>3 DEF Booked
<1> QED
  BY <1>1, <1>2

\* The sums of a ledger with one entry more.
LEMMA SumsWith ==
  ASSUME NEW a \in AccountRecords, Keyed(a), NEW x \in Entries, ~HasEntry(a, x.source, x.ref)
  PROVE  \A source :
           /\ x.source = source =>
                /\ TokensOf(a.ledger \cup {x}, source) = TokensOf(a.ledger, source) + x.tokens
                /\ CentsOf(a.ledger \cup {x}, source) = CentsOf(a.ledger, source) + x.cents
           /\ x.source # source =>
                /\ TokensOf(a.ledger \cup {x}, source) = TokensOf(a.ledger, source)
                /\ CentsOf(a.ledger \cup {x}, source) = CentsOf(a.ledger, source)
<1>1. a.ledger \subseteq Entries /\ IsFiniteSet(a.ledger) /\ x \notin a.ledger
  BY DEF AccountRecords, Keyed, HasEntry
<1> QED
  BY <1>1, SumsAdd

\* What is granted with a new subscription is in the ledger.
LEMMA StartExplains ==
  ASSUME NEW a, Sound(a), NEW b \in AccountRecords,
         NEW x \in Entries, x.source = "subscription", x.ref = Len(a.subs) + 1, x.cents = 0,
         DOMAIN b.subs = 1 .. (Len(a.subs) + 1),
         \A i \in DOMAIN a.subs :
           b.subs[i].used = a.subs[i].used /\ b.subs[i].included = a.subs[i].included,
         b.subs[Len(a.subs) + 1].used = 0,
         b.subs[Len(a.subs) + 1].included = x.tokens,
         b.ledger = a.ledger \cup {x}, b.tokens = a.tokens, b.cents = a.cents,
         b.restored = a.restored
  PROVE  Keyed(b) /\ Booked(b) /\ Explained(b)
<1>1. a \in AccountRecords /\ Keyed(a) /\ Booked(a) /\ Explained(a)
  BY DEF Sound
<1>2. DOMAIN a.subs = 1 .. Len(a.subs) /\ Len(a.subs) \in Nat
  BY <1>1, SubsAreTyped
<1>3. ~HasEntry(a, "subscription", Len(a.subs) + 1)
  BY <1>1, <1>2 DEF HasEntry, Keyed
<1>4. Keyed(b) /\ Booked(b)
  <2>1. DOMAIN a.subs \subseteq DOMAIN b.subs /\ x.ref \in DOMAIN b.subs
    BY <1>2
  <2> QED
    BY <1>1, <1>3, <2>1, EntryKeepsUsage
<1>5. /\ UsedOf(b.subs) = UsedOf(a.subs)
      /\ GrantedOf(b.subs) = GrantedOf(a.subs) + x.tokens
  BY <1>1, SubsGrow
<1>6. /\ TokensOf(b.ledger, "subscription") = TokensOf(a.ledger, "subscription") + x.tokens
      /\ \A source \in {"admin", "payment", "usage"} :
           /\ TokensOf(b.ledger, source) = TokensOf(a.ledger, source)
           /\ CentsOf(b.ledger, source) = CentsOf(a.ledger, source)
  <2>1. \A source :
          /\ x.source = source =>
               /\ TokensOf(b.ledger, source) = TokensOf(a.ledger, source) + x.tokens
               /\ CentsOf(b.ledger, source) = CentsOf(a.ledger, source) + x.cents
          /\ x.source # source =>
               /\ TokensOf(b.ledger, source) = TokensOf(a.ledger, source)
               /\ CentsOf(b.ledger, source) = CentsOf(a.ledger, source)
    <3>1. ~HasEntry(a, x.source, x.ref)
      BY <1>3
    <3>2. b.ledger = a.ledger \cup {x}
      OBVIOUS
    <3>3. \A source :
            /\ x.source = source =>
                 /\ TokensOf(a.ledger \cup {x}, source) = TokensOf(a.ledger, source) + x.tokens
                 /\ CentsOf(a.ledger \cup {x}, source) = CentsOf(a.ledger, source) + x.cents
            /\ x.source # source =>
                 /\ TokensOf(a.ledger \cup {x}, source) = TokensOf(a.ledger, source)
                 /\ CentsOf(a.ledger \cup {x}, source) = CentsOf(a.ledger, source)
      BY <1>1, <3>1, SumsWith
    <3> QED
      BY <3>2, <3>3
  <2> QED
    BY <2>1
<1>7. \A i \in DOMAIN b.subs : b.subs[i].used <= b.subs[i].included
  <2> TAKE i \in DOMAIN b.subs
  <2>1. CASE i \in DOMAIN a.subs
    BY <1>1, <2>1 DEF Explained
  <2>2. CASE i = Len(a.subs) + 1
    <3>1. x.tokens \in Nat
      BY DEF Entries
    <3> QED
      BY <2>2, <3>1
  <2> QED
    BY <1>2, <2>1, <2>2
<1>8. Balanced(a)
  BY <1>1, ExplainedIsBalanced
<1>9. Balanced(b)
  BY <1>5, <1>6, <1>7, <1>8 DEF Balanced
<1> QED
  BY <1>4, <1>9, ExplainedIsBalanced

\* What is paid in or credited is in the ledger.
LEMMA PaidInIsSound ==
  ASSUME NEW a, Sound(a), NEW x \in Entries, ~HasEntry(a, x.source, x.ref),
         x.source \in {"admin", "payment"}, x.source = "admin" => x.cents = 0,
         NEW b \in AccountRecords, b.subs = a.subs, b.ledger = a.ledger \cup {x},
         b.tokens = a.tokens + x.tokens, b.cents = a.cents + x.cents,
         b.restored = a.restored, b.envelope = a.envelope
  PROVE  Sound(b)
<1>1. a \in AccountRecords /\ Keyed(a) /\ Booked(a) /\ Explained(a) /\ Enveloped(a)
  BY DEF Sound
<1>2. x.tokens \in Nat /\ x.cents \in Nat /\ a.tokens \in Nat /\ a.cents \in Nat /\ a.restored \in Nat
  BY <1>1 DEF Entries, AccountRecords
<1>3. Keyed(b) /\ Booked(b)
  BY <1>1, EntryKeepsUsage
<1>4. Enveloped(b)
  BY <1>1 DEF Enveloped, activeSubscriptions, Rolling
<1> DEFINE ta == TokensOf(a.ledger, "admin")
           tp == TokensOf(a.ledger, "payment")
           tu == TokensOf(a.ledger, "usage")
           cp == CentsOf(a.ledger, "payment")
           cu == CentsOf(a.ledger, "usage")
           used == UsedOf(a.subs)
           tb == TokensOf(b.ledger, "admin")
           tq == TokensOf(b.ledger, "payment")
           cq == CentsOf(b.ledger, "payment")
<1>5. /\ ta \in Nat /\ tp \in Nat /\ tu \in Nat /\ cp \in Nat /\ cu \in Nat /\ used \in Nat
      /\ tb \in Nat /\ tq \in Nat
  BY <1>1, <1>3, LedgerSumsType, SubSumsType DEF Sources
<1>6. \A source :
        /\ x.source = source =>
             /\ TokensOf(b.ledger, source) = TokensOf(a.ledger, source) + x.tokens
             /\ CentsOf(b.ledger, source) = CentsOf(a.ledger, source) + x.cents
        /\ x.source # source =>
             /\ TokensOf(b.ledger, source) = TokensOf(a.ledger, source)
             /\ CentsOf(b.ledger, source) = CentsOf(a.ledger, source)
  <2>1. \A source :
          /\ x.source = source =>
               /\ TokensOf(a.ledger \cup {x}, source) = TokensOf(a.ledger, source) + x.tokens
               /\ CentsOf(a.ledger \cup {x}, source) = CentsOf(a.ledger, source) + x.cents
          /\ x.source # source =>
               /\ TokensOf(a.ledger \cup {x}, source) = TokensOf(a.ledger, source)
               /\ CentsOf(a.ledger \cup {x}, source) = CentsOf(a.ledger, source)
    BY <1>1, SumsWith
  <2> QED
    BY <2>1
<1>7. /\ TokensOf(b.ledger, "subscription") = TokensOf(a.ledger, "subscription")
       /\ TokensOf(b.ledger, "usage") = tu /\ CentsOf(b.ledger, "usage") = cu
  BY <1>6
<1>8. tb + tq = ta + tp + x.tokens
  <2>1. CASE x.source = "admin"
    <3>1. tb = ta + x.tokens /\ tq = tp
      BY <1>6, <2>1
    <3> HIDE DEF ta, tp, tb, tq
    <3> QED
      BY <1>2, <1>5, <3>1
  <2>2. CASE x.source = "payment"
    <3>1. tb = ta /\ tq = tp + x.tokens
      BY <1>6, <2>2
    <3> HIDE DEF ta, tp, tb, tq
    <3> QED
      BY <1>2, <1>5, <3>1
  <2> QED
    BY <2>1, <2>2
<1>9. cq = cp + x.cents
  <2>1. CASE x.source = "admin"
    <3>1. cq = cp /\ x.cents = 0
      BY <1>6, <2>1
    <3> HIDE DEF cp, cq
    <3> QED
      BY <1>5, <3>1
  <2>2. CASE x.source = "payment"
    BY <1>6, <2>2
  <2> QED
    BY <2>1, <2>2
<1>10. Balanced(a)
  BY <1>1, ExplainedIsBalanced
<1>11. /\ a.tokens <= ta + tp
       /\ cp = a.cents + cu
       /\ ta + tp + used + a.restored <= tu + a.tokens
       /\ cu = 0 => ta + tp + used + a.restored = tu + a.tokens
  BY <1>10 DEF Balanced
<1> HIDE DEF ta, tp, tu, cp, cu, used, tb, tq, cq
<1>12. /\ b.tokens <= tb + tq
       /\ cq = b.cents + cu
  BY <1>2, <1>5, <1>8, <1>9, <1>11
<1>13. tb + tq + used + b.restored <= tu + b.tokens
  <2>1. (ta + tp + x.tokens) + used + a.restored <= tu + (a.tokens + x.tokens)
    BY <1>2, <1>5, <1>11
  <2> QED
    BY <1>8, <2>1
<1>14. ASSUME cu = 0 PROVE tb + tq + used + b.restored = tu + b.tokens
  <2>1. (ta + tp + x.tokens) + used + a.restored = tu + (a.tokens + x.tokens)
    BY <1>2, <1>5, <1>11, <1>14
  <2> QED
    BY <1>8, <2>1
<1>15. Balanced(b)
  BY <1>7, <1>10, <1>12, <1>13, <1>14 DEF Balanced, ta, tp, tu, cp, cu, used, tb, tq, cq
<1>16. Explained(b)
  BY <1>3, <1>15, ExplainedIsBalanced
<1> QED
  BY <1>3, <1>4, <1>16 DEF Sound

-----------------------------------------------------------------------------
(***************************************************************************)
(* The operations on the account.                                          *)
(***************************************************************************)
\* A new subscription: its grant is recorded, what it replaces is canceled, and the
\* envelope is its plan.
LEMMA StartSubscriptionIsSound ==
  ASSUME Typed, NEW a, Sound(a), NEW p \in PlanIds
  PROVE  LET b == startSubscription(a, p)
         IN  /\ Sound(b)
             /\ \A source : source # "subscription" =>
                  \A ref : HasEntry(b, source, ref) => HasEntry(a, source, ref)
             /\ b.tokens = a.tokens /\ b.cents = a.cents /\ b.cursor = a.cursor
<1> DEFINE plan == plans[p]
           end  == now + IF plan.duration # 0 THEN plan.duration ELSE Period
           paid == plan.basis = "from_payment"
           row  == [plan |-> p, status |-> "active", periodEnd |-> end,
                    included |-> plan.included, used |-> 0,
                    method |-> plan.method, duration |-> plan.duration, basis |-> plan.basis,
                    activated |-> IF paid THEN now ELSE None,
                    expires |-> IF paid THEN end ELSE None,
                    resets |-> plan.resets]
           kept == [i \in DOMAIN a.subs |->
                      IF Replaces(plan, a.subs[i])
                      THEN [a.subs[i] EXCEPT !.status = "canceled"] ELSE a.subs[i]]
           k == Len(a.subs) + 1
           x == Entry("subscription", k, plan.included, 0)
           c == [a EXCEPT !.subs = Append(kept, row), !.envelope = p]
           b == startSubscription(a, p)
<1>1. a \in AccountRecords /\ Keyed(a) /\ Booked(a) /\ Explained(a) /\ Enveloped(a)
  BY DEF Sound
<1>2. /\ DOMAIN a.subs = 1 .. Len(a.subs) /\ Len(a.subs) \in Nat
      /\ \A i \in DOMAIN a.subs : a.subs[i] \in SubType
      /\ activeSubscriptions(a) \subseteq DOMAIN a.subs
  BY <1>1, SubsAreTyped
<1>3. b = recordLedger(c, x)
  BY DEF startSubscription
<1>4. /\ plan \in PlanRecords /\ now \in Nat /\ end \in Nat /\ plan.included \in Nat
  <2>1. plan \in PlanRecords /\ now \in Nat
    BY DEF Typed
  <2>2. plan.duration \in Nat /\ Period \in Nat /\ plan.included \in Nat
    BY <2>1, NumbersAssumption DEF PlanRecords
  <2> HIDE DEF plan
  <2> QED
    BY <2>1, <2>2
<1> HIDE DEF b, plan, end
<1>5. row \in SubType
  <2>1. /\ plan.method \in Methods /\ plan.duration \in Nat /\ plan.basis \in Bases
        /\ plan.resets \in Nat
    BY <1>4 DEF PlanRecords
  <2> QED
    BY <1>4, <2>1 DEF SubType
<1>6. \A i \in DOMAIN a.subs : /\ kept[i] \in SubType
                               /\ kept[i].plan = a.subs[i].plan /\ kept[i].method = a.subs[i].method
                               /\ kept[i].used = a.subs[i].used
                               /\ kept[i].included = a.subs[i].included
                               /\ kept[i].status = IF Replaces(plan, a.subs[i]) THEN "canceled"
                                                   ELSE a.subs[i].status
  BY <1>2 DEF SubType
<1>7. kept \in Seq(SubType) /\ Len(kept) = Len(a.subs)
  <2>1. kept \in [1 .. Len(a.subs) -> SubType]
    BY <1>2, <1>6
  <2> HIDE DEF kept
  <2> QED
    BY <1>2, <2>1
<1>8. /\ row.plan = p /\ row.status = "active" /\ row.used = 0 /\ row.included = plan.included
      /\ row.method = plan.method
  OBVIOUS
<1>9. x \in Entries /\ x.source = "subscription" /\ x.ref = k /\ x.tokens = plan.included /\ x.cents = 0
  <2>1. "subscription" \in Sources /\ k \in Refs /\ 0 \in Nat
    BY <1>2 DEF Sources, Refs
  <2> QED
    BY <1>4, <2>1, EntryType
<1> HIDE DEF row, kept, x
<1>10. Append(kept, row) \in Seq(SubType)
  BY <1>5, <1>7
<1>11. ~HasEntry(c, x.source, x.ref)
  <2>1. ~HasEntry(a, "subscription", k)
    BY <1>1, <1>2 DEF HasEntry, Keyed
  <2> QED
    BY <1>1, <1>9, <2>1 DEF HasEntry, AccountRecords
<1>12. b = [c EXCEPT !.ledger = c.ledger \cup {x}]
  BY <1>3, <1>11, Recorded
<1>13. b \in AccountRecords
  <2>1. c \in AccountRecords
    BY <1>1, <1>10 DEF AccountRecords
  <2> HIDE DEF c
  <2> QED
    BY <1>9, <1>12, <2>1 DEF AccountRecords
<1>14. /\ b.subs = Append(kept, row) /\ b.ledger = a.ledger \cup {x}
       /\ b.tokens = a.tokens /\ b.cents = a.cents /\ b.restored = a.restored
       /\ b.cursor = a.cursor /\ b.envelope = p
  BY <1>1, <1>12 DEF AccountRecords
<1>15. /\ DOMAIN b.subs = 1 .. (Len(a.subs) + 1) /\ b.subs[k] = row
       /\ \A i \in DOMAIN a.subs : b.subs[i] = kept[i]
  BY <1>2, <1>7, <1>14
<1>16. Keyed(b) /\ Booked(b) /\ Explained(b)
  <2>1. /\ \A i \in DOMAIN a.subs :
             b.subs[i].used = a.subs[i].used /\ b.subs[i].included = a.subs[i].included
        /\ b.subs[Len(a.subs) + 1].used = 0
        /\ b.subs[Len(a.subs) + 1].included = x.tokens
    BY <1>6, <1>8, <1>9, <1>15
  <2> QED
    BY <1>9, <1>13, <1>14, <1>15, <2>1, StartExplains
<1>17. Enveloped(b)
  <2>1. k \in activeSubscriptions(b) /\ b.subs[k].plan = b.envelope
    BY <1>2, <1>8, <1>14, <1>15 DEF activeSubscriptions
  <2>2. ASSUME NEW i \in DOMAIN a.subs, i \in Rolling(b)
        PROVE  i \in Rolling(a) /\ plan.method # "rolling_time"
    <3>1. /\ kept[i].status \in {"active", "past_due"} /\ kept[i].method = "rolling_time"
      BY <1>15, <2>2 DEF Rolling, activeSubscriptions
    <3>2. ~Replaces(plan, a.subs[i]) /\ a.subs[i].status \in {"active", "past_due"}
      BY <1>6, <3>1
    <3> QED
      BY <1>6, <3>1, <3>2 DEF Rolling, activeSubscriptions, Replaces
  <2>3. k \in Rolling(b) => plan.method = "rolling_time"
    BY <1>8, <1>15 DEF Rolling
  <2>4. \A i \in Rolling(b) : i \in DOMAIN a.subs \/ i = k
    BY <1>2, <1>15 DEF Rolling, activeSubscriptions
  <2>5. \A i, j \in Rolling(b) : i = j
    BY <1>1, <2>2, <2>3, <2>4 DEF Enveloped
  <2> QED
    BY <2>1, <2>5 DEF Enveloped
<1>18. \A source : source # "subscription" =>
         \A ref : HasEntry(b, source, ref) => HasEntry(a, source, ref)
  BY <1>9, <1>14 DEF HasEntry
<1> QED
  BY <1>13, <1>14, <1>16, <1>17, <1>18 DEF Sound, b

\* A pack with a shelf life: its grant is recorded, the envelope is left alone.
LEMMA StartDurationPackIsSound ==
  ASSUME Typed, NEW a, Sound(a), NEW p \in PlanIds, NEW toks \in Nat, NEW hours \in Nat
  PROVE  LET b == startDurationPack(a, p, toks, hours)
         IN  Sound(b) /\ b.tokens = a.tokens /\ b.cents = a.cents /\ b.cursor = a.cursor
<1> DEFINE end == now + hours
           row == [plan |-> p, status |-> "active", periodEnd |-> end,
                   included |-> toks, used |-> 0, method |-> "token_pack",
                   duration |-> hours, basis |-> "from_payment",
                   activated |-> now, expires |-> end, resets |-> 0]
           k == Len(a.subs) + 1
           x == Entry("subscription", k, toks, 0)
           c == [a EXCEPT !.subs = Append(a.subs, row)]
           b == startDurationPack(a, p, toks, hours)
<1>1. a \in AccountRecords /\ Keyed(a) /\ Booked(a) /\ Explained(a) /\ Enveloped(a)
  BY DEF Sound
<1>2. /\ DOMAIN a.subs = 1 .. Len(a.subs) /\ Len(a.subs) \in Nat
      /\ \A i \in DOMAIN a.subs : a.subs[i] \in SubType
      /\ activeSubscriptions(a) \subseteq DOMAIN a.subs
      /\ a.subs \in Seq(SubType)
  BY <1>1, SubsAreTyped DEF AccountRecords
<1>3. b = recordLedger(c, x)
  <2>1. c = [a EXCEPT !.subs = Append(@, row)]
    BY <1>1 DEF AccountRecords
  <2> QED
    BY <2>1 DEF startDurationPack
<1>4. now \in Nat /\ end \in Nat
  BY DEF Typed
<1> HIDE DEF b, end
<1>5. row \in SubType
  <2>1. "token_pack" \in Methods /\ "from_payment" \in Bases
    BY DEF Methods, Bases
  <2> QED
    BY <1>4, <2>1 DEF SubType
<1>6. row.status = "active" /\ row.used = 0 /\ row.included = toks /\ row.method = "token_pack"
  OBVIOUS
<1>7. x \in Entries /\ x.source = "subscription" /\ x.ref = k /\ x.tokens = toks /\ x.cents = 0
  <2>1. "subscription" \in Sources /\ k \in Refs /\ 0 \in Nat
    BY <1>2 DEF Sources, Refs
  <2> QED
    BY <2>1, EntryType
<1> HIDE DEF row, x
<1>8. Append(a.subs, row) \in Seq(SubType)
  BY <1>2, <1>5
<1>9. ~HasEntry(c, x.source, x.ref)
  <2>1. ~HasEntry(a, "subscription", k)
    BY <1>1, <1>2 DEF HasEntry, Keyed
  <2> QED
    BY <1>1, <1>7, <2>1 DEF HasEntry, AccountRecords
<1>10. b = [c EXCEPT !.ledger = c.ledger \cup {x}]
  BY <1>3, <1>9, Recorded
<1>11. b \in AccountRecords
  <2>1. c \in AccountRecords
    BY <1>1, <1>8 DEF AccountRecords
  <2> HIDE DEF c
  <2> QED
    BY <1>7, <1>10, <2>1 DEF AccountRecords
<1>12. /\ b.subs = Append(a.subs, row) /\ b.ledger = a.ledger \cup {x}
       /\ b.tokens = a.tokens /\ b.cents = a.cents /\ b.restored = a.restored
       /\ b.cursor = a.cursor /\ b.envelope = a.envelope
  BY <1>1, <1>10 DEF AccountRecords
<1>13. /\ DOMAIN b.subs = 1 .. (Len(a.subs) + 1) /\ b.subs[k] = row
       /\ \A i \in DOMAIN a.subs : b.subs[i] = a.subs[i]
  BY <1>2, <1>12
<1>14. Keyed(b) /\ Booked(b) /\ Explained(b)
  <2>1. /\ \A i \in DOMAIN a.subs :
             b.subs[i].used = a.subs[i].used /\ b.subs[i].included = a.subs[i].included
        /\ b.subs[Len(a.subs) + 1].used = 0
        /\ b.subs[Len(a.subs) + 1].included = x.tokens
    BY <1>6, <1>7, <1>13
  <2> QED
    BY <1>7, <1>11, <1>12, <1>13, <2>1, StartExplains
<1>15. Enveloped(b)
  <2>1. \A i \in activeSubscriptions(a) : i \in activeSubscriptions(b) /\ b.subs[i] = a.subs[i]
    BY <1>2, <1>13 DEF activeSubscriptions
  <2>2. \A i \in Rolling(b) : i \in Rolling(a)
    BY <1>2, <1>6, <1>13 DEF Rolling, activeSubscriptions
  <2> QED
    BY <1>1, <1>12, <2>1, <2>2 DEF Enveloped
<1> QED
  BY <1>11, <1>12, <1>14, <1>15 DEF Sound, b

\* A credit adds to the wallet what it records, and happens once by reference.
LEMMA CreditIsSound ==
  ASSUME NEW a, Sound(a), NEW toks \in Nat, NEW source \in {"admin", "payment"}, NEW ref \in Refs
  PROVE  LET b == credit(a, toks, source, ref)
         IN  Sound(b) /\ a.tokens <= b.tokens /\ b.cents = a.cents /\ b.cursor = a.cursor
<1> DEFINE x == Entry(source, ref, toks, 0)
           b == credit(a, toks, source, ref)
           c == [a EXCEPT !.tokens = @ + toks]
<1>1. a \in AccountRecords /\ a.tokens \in Nat /\ a.cents \in Nat
  BY DEF Sound, AccountRecords
<1>2. CASE HasEntry(a, source, ref)
  <2>1. b = a
    BY <1>2 DEF credit
  <2> QED
    BY <1>1, <2>1
<1>3. CASE ~HasEntry(a, source, ref)
  <2>1. b = recordLedger(c, x)
    BY <1>3 DEF credit
  <2>2. /\ x \in Entries /\ x.source = source /\ x.ref = ref /\ x.tokens = toks /\ x.cents = 0
    <3>1. source \in Sources /\ 0 \in Nat
      BY DEF Sources
    <3> QED
      BY <3>1, EntryType
  <2> HIDE DEF x, b
  <2>3. ~HasEntry(c, x.source, x.ref)
    BY <1>1, <1>3, <2>2 DEF HasEntry, AccountRecords
  <2>4. b = [c EXCEPT !.ledger = c.ledger \cup {x}]
    BY <2>1, <2>3, Recorded
  <2>5. /\ b \in AccountRecords /\ b.subs = a.subs /\ b.ledger = a.ledger \cup {x}
        /\ b.tokens = a.tokens + x.tokens /\ b.cents = a.cents + x.cents
        /\ b.restored = a.restored /\ b.envelope = a.envelope /\ b.cursor = a.cursor
    <3>1. a.tokens + toks \in Nat /\ a.cents + 0 = a.cents
      BY <1>1
    <3>2. c \in AccountRecords
      BY <1>1, <3>1 DEF AccountRecords
    <3>3. /\ c.subs = a.subs /\ c.ledger = a.ledger /\ c.tokens = a.tokens + toks
          /\ c.cents = a.cents /\ c.restored = a.restored /\ c.envelope = a.envelope
          /\ c.cursor = a.cursor
      BY <1>1 DEF AccountRecords
    <3> HIDE DEF c
    <3> QED
      BY <2>2, <2>4, <3>1, <3>2, <3>3 DEF AccountRecords
  <2>6. ~HasEntry(a, x.source, x.ref) /\ x.source \in {"admin", "payment"}
    BY <1>3, <2>2
  <2>7. Sound(b)
    BY <2>2, <2>5, <2>6, PaidInIsSound
  <2>8. b.tokens = a.tokens + toks /\ b.cents = a.cents
    BY <1>1, <2>2, <2>5
  <2> QED
    BY <1>1, <2>5, <2>7, <2>8 DEF b
<1> QED
  BY <1>2, <1>3

Snapshots ==
  [plan : PlanIds \cup {NoPlan}, method : Methods \cup {NoPlan}, tokens : Nat,
   cents : Nat, duration : Nat]

\* A settled payment keeps the account sound, whatever it grants.
LEMMA SettleIsSound ==
  ASSUME Typed, NEW a, Sound(a), NEW x \in Payments, NEW snap \in Snapshots,
         snap.plan \in PlanIds
  PROVE  LET b == settlePaymentSnapshot(a, x, snap)
         IN  Sound(b) /\ a.tokens <= b.tokens /\ a.cents <= b.cents /\ b.cursor = a.cursor
<1> DEFINE b == settlePaymentSnapshot(a, x, snap)
<1>1. a \in AccountRecords /\ a.tokens \in Nat /\ a.cents \in Nat
  BY DEF Sound, AccountRecords
<1>2. snap.tokens \in Nat /\ snap.cents \in Nat /\ snap.duration \in Nat /\ snap.plan \in PlanIds
  BY DEF Snapshots
<1>3. x \in Refs /\ "payment" \in Sources /\ 0 \in Nat
  BY DEF Refs, Sources
<1>4. CASE HasEntry(a, "payment", x)
  <2>1. b = a
    BY <1>4 DEF settlePaymentSnapshot
  <2> QED
    BY <1>1, <2>1
<1>5. CASE ~HasEntry(a, "payment", x) /\ snap.method = "rolling_time"
  <2> DEFINE c == startSubscription(a, snap.plan)
             e == Entry("payment", x, 0, 0)
  <2>1. b = recordLedger(c, e)
    BY <1>5 DEF settlePaymentSnapshot
  <2>2. /\ Sound(c) /\ c.tokens = a.tokens /\ c.cents = a.cents /\ c.cursor = a.cursor
        /\ ~HasEntry(c, "payment", x)
    BY <1>2, <1>5, StartSubscriptionIsSound
  <2>3. e \in Entries /\ e.source = "payment" /\ e.ref = x /\ e.tokens = 0 /\ e.cents = 0
    BY <1>3, EntryType
  <2> HIDE DEF b, c, e
  <2>4. b = [c EXCEPT !.ledger = c.ledger \cup {e}]
    BY <2>1, <2>2, <2>3, Recorded
  <2>5. /\ b \in AccountRecords /\ b.subs = c.subs /\ b.ledger = c.ledger \cup {e}
        /\ b.tokens = c.tokens + e.tokens /\ b.cents = c.cents + e.cents
        /\ b.restored = c.restored /\ b.envelope = c.envelope /\ b.cursor = c.cursor
    <3>1. c \in AccountRecords
      BY <2>2 DEF Sound
    <3>2. c.tokens + 0 = c.tokens /\ c.cents + 0 = c.cents
      BY <1>1, <2>2
    <3> QED
      BY <2>3, <2>4, <3>1, <3>2 DEF AccountRecords
  <2>6. ~HasEntry(c, e.source, e.ref) /\ e.source \in {"admin", "payment"}
    BY <2>2, <2>3
  <2>7. Sound(b)
    BY <2>2, <2>3, <2>5, <2>6, PaidInIsSound
  <2>8. b.tokens = a.tokens /\ b.cents = a.cents /\ b.cursor = a.cursor
    BY <1>1, <2>2, <2>3, <2>5
  <2> QED
    BY <1>1, <2>7, <2>8 DEF b
<1>6. CASE ~HasEntry(a, "payment", x) /\ snap.method = "token_pack" /\ snap.duration # 0
  <2>1. b = startDurationPack(a, snap.plan, snap.tokens, snap.duration)
    BY <1>6 DEF settlePaymentSnapshot
  <2> DEFINE c == startDurationPack(a, snap.plan, snap.tokens, snap.duration)
  <2>2. Sound(c) /\ c.tokens = a.tokens /\ c.cents = a.cents /\ c.cursor = a.cursor
    BY <1>2, StartDurationPackIsSound
  <2> HIDE DEF b, c
  <2>3. Sound(b) /\ b.tokens = a.tokens /\ b.cents = a.cents /\ b.cursor = a.cursor
    BY <2>1, <2>2 DEF c
  <2>4. a.tokens <= b.tokens /\ a.cents <= b.cents
    BY <1>1, <2>3
  <2> QED
    BY <2>3, <2>4 DEF b
<1>7. CASE ~HasEntry(a, "payment", x) /\ snap.method = "token_pack" /\ snap.duration = 0
  <2>1. b = credit(a, snap.tokens, "payment", x)
    BY <1>7 DEF settlePaymentSnapshot
  <2> HIDE DEF b
  <2>2. Sound(b) /\ a.tokens <= b.tokens /\ b.cents = a.cents /\ b.cursor = a.cursor
    BY <1>2, <1>3, <2>1, CreditIsSound
  <2> QED
    BY <1>1, <2>2 DEF b
<1>8. CASE /\ ~HasEntry(a, "payment", x)
           /\ snap.method \notin {"rolling_time", "token_pack"}
  <2> DEFINE c == [a EXCEPT !.cents = @ + snap.cents]
             e == Entry("payment", x, 0, snap.cents)
  <2>1. b = recordLedger(c, e)
    BY <1>8 DEF settlePaymentSnapshot
  <2>2. e \in Entries /\ e.source = "payment" /\ e.ref = x /\ e.tokens = 0 /\ e.cents = snap.cents
    BY <1>2, <1>3, EntryType
  <2> HIDE DEF b, e
  <2>3. ~HasEntry(c, e.source, e.ref)
    BY <1>1, <1>8, <2>2 DEF HasEntry, AccountRecords
  <2>4. b = [c EXCEPT !.ledger = c.ledger \cup {e}]
    BY <2>1, <2>3, Recorded
  <2>5. /\ b \in AccountRecords /\ b.subs = a.subs /\ b.ledger = a.ledger \cup {e}
        /\ b.tokens = a.tokens + e.tokens /\ b.cents = a.cents + e.cents
        /\ b.restored = a.restored /\ b.envelope = a.envelope /\ b.cursor = a.cursor
    <3>1. a.cents + snap.cents \in Nat /\ a.tokens + 0 = a.tokens
      BY <1>1, <1>2
    <3>2. c \in AccountRecords
      BY <1>1, <3>1 DEF AccountRecords
    <3>3. /\ c.subs = a.subs /\ c.ledger = a.ledger /\ c.tokens = a.tokens
          /\ c.cents = a.cents + snap.cents /\ c.restored = a.restored /\ c.envelope = a.envelope
          /\ c.cursor = a.cursor
      BY <1>1 DEF AccountRecords
    <3> HIDE DEF c
    <3> QED
      BY <2>2, <2>4, <3>1, <3>2, <3>3 DEF AccountRecords
  <2>6. ~HasEntry(a, e.source, e.ref) /\ e.source \in {"admin", "payment"}
    BY <1>8, <2>2
  <2>7. Sound(b)
    BY <2>2, <2>5, <2>6, PaidInIsSound
  <2>8. b.tokens = a.tokens /\ b.cents = a.cents + snap.cents /\ b.cursor = a.cursor
    BY <1>1, <2>2, <2>5
  <2> QED
    BY <1>1, <1>2, <2>7, <2>8 DEF b
<1> QED
  BY <1>4, <1>5, <1>6, <1>7, <1>8

-----------------------------------------------------------------------------
(***************************************************************************)
(* Resets, and the initial states.                                         *)
(***************************************************************************)
\* What was used when one subscription changed.
LEMMA UsedOfChanged ==
  ASSUME NEW subs, NEW next, DOMAIN next = DOMAIN subs, IsFiniteSet(DOMAIN subs),
         NEW i \in DOMAIN subs,
         \A j \in DOMAIN subs : subs[j].used \in Int /\ next[j].used \in Int,
         \A j \in DOMAIN subs \ {i} : next[j].used = subs[j].used
  PROVE  UsedOf(next) = UsedOf(subs) + next[i].used - subs[i].used
<1> DEFINE S == DOMAIN subs
           f == [j \in S |-> subs[j].used]
           g == [j \in S |-> next[j].used]
<1>1. /\ \A j \in S : f[j] \in Int /\ g[j] \in Int
      /\ \A j \in S \ {i} : g[j] = f[j]
      /\ i \in S /\ IsFiniteSet(S)
  OBVIOUS
<1>2. f[i] = subs[i].used /\ g[i] = next[i].used
  OBVIOUS
<1>3. UsedOf(subs) = SumFunctionOnSet(f, S) /\ UsedOf(next) = SumFunctionOnSet(g, S)
  BY DEF UsedOf
<1> HIDE DEF f, g, S
<1>4. SumFunctionOnSet(g, S) = SumFunctionOnSet(f, S) + g[i] - f[i]
  <2>1. \A k \in S : (\A j \in S \ {k} : g[j] = f[j]) =>
          SumFunctionOnSet(g, S) = SumFunctionOnSet(f, S) + g[k] - f[k]
    BY <1>1, SumChange
  <2> QED
    BY <1>1, <2>1
<1> QED
  BY <1>2, <1>3, <1>4

\* A reset gives an allowance back and remembers how much.
LEMMA ResetIsSound ==
  ASSUME Typed, NEW a, Sound(a), NEW i \in DOMAIN a.subs, Resettable(a.subs[i])
  PROVE  LET b == resetSubscription(a, i)
         IN  Sound(b) /\ b.tokens = a.tokens /\ b.cents = a.cents /\ b.cursor = a.cursor
<1> DEFINE s == a.subs[i]
           t == [s EXCEPT !.activated = now, !.expires = now + s.duration,
                          !.used = 0, !.resets = @ - 1]
           S == DOMAIN a.subs
           b == resetSubscription(a, i)
<1>1. /\ a \in AccountRecords /\ Keyed(a) /\ Booked(a) /\ Explained(a) /\ Enveloped(a)
      /\ a.restored \in Nat
  BY DEF Sound, AccountRecords
<1>2. /\ S = 1 .. Len(a.subs) /\ Len(a.subs) \in Nat /\ a.subs \in Seq(SubType)
      /\ IsFiniteSet(S)
      /\ \A j \in S : a.subs[j] \in SubType
  BY <1>1, SubsAreTyped DEF AccountRecords
<1>3. /\ s \in SubType /\ s.used \in Nat /\ s.included \in Nat /\ s.resets \in Nat \ {0}
      /\ s.duration \in Nat /\ now \in Nat
  <2>1. s \in SubType /\ Resettable(s) /\ now \in Nat
    BY <1>2 DEF Typed
  <2> HIDE DEF s
  <2> QED
    BY <2>1 DEF Resettable, SubType
<1>4. t \in SubType
  <2>1. s.resets - 1 \in Nat /\ now + s.duration \in Nat \cup {None} /\ now \in Nat \cup {None}
    BY <1>3
  <2> HIDE DEF s
  <2> QED
    BY <1>3, <2>1 DEF SubType
<1>5. /\ t.used = 0 /\ t.included = s.included /\ t.plan = s.plan /\ t.method = s.method
      /\ t.status = s.status
  <2> HIDE DEF s
  <2> QED
    BY <1>3 DEF SubType
<1>6. b = [a EXCEPT !.subs = [a.subs EXCEPT ![i] = t], !.restored = a.restored + s.used]
  BY <1>1 DEF resetSubscription, AccountRecords
<1> HIDE DEF s, t, b
<1>7. [a.subs EXCEPT ![i] = t] \in Seq(SubType)
  BY <1>2, <1>4
<1>8. a.restored + s.used \in Nat
  BY <1>1, <1>3
<1>9. b \in AccountRecords
  BY <1>1, <1>6, <1>7, <1>8 DEF AccountRecords
<1>10. /\ b.subs = [a.subs EXCEPT ![i] = t] /\ b.ledger = a.ledger /\ b.tokens = a.tokens
       /\ b.cents = a.cents /\ b.cursor = a.cursor /\ b.envelope = a.envelope
       /\ b.restored = a.restored + s.used
  BY <1>1, <1>6 DEF AccountRecords
<1>11. /\ DOMAIN b.subs = S /\ b.subs[i] = t
       /\ \A j \in S \ {i} : b.subs[j] = a.subs[j]
  BY <1>10
<1>12. Keyed(b) /\ Booked(b)
  BY <1>1, <1>10, <1>11 DEF Keyed, Booked, HasEntry
<1>13. Enveloped(b)
  <2>1. \A j \in S : /\ b.subs[j].status = a.subs[j].status
                     /\ b.subs[j].method = a.subs[j].method
                     /\ b.subs[j].plan = a.subs[j].plan
    BY <1>5, <1>11 DEF s
  <2>2. activeSubscriptions(b) = activeSubscriptions(a)
    BY <1>11, <2>1 DEF activeSubscriptions
  <2>3. Rolling(b) = Rolling(a)
    BY <2>1, <2>2 DEF Rolling, activeSubscriptions
  <2> QED
    BY <1>1, <1>10, <2>1, <2>2, <2>3 DEF Enveloped, activeSubscriptions
<1>14. UsedOf(b.subs) = UsedOf(a.subs) - s.used /\ UsedOf(a.subs) \in Nat
  <2>1. \A j \in S : b.subs[j] \in SubType
    BY <1>2, <1>4, <1>11
  <2>2. \A r \in SubType : r.used \in Int
    BY DEF SubType
  <2>3. /\ DOMAIN b.subs = DOMAIN a.subs /\ IsFiniteSet(DOMAIN a.subs) /\ i \in DOMAIN a.subs
        /\ \A j \in DOMAIN a.subs : a.subs[j].used \in Int /\ b.subs[j].used \in Int
        /\ \A j \in DOMAIN a.subs \ {i} : b.subs[j].used = a.subs[j].used
    BY <1>2, <1>11, <2>1, <2>2
  <2>4. UsedOf(b.subs) = UsedOf(a.subs) + b.subs[i].used - a.subs[i].used
    BY <2>3, UsedOfChanged
  <2>5. UsedOf(a.subs) \in Nat
    BY <1>1, SubSumsType
  <2>6. b.subs[i].used = 0 /\ a.subs[i].used = s.used
    BY <1>5, <1>11 DEF s
  <2> QED
    BY <1>3, <2>4, <2>5, <2>6
<1>15. GrantedOf(b.subs) = GrantedOf(a.subs)
  <2>1. \A j \in S : b.subs[j].included = a.subs[j].included
    BY <1>5, <1>11 DEF s
  <2>2. [j \in DOMAIN b.subs |-> b.subs[j].included] = [j \in DOMAIN a.subs |-> a.subs[j].included]
    BY <1>11, <2>1
  <2> QED
    BY <1>11, <2>2 DEF GrantedOf
<1>16. \A j \in DOMAIN b.subs : b.subs[j].used <= b.subs[j].included
  <2> TAKE j \in DOMAIN b.subs
  <2>1. CASE j = i
    BY <1>3, <1>5, <1>11, <2>1
  <2>2. CASE j # i
    BY <1>1, <1>11, <2>2 DEF Explained
  <2> QED
    BY <2>1, <2>2
<1>17. Balanced(b)
  <2>1. Balanced(a)
    BY <1>1, ExplainedIsBalanced
  <2> DEFINE used == UsedOf(a.subs)
             paid == TokensOf(a.ledger, "admin") + TokensOf(a.ledger, "payment")
  <2>2. paid \in Nat /\ used \in Nat
    BY <1>1, <1>14, LedgerSumsType DEF Sources
  <2> HIDE DEF used, paid
  <2>3. paid + (used - s.used) + (a.restored + s.used) = paid + used + a.restored
    BY <1>1, <1>3, <2>2
  <2> QED
    BY <1>10, <1>14, <1>15, <1>16, <2>1, <2>3 DEF Balanced, used, paid
<1>18. Explained(b)
  BY <1>9, <1>12, <1>17, ExplainedIsBalanced
<1> QED
  BY <1>9, <1>10, <1>12, <1>13, <1>18 DEF Sound, b

(***************************************************************************)
(* The invariant.                                                          *)
(***************************************************************************)
BillingInv ==
  /\ Typed
  /\ order \in [Payments -> Snapshots]
  /\ \A x \in Payments : order[x] # NoOrder => order[x].plan \in PlanIds
  /\ settled \subseteq Payments
  /\ Sound(account)

\* The initial states satisfy the invariant.
LEMMA InitEstablishes == Init => BillingInv
<1> SUFFICES ASSUME Init PROVE BillingInv
  OBVIOUS
<1>1. Typed
  <2>1. plans \in [PlanIds -> PlanRecords]
    BY PlanAssumption DEF Init
  <2>2. meter \in [Events -> MeterRecords] /\ now \in Nat
    BY DEF Init, MeterRecords
  <2> QED
    BY <2>1, <2>2 DEF Typed
<1>2. /\ order \in [Payments -> Snapshots]
      /\ \A x \in Payments : order[x] = NoOrder
      /\ settled \subseteq Payments
  BY DEF Init, NoOrder, Entitlement, Snapshots
<1>3. /\ account.subs = <<>> /\ account.tokens = 0 /\ account.cents = 0
      /\ account.ledger = {} /\ account.restored = 0 /\ account.envelope = NoPlan
      /\ account \in AccountRecords
  BY DEF Init, AccountRecords
<1>4. Keyed(account) /\ Booked(account)
  BY <1>3, FS_EmptySet DEF Keyed, Booked
<1>5. activeSubscriptions(account) = {} /\ DOMAIN account.subs = {}
  BY <1>3 DEF activeSubscriptions
<1>6. Enveloped(account)
  BY <1>3, <1>5 DEF Enveloped, Rolling
<1>7. Balanced(account)
  <2>1. \A source : TokensOf({}, source) = 0 /\ CentsOf({}, source) = 0
    <3>1. \A source : OfSource({}, source) = {}
      BY DEF OfSource
    <3> QED
      BY <3>1, SumEmpty DEF TokensOf, CentsOf
  <2>2. UsedOf(account.subs) = 0 /\ GrantedOf(account.subs) = 0
    BY <1>5, SumEmpty DEF UsedOf, GrantedOf
  <2> QED
    BY <1>3, <1>5, <2>1, <2>2 DEF Balanced
<1>8. Explained(account)
  BY <1>3, <1>4, <1>7, ExplainedIsBalanced
<1> QED
  BY <1>1, <1>2, <1>3, <1>4, <1>6, <1>8 DEF BillingInv, Sound

\* An account that a step leaves alone or replaces by a sound one stays sound
\* when the rows that are settled or deleted keep their units.
LEMMA SoundNext ==
  ASSUME NEW b, Sound(b), account' = b,
         \A u \in Events : meter[u].state \in {"settled", "deleted"} =>
           meter'[u].state \in {"settled", "deleted"} /\ meter'[u].units = meter[u].units
  PROVE  Sound(account)'
<1>1. Keyed(b) /\ Booked(b) /\ Explained(b) /\ Enveloped(b) /\ b \in AccountRecords
  BY DEF Sound
<1>2. Booked(account)'
  <2>1. ASSUME NEW e \in b.ledger, e.source = "usage"
        PROVE  /\ e.ref \in Events /\ meter'[e.ref].state \in {"settled", "deleted"}
               /\ ~HasEntry(b, "unfunded", e.ref) => e.tokens = meter'[e.ref].units
    BY <1>1, <2>1 DEF Booked
  <2>2. ASSUME NEW f \in b.ledger, f.source = "unfunded"
        PROVE  \E e \in b.ledger : /\ e.source = "usage" /\ e.ref = f.ref
                                   /\ e.tokens + f.tokens = meter'[f.ref].units
    <3>1. PICK e \in b.ledger : /\ e.source = "usage" /\ e.ref = f.ref
                                /\ e.tokens + f.tokens = meter[f.ref].units
      BY <1>1, <2>2 DEF Booked
    <3>2. f.ref \in Events /\ meter'[f.ref].units = meter[f.ref].units
      BY <1>1, <3>1 DEF Booked
    <3> QED
      BY <3>1, <3>2
  <2> QED
    BY <2>1, <2>2 DEF Booked
<1> QED
  BY <1>1, <1>2 DEF Sound

-----------------------------------------------------------------------------
(***************************************************************************)
(* Steps.                                                                  *)
(***************************************************************************)
\* A row that is settled or deleted stays so, and keeps its units.
RowsStay ==
  \A u \in Events : meter[u].state \in {"settled", "deleted"} =>
    meter'[u].state \in {"settled", "deleted"} /\ meter'[u].units = meter[u].units

\* What a step makes of the account: a reconciliation, or nothing is taken.
AccountMoves ==
  /\ Sound(account')
  /\ \/ account' = reconcile(account)
     \/ /\ account.tokens <= account'.tokens /\ account.cents <= account'.cents
        /\ account'.cursor = account.cursor

Orders ==
  /\ order \in [Payments -> Snapshots]
  /\ \A x \in Payments : order[x] # NoOrder => order[x].plan \in PlanIds

\* What a member can buy.
LEMMA PurchaseType ==
  ASSUME Typed, NEW p \in PlanIds,
         NEW snap \in PlanPurchases(p) \cup TopUpPurchases(p) \cup CustomPurchases(p)
  PROVE  snap \in Snapshots /\ snap.plan \in PlanIds
<1> DEFINE plan == plans[p]
<1>1. /\ plan.method \in Methods /\ plan.included \in Nat /\ plan.price \in Nat
      /\ plan.duration \in Nat /\ plan.rate \in Nat
  <2>1. plan \in PlanRecords
    BY DEF Typed
  <2> HIDE DEF plan
  <2> QED
    BY <2>1 DEF PlanRecords
<1>2. "token_pack" \in Methods
  BY DEF Methods
<1>3. CASE snap \in PlanPurchases(p)
  <2>1. snap = [plan |-> p, method |-> plan.method, tokens |-> plan.included,
                cents |-> IF plan.method = "monetary_pack" THEN plan.price ELSE 0,
                duration |-> IF plan.method = "token_pack" THEN plan.duration ELSE 0]
    BY <1>3 DEF PlanPurchases, Entitlement
  <2> HIDE DEF plan
  <2> QED
    BY <1>1, <2>1 DEF Snapshots
<1>4. CASE snap \in TopUpPurchases(p)
  <2>1. PICK cts \in TopUps :
          /\ plan.rate # 0
          /\ snap = [plan |-> p, method |-> "token_pack",
                     tokens |-> tokensForCents(plan.rate, cts), cents |-> 0, duration |-> 0]
    BY <1>4 DEF TopUpPurchases, Entitlement
  <2>2. tokensForCents(plan.rate, cts) \in Nat
    <3>1. cts \in Nat /\ plan.rate > 0
      BY <1>1, <2>1, CheckoutAssumption
    <3> HIDE DEF plan
    <3> QED
      BY <1>1, <3>1, MoneyType
  <2> HIDE DEF plan
  <2> QED
    BY <1>2, <2>1, <2>2 DEF Snapshots
<1>5. CASE snap \in CustomPurchases(p)
  <2>1. PICK pack \in CustomPacks :
          snap = [plan |-> p, method |-> "token_pack", tokens |-> pack.tokens, cents |-> 0,
                  duration |-> pack.hours]
    BY <1>5 DEF CustomPurchases, Entitlement
  <2>2. pack.tokens \in Nat /\ pack.hours \in Nat
    BY CheckoutAssumption
  <2> QED
    BY <1>2, <2>1, <2>2 DEF Snapshots
<1> QED
  BY <1>3, <1>4, <1>5

\* Reconciling is a move of the account.
LEMMA ReconcileMoves ==
  ASSUME Typed, Sound(account), account' = reconcile(account)
  PROVE  AccountMoves
BY Reconciled DEF AccountMoves

\* So is leaving it alone.
LEMMA SameAccountMoves ==
  ASSUME Sound(account), account' = account
  PROVE  AccountMoves
BY DEF AccountMoves, Sound, AccountRecords

\* What each operation makes of the rows, the orders and the account.
LEMMA StepKeeps ==
  ASSUME BillingInv, [Next]_billingVars
  PROVE  Typed' /\ Orders' /\ (settled \subseteq Payments)' /\ RowsStay /\ AccountMoves
<1>1. /\ Typed /\ Sound(account) /\ Orders /\ settled \subseteq Payments
      /\ plans \in [PlanIds -> PlanRecords] /\ meter \in [Events -> MeterRecords] /\ now \in Nat
      /\ account.tokens \in Nat /\ account.cents \in Nat
  BY DEF BillingInv, Typed, Orders, Sound, AccountRecords
<1>2. meter' = meter => RowsStay
  BY DEF RowsStay
<1>3. plans' = plans /\ meter' = meter /\ now' = now => Typed'
  BY <1>1 DEF Typed
<1>4. order' = order => Orders'
  BY <1>1 DEF Orders
<1>5. ASSUME NEW p \in PlanIds, Subscribe(p)
      PROVE  Typed' /\ Orders' /\ (settled \subseteq Payments)' /\ RowsStay /\ AccountMoves
  <2>1. account' = startSubscription(account, p)
    BY <1>5 DEF Subscribe
  <2>2. AccountMoves
    BY <1>1, <2>1, StartSubscriptionIsSound DEF AccountMoves
  <2> QED
    BY <1>1, <1>2, <1>3, <1>4, <1>5, <2>2 DEF Subscribe
<1>6. ASSUME NEW p \in PlanIds, NEW def \in Definitions[p], UpsertPlan(p, def)
      PROVE  Typed' /\ Orders' /\ (settled \subseteq Payments)' /\ RowsStay /\ AccountMoves
  <2>1. def \in PlanRecords
    BY PlanAssumption
  <2>2. plans' \in [PlanIds -> PlanRecords] /\ meter' = meter /\ now' = now /\ account' = account
        /\ order' = order /\ settled' = settled
    BY <1>1, <1>6, <2>1 DEF UpsertPlan
  <2>3. Typed'
    BY <1>1, <2>2 DEF Typed
  <2> QED
    BY <1>1, <1>2, <1>4, <2>2, <2>3, SameAccountMoves
<1>7. ASSUME NEW i \in DOMAIN account.subs, ResetSubscription(i)
      PROVE  Typed' /\ Orders' /\ (settled \subseteq Payments)' /\ RowsStay /\ AccountMoves
  <2>1. account' = resetSubscription(account, i) /\ Resettable(account.subs[i])
    BY <1>7 DEF ResetSubscription
  <2>2. AccountMoves
    BY <1>1, <2>1, ResetIsSound DEF AccountMoves
  <2> QED
    BY <1>1, <1>2, <1>3, <1>4, <1>7, <2>2 DEF ResetSubscription
<1>8. ASSUME NEW c \in Credits, AdminCredit(c)
      PROVE  Typed' /\ Orders' /\ (settled \subseteq Payments)' /\ RowsStay /\ AccountMoves
  <2>1. account' = credit(account, CreditTokens, "admin", c)
    BY <1>8 DEF AdminCredit
  <2>2. c \in Refs /\ CreditTokens \in Nat /\ "admin" \in {"admin", "payment"}
    BY NumbersAssumption DEF Refs
  <2>3. Sound(account') /\ account.tokens <= account'.tokens /\ account'.cents = account.cents
        /\ account'.cursor = account.cursor
    <3>1. LET b == credit(account, CreditTokens, "admin", c)
          IN  Sound(b) /\ account.tokens <= b.tokens /\ b.cents = account.cents
              /\ b.cursor = account.cursor
      BY <1>1, <2>2, CreditIsSound
    <3> QED
      BY <2>1, <3>1
  <2>4. AccountMoves
    BY <1>1, <2>3 DEF AccountMoves
  <2> QED
    BY <1>1, <1>2, <1>3, <1>4, <1>8, <2>4 DEF AdminCredit
<1>9. ASSUME NEW x \in Payments, Checkout(x)
      PROVE  Typed' /\ Orders' /\ (settled \subseteq Payments)' /\ RowsStay /\ AccountMoves
  <2>1. PICK p \in PlanIds :
          \E snap \in PlanPurchases(p) \cup TopUpPurchases(p) \cup CustomPurchases(p) :
            order' = [order EXCEPT ![x] = snap]
    BY <1>9 DEF Checkout
  <2>2. PICK snap \in PlanPurchases(p) \cup TopUpPurchases(p) \cup CustomPurchases(p) :
          order' = [order EXCEPT ![x] = snap]
    BY <2>1
  <2>3. snap \in Snapshots /\ snap.plan \in PlanIds
    BY <1>1, PurchaseType
  <2>4. Orders'
    <3>1. order' \in [Payments -> Snapshots]
      BY <1>1, <2>2, <2>3 DEF Orders
    <3>2. ASSUME NEW y \in Payments, order'[y] # NoOrder PROVE order'[y].plan \in PlanIds
      <4>1. CASE y = x
        BY <1>1, <2>2, <2>3, <4>1 DEF Orders
      <4>2. CASE y # x
        BY <1>1, <2>2, <3>2, <4>2 DEF Orders
      <4> QED
        BY <4>1, <4>2
    <3> QED
      BY <3>1, <3>2 DEF Orders
  <2>5. AccountMoves
    BY <1>1, <1>9, SameAccountMoves DEF Checkout
  <2> QED
    BY <1>1, <1>2, <1>3, <1>9, <2>4, <2>5 DEF Checkout
<1>10. ASSUME NEW x \in Payments, PaymentSettles(x)
       PROVE  Typed' /\ Orders' /\ (settled \subseteq Payments)' /\ RowsStay /\ AccountMoves
  <2>1. PICK snap \in Delivered(x) : account' = settlePaymentSnapshot(account, x, snap)
    BY <1>10 DEF PaymentSettles
  <2>2. snap \in Snapshots /\ snap.plan \in PlanIds
    <3>1. order[x] \in Snapshots /\ order[x].plan \in PlanIds
      BY <1>1, <1>10 DEF Orders, PaymentSettles
    <3> QED
      BY <2>1, <3>1, NumbersAssumption DEF Delivered, Snapshots
  <2>3. AccountMoves
    BY <1>1, <2>1, <2>2, SettleIsSound DEF AccountMoves
  <2> QED
    BY <1>1, <1>2, <1>3, <1>4, <1>10, <2>3 DEF PaymentSettles
<1>11. ASSUME NEW u \in Events, Request(u)
       PROVE  Typed' /\ Orders' /\ (settled \subseteq Payments)' /\ RowsStay /\ AccountMoves
  <2>1. /\ meter[u].state = "absent" /\ account' = reconcile(account)
        /\ meter' = [meter EXCEPT ![u] = [state |-> "reserved", units |-> 0, at |-> now]]
        /\ plans' = plans /\ order' = order /\ settled' = settled /\ now' = now
    BY <1>11 DEF Request
  <2>2. [state |-> "reserved", units |-> 0, at |-> now] \in MeterRecords
    BY <1>1 DEF MeterRecords
  <2>3. Typed'
    BY <1>1, <2>1, <2>2 DEF Typed
  <2>4. RowsStay
    BY <1>1, <2>1 DEF RowsStay
  <2>5. AccountMoves
    BY <1>1, <2>1, ReconcileMoves
  <2> QED
    BY <1>1, <1>4, <2>1, <2>3, <2>4, <2>5
<1>12. ASSUME NEW u \in Events, RequestEnds(u)
       PROVE  Typed' /\ Orders' /\ (settled \subseteq Payments)' /\ RowsStay /\ AccountMoves
  <2>1. /\ meter[u].state = "reserved" /\ account' = account
        /\ plans' = plans /\ order' = order /\ settled' = settled /\ now' = now
    BY <1>12 DEF RequestEnds
  <2>2. PICK row \in MeterRecords : meter' = [meter EXCEPT ![u] = row]
    <3>1. CASE \E n \in Units : meter' = [meter EXCEPT ![u].state = "settled", ![u].units = n]
      <4>1. PICK n \in Units : meter' = [meter EXCEPT ![u].state = "settled", ![u].units = n]
        BY <3>1
      <4> DEFINE row == [meter[u] EXCEPT !.state = "settled", !.units = n]
      <4>2. row \in MeterRecords
        BY <1>1, NumbersAssumption DEF MeterRecords
      <4>3. meter' = [meter EXCEPT ![u] = row]
        BY <1>1, <4>1
      <4> QED
        BY <4>2, <4>3
    <3>2. CASE meter' = [meter EXCEPT ![u].state = "released"]
      <4> DEFINE row == [meter[u] EXCEPT !.state = "released"]
      <4>1. row \in MeterRecords
        BY <1>1 DEF MeterRecords
      <4>2. meter' = [meter EXCEPT ![u] = row]
        BY <1>1, <3>2
      <4> QED
        BY <4>1, <4>2
    <3> QED
      BY <1>12, <3>1, <3>2 DEF RequestEnds
  <2>3. Typed'
    BY <1>1, <2>1, <2>2 DEF Typed
  <2>4. RowsStay
    BY <1>1, <2>1, <2>2 DEF RowsStay
  <2> QED
    BY <1>1, <1>4, <2>1, <2>3, <2>4, SameAccountMoves
<1>13. ASSUME Summary
       PROVE  Typed' /\ Orders' /\ (settled \subseteq Payments)' /\ RowsStay /\ AccountMoves
  <2>1. AccountMoves
    BY <1>1, <1>13, ReconcileMoves DEF Summary
  <2> QED
    BY <1>1, <1>2, <1>3, <1>4, <1>13, <2>1 DEF Summary
<1>14. ASSUME Maintain
       PROVE  Typed' /\ Orders' /\ (settled \subseteq Payments)' /\ RowsStay /\ AccountMoves
  <2>1. /\ meter' = [u \in Events |->
                       IF meter[u].state = "settled" /\ meter[u].at < now - Retention
                       THEN [meter[u] EXCEPT !.state = "deleted"] ELSE meter[u]]
        /\ plans' = plans /\ account' = account /\ order' = order /\ settled' = settled
        /\ now' = now
    BY <1>14 DEF Maintain
  <2> DEFINE gone(u) == [meter[u] EXCEPT !.state = "deleted"]
  <2>2. \A u \in Events : meter'[u] = meter[u] \/ meter'[u] = gone(u)
    <3>1. \A u \in Events :
            meter'[u] = IF meter[u].state = "settled" /\ meter[u].at < now - Retention
                        THEN gone(u) ELSE meter[u]
      BY <2>1
    <3> HIDE DEF gone
    <3> QED
      BY <3>1
  <2>3. \A u \in Events : meter'[u] \in MeterRecords
    <3>1. \A u \in Events : meter[u] \in MeterRecords
      BY <1>1
    <3>2. \A u \in Events : gone(u) \in MeterRecords
      BY <3>1 DEF MeterRecords
    <3> HIDE DEF gone
    <3> QED
      BY <2>2, <3>1, <3>2
  <2>4. meter' \in [Events -> MeterRecords]
    BY <2>1, <2>3
  <2>5. Typed'
    BY <1>1, <2>1, <2>4 DEF Typed
  <2>6. RowsStay
    <3>1. \A u \in Events : gone(u).state = "deleted" /\ gone(u).units = meter[u].units
      BY <1>1 DEF MeterRecords
    <3> HIDE DEF gone
    <3> QED
      BY <2>2, <3>1 DEF RowsStay
  <2> QED
    BY <1>1, <1>4, <2>1, <2>5, <2>6, SameAccountMoves
<1>15. ASSUME Tick
       PROVE  Typed' /\ Orders' /\ (settled \subseteq Payments)' /\ RowsStay /\ AccountMoves
  <2>1. Typed' /\ account' = account
    BY <1>1, <1>15 DEF Tick, Typed
  <2> QED
    BY <1>1, <1>2, <1>4, <1>15, <2>1, SameAccountMoves DEF Tick
<1>16. CASE UNCHANGED billingVars
  <2>1. account' = account /\ meter' = meter /\ plans' = plans /\ now' = now /\ order' = order
        /\ settled' = settled
    BY <1>16 DEF billingVars
  <2> QED
    BY <1>1, <1>2, <1>3, <1>4, <2>1, SameAccountMoves
<1> QED
  BY <1>5, <1>6, <1>7, <1>8, <1>9, <1>10, <1>11, <1>12, <1>13, <1>14, <1>15, <1>16 DEF Next

\* Each operation keeps the invariant.
LEMMA NextKeeps ==
  ASSUME BillingInv, [Next]_billingVars
  PROVE  BillingInv'
<1>1. Typed' /\ Orders' /\ (settled \subseteq Payments)' /\ RowsStay /\ Sound(account')
  BY StepKeeps DEF AccountMoves
<1>2. Sound(account)'
  BY <1>1, SoundNext DEF RowsStay
<1> QED
  BY <1>1, <1>2 DEF BillingInv, Orders

\* The inductive invariant of the billing of an account.
THEOREM InvariantHolds == Spec => []BillingInv
<1>1. BillingInv /\ [Next]_billingVars => BillingInv'
  BY NextKeeps
<1> QED
  BY InitEstablishes, <1>1, PTL DEF Spec

\* Types, of every reachable state: no balance is negative, whatever usage, purchases
\* and resets interleave.
THEOREM BillingTyped == Spec => []BillingTypeOK
<1>1. BillingInv => BillingTypeOK
  BY DEF BillingInv, BillingTypeOK, Typed, MeterRecords, Snapshots, Sound, AccountRecords
<1> QED
  BY <1>1, InvariantHolds, PTL

\* The ledger explains every balance: allowances, tokens and cents are what was granted
\* and paid in less what usage took, for any plans, rates, batches and orders of
\* settlement.
THEOREM LedgerExplains == Spec => []LedgerExplainsBalances
<1>1. BillingInv => LedgerExplainsBalances
  BY DEF BillingInv, Sound, LedgerExplainsBalances
<1> QED
  BY <1>1, InvariantHolds, PTL

\* The plan whose limits and models were applied last is one of a subscription that
\* was not canceled, and no two rolling passes are live at once.
THEOREM OneEnvelope == Spec => []EnvelopeIsHeld
<1>1. BillingInv => EnvelopeIsHeld
  <2> SUFFICES ASSUME BillingInv PROVE EnvelopeIsHeld
    OBVIOUS
  <2>1. Enveloped(account)
    BY DEF BillingInv, Sound
  <2>2. Cardinality(Rolling(account)) <= 1
    <3>1. CASE Rolling(account) = {}
      BY <3>1, FS_EmptySet
    <3>2. CASE Rolling(account) # {}
      <4>1. PICK i \in Rolling(account) : Rolling(account) = {i}
        BY <2>1, <3>2 DEF Enveloped
      <4>2. Cardinality({i}) = 1
        BY FS_Singleton
      <4> QED
        BY <4>1, <4>2
    <3> QED
      BY <3>1, <3>2
  <2> QED
    BY <2>1, <2>2 DEF EnvelopeIsHeld, Enveloped
<1> QED
  BY <1>1, InvariantHolds, PTL

\* assertFunded refuses only an account from which debit could not take one token.
THEOREM RefusedPaysNothing == Spec => []RefusedHasNothing
<1>1. BillingInv => RefusedHasNothing
  <2> SUFFICES ASSUME BillingInv, ~Funded(account) PROVE debit(account, 1).left = 1
    BY DEF RefusedHasNothing
  <2> DEFINE sp == Drawing(account, 1)[Drawable(account)]
  <2>1. Typed /\ account \in AccountRecords /\ account.tokens \in Nat /\ account.cents \in Nat
    BY DEF BillingInv, Sound, AccountRecords
  <2>2. account.tokens = 0 /\ account.cents = 0
    BY <2>1 DEF Funded
  <2>3. ASSUME NEW i \in Drawable(account) PROVE Exhausted(account.subs[i])
    <3>1. i \in activeSubscriptions(account) /\ account.subs[i] \in SubType
      BY <2>1, DrawableIsLive, SubsAreTyped
    <3>2. Available(account.subs[i]) \in Nat
      BY <3>1, AvailableType
    <3> QED
      BY <3>1, <3>2 DEF Funded, Exhausted
  <2>4. Drawn(sp, account, 1, Drawable(account))
    BY <2>1, DrawingDraws DEF Typed
  <2>5. sp.left = 1
    BY <2>3, <2>4 DEF Drawn
  <2>6. debit(account, 1).left = sp.left
    BY <2>1, <2>2, DebitPays DEF Typed
  <2> QED
    BY <2>5, <2>6
<1> QED
  BY <1>1, InvariantHolds, PTL

-----------------------------------------------------------------------------
(***************************************************************************)
(* Rows and the wallet.                                                    *)
(***************************************************************************)
\* What Keyed and Booked say of one row: one debit at most, no shortfall without it,
\* and together its units.
LEMMA BookedBills ==
  ASSUME NEW a \in AccountRecords, Keyed(a), Booked(a), Typed, NEW u \in Events
  PROVE  LET usage    == {e \in a.ledger : e.source = "usage" /\ e.ref = u}
             unfunded == {e \in a.ledger : e.source = "unfunded" /\ e.ref = u}
         IN  /\ Cardinality(usage) <= 1
             /\ usage = {} => unfunded = {}
             /\ usage # {} =>
                  /\ meter[u].state \in {"settled", "deleted"}
                  /\ SumFunctionOnSet([e \in a.ledger |-> e.tokens], usage \cup unfunded)
                       = meter[u].units
<1> DEFINE usage == {e \in a.ledger : e.source = "usage" /\ e.ref = u}
           unfunded == {e \in a.ledger : e.source = "unfunded" /\ e.ref = u}
           toks == [e \in a.ledger |-> e.tokens]
<1>1. usage = {} => unfunded = {}
  BY DEF Booked
<1>2. \A e \in usage : usage = {e}
  BY DEF Keyed
<1>3. \A f \in unfunded : unfunded = {f}
  BY DEF Keyed
<1>4. \A e \in a.ledger : toks[e] = e.tokens /\ e.tokens \in Int
  BY DEF AccountRecords, Entries
<1>5. Cardinality(usage) <= 1
  <2>1. CASE usage = {}
    BY <2>1, FS_EmptySet
  <2>2. CASE usage # {}
    <3>1. PICK e \in usage : usage = {e}
      BY <1>2, <2>2
    <3>2. Cardinality({e}) = 1
      BY FS_Singleton
    <3> HIDE DEF usage
    <3> QED
      BY <3>1, <3>2
  <2> QED
    BY <2>1, <2>2
<1>6. ASSUME usage # {}
      PROVE  SumFunctionOnSet(toks, usage \cup unfunded) = meter[u].units
  <2>1. PICK e \in usage : usage = {e}
    BY <1>2, <1>6
  <2>2. e \in a.ledger /\ e.source = "usage" /\ e.ref = u
    BY <2>1
  <2>3. CASE unfunded = {}
    <3>1. ~HasEntry(a, "unfunded", u)
      BY <2>3 DEF HasEntry
    <3>2. e.tokens = meter[u].units
      BY <2>2, <3>1 DEF Booked
    <3>3. toks[e] = e.tokens /\ toks[e] \in Int
      BY <1>4, <2>2
    <3>4. usage \cup unfunded = {e}
      BY <2>1, <2>3
    <3> HIDE DEF toks, usage, unfunded
    <3>5. SumFunctionOnSet(toks, {e}) = toks[e]
      BY <3>3, SumOfOne
    <3> QED
      BY <3>2, <3>3, <3>4, <3>5
  <2>4. CASE unfunded # {}
    <3>1. PICK f \in unfunded : unfunded = {f}
      BY <1>3, <2>4
    <3>2. f \in a.ledger /\ f.source = "unfunded" /\ f.ref = u
      BY <3>1
    <3>3. PICK d \in a.ledger : d.source = "usage" /\ d.ref = u
                                /\ d.tokens + f.tokens = meter[u].units
      BY <3>2 DEF Booked
    <3>4. d = e
      BY <2>2, <3>3 DEF Keyed
    <3>5. e # f
      BY <2>2, <3>2
    <3>6. /\ toks[e] = e.tokens /\ toks[e] \in Int
          /\ toks[f] = f.tokens /\ toks[f] \in Int
      BY <1>4, <2>2, <3>2
    <3>7. usage \cup unfunded = {e, f}
      BY <2>1, <3>1
    <3> HIDE DEF toks, usage, unfunded
    <3>8. SumFunctionOnSet(toks, {e, f}) = toks[e] + toks[f]
      BY <3>5, <3>6, SumOfTwo
    <3> QED
      BY <3>3, <3>4, <3>6, <3>7, <3>8
  <2> QED
    BY <2>3, <2>4
<1>7. usage # {} => meter[u].state \in {"settled", "deleted"}
  BY DEF Booked
<1> QED
  BY <1>1, <1>5, <1>6, <1>7

\* A row is billed at most once and only when it has settled, and if it is billed,
\* what was debited and what was left unfunded add up to its units, also after
\* maintain deleted the row.
THEOREM RowsBilledAtMostOnce == Spec => []BilledAtMostOnce
<1>1. BillingInv => BilledAtMostOnce
  BY BookedBills DEF BillingInv, Sound, BilledAtMostOnce
<1> QED
  BY <1>1, InvariantHolds, PTL

\* Prepaid money is touched last: a step that takes tokens or cents from the wallet
\* leaves no running pass or pack with allowance.
THEOREM WalletDrawnLast == Spec => WalletIsLast
<1>1. ASSUME BillingInv, [Next]_billingVars,
             account'.tokens < account.tokens \/ account'.cents < account.cents,
             NEW i \in activeSubscriptions(account'),
             account'.subs[i].method \in {"rolling_time", "token_pack"},
             windowActive(account'.subs[i])
      PROVE  Available(account'.subs[i]) = 0
  <2>1. Typed /\ Sound(account) /\ AccountMoves
    BY <1>1, StepKeeps DEF BillingInv
  <2>2. /\ account.tokens \in Nat /\ account.cents \in Nat
        /\ account'.tokens \in Nat /\ account'.cents \in Nat
    BY <2>1 DEF AccountMoves, Sound, AccountRecords
  <2>3. account' = reconcile(account)
    BY <1>1, <2>1, <2>2 DEF AccountMoves
  <2>4. AllExhausted(account')
    <3>1. LET b == reconcile(account)
          IN  b.tokens < account.tokens \/ b.cents < account.cents => AllExhausted(b)
      BY <2>1, Reconciled
    <3> QED
      BY <1>1, <2>3, <3>1
  <2> QED
    BY <1>1, <2>4 DEF AllExhausted, Exhausted
<1>2. BillingInv /\ [Next]_billingVars =>
        [account'.tokens < account.tokens \/ account'.cents < account.cents =>
           \A i \in activeSubscriptions(account') :
             LET s == account'.subs[i]
             IN  s.method \in {"rolling_time", "token_pack"} /\ windowActive(s)
                   => Available(s) = 0]_billingVars
  BY <1>1
<1> QED
  BY <1>2, InvariantHolds, PTL DEF Spec, WalletIsLast

\* The cut of a batch is a cut in time: what was reserved before a row of the
\* batch is in the batch.
LEMMA SelectedIsEarliest ==
  ASSUME Typed, NEW a, NEW v \in Selected(a), NEW u \in Unbilled(a), ReservedBefore(u, v)
  PROVE  u \in Selected(a)
<1> DEFINE before(w) == {x \in Unbilled(a) : ReservedBefore(x, w)}
<1>1. Unbilled(a) \subseteq Events /\ IsFiniteSet(Unbilled(a)) /\ v \in Unbilled(a)
  BY SelectedRows DEF Selected
<1>2. \A w \in Events : w \in Nat /\ meter[w].at \in Nat
  BY NumbersAssumption DEF Typed, MeterRecords
<1>3. before(u) \subseteq before(v)
  BY <1>1, <1>2 DEF ReservedBefore
<1>4. IsFiniteSet(before(v))
  BY <1>1, FS_Subset
<1>5. Cardinality(before(v)) < Batch /\ Batch \in Nat
  BY NumbersAssumption DEF Selected
<1>6. Cardinality(before(u)) <= Cardinality(before(v))
      /\ Cardinality(before(u)) \in Nat /\ Cardinality(before(v)) \in Nat
  <2> HIDE DEF before
  <2> QED
    BY <1>3, <1>4, FS_Subset, FS_CardinalityType
<1>7. Cardinality(before(u)) < Batch
  BY <1>5, <1>6
<1> QED
  BY <1>7 DEF Selected

\* The cursor of reconcile passes no settled row that it did not bill, whatever the
\* batch cuts off.
THEOREM CursorPassesBilled == Spec => CursorPassesOnlyBilled
<1>1. ASSUME BillingInv, [Next]_billingVars, NEW u \in Events,
             meter[u].state = "settled", meter[u].at >= account.cursor,
             meter[u].at < account'.cursor
      PROVE  Billed(account', u)
  <2>1. Typed /\ Sound(account) /\ AccountMoves
    BY <1>1, StepKeeps DEF BillingInv
  <2>2. meter[u].at \in Nat /\ account.cursor \in Nat
    BY <2>1 DEF Sound, AccountRecords, Typed, MeterRecords
  <2>3. account' = reconcile(account)
    BY <1>1, <2>1, <2>2 DEF AccountMoves
  <2>4. /\ \A v \in Selected(account) : Billed(account', v)
        /\ account.ledger \subseteq account'.ledger
        /\ account'.cursor \in {meter[v].at : v \in Selected(account)} \cup {account.cursor}
    <3>1. LET b == reconcile(account)
          IN  /\ \A v \in Selected(account) : Billed(b, v)
              /\ account.ledger \subseteq b.ledger
              /\ b.cursor \in {meter[v].at : v \in Selected(account)} \cup {account.cursor}
      BY <2>1, Reconciled
    <3> QED
      BY <2>3, <3>1
  <2>5. CASE Billed(account, u)
    BY <2>4, <2>5 DEF Billed, HasEntry
  <2>6. CASE ~Billed(account, u)
    <3>1. u \in Unbilled(account)
      BY <1>1, <2>6 DEF Unbilled
    <3>2. PICK v \in Selected(account) : account'.cursor = meter[v].at
      BY <1>1, <2>2, <2>4
    <3>3. ReservedBefore(u, v)
      BY <1>1, <3>2 DEF ReservedBefore
    <3>4. u \in Selected(account)
      BY <2>1, <3>1, <3>3, SelectedIsEarliest
    <3> QED
      BY <2>4, <3>4
  <2> QED
    BY <2>5, <2>6
<1>2. BillingInv /\ [Next]_billingVars =>
        [\A u \in Events :
           (/\ meter[u].state = "settled"
            /\ meter[u].at >= account.cursor /\ meter[u].at < account'.cursor)
             => Billed(account', u)]_billingVars
  BY <1>1
<1> QED
  BY <1>2, InvariantHolds, PTL DEF Spec, CursorPassesOnlyBilled
=============================================================================
