----------------------------- MODULE Recursions -----------------------------
(***************************************************************************)
(* Induction over the naturals, as an argument about the least             *)
(* counterexample, and that a function defined by recursion on an interval *)
(* exists.                                                                 *)
(***************************************************************************)
EXTENDS Integers, FiniteSetTheorems, WellFoundedInduction, TLAPS

\* Every nonempty set of naturals has a least element.  With it an induction
\* becomes an argument about the least counterexample.
LEMMA Least ==
  ASSUME NEW S \in SUBSET Nat, S # {}
  PROVE  \E m \in S : \A k \in S : m <= k
<1> DEFINE T == {0 .. n : n \in S}
<1>1. T # {} /\ T \subseteq FiniteSubsetsOf(Nat)
  <2>1. \A n \in S : 0 .. n \in SUBSET Nat /\ IsFiniteSet(0 .. n)
    BY FS_Interval
  <2> QED BY <2>1 DEF FiniteSubsetsOf
<1>2. PICK x \in T : \A y \in T : ~ (<<y, x>> \in StrictSubsetOrdering(Nat))
  <2>1. IsWellFoundedOn(StrictSubsetOrdering(Nat), FiniteSubsetsOf(Nat))
    BY FS_StrictSubsetOrderingWellFounded
  <2> QED BY <1>1, <2>1, WFMin, Zenon
<1>3. PICK m \in S : x = 0 .. m
  OBVIOUS
<1>4. ASSUME NEW k \in S PROVE m <= k
  <2>1. 0 .. k \in T /\ 0 .. k \subseteq Nat /\ 0 .. m \subseteq Nat
    OBVIOUS
  <2>2. ~ (0 .. k \subseteq 0 .. m /\ 0 .. k # 0 .. m)
    BY <1>2, <1>3, <2>1 DEF StrictSubsetOrdering
  <2> QED BY <2>2
<1> QED BY <1>4

\* G[n][f] is in V, and looks only at what f is below n.
RecursiveStep(G, N, V) ==
  /\ V # {}
  /\ \A n \in 0 .. N : \A f \in [0 .. N -> V] : G[n][f] \in V
  /\ \A n \in 0 .. N : \A f, g \in [0 .. N -> V] :
       (\A m \in 0 .. N : m < n => f[m] = g[m]) => G[n][f] = G[n][g]

\* A function defined by recursion on 0 .. N exists.
LEMMA Recursion ==
  ASSUME NEW N \in Nat, NEW V, NEW G, RecursiveStep(G, N, V)
  PROVE  \E f \in [0 .. N -> V] : \A n \in 0 .. N : f[n] = G[n][f]
<1> USE DEF RecursiveStep
<1> DEFINE Good(k) == \E f \in [0 .. N -> V] : \A n \in 0 .. N : n < k => f[n] = G[n][f]
           Bad == {k \in 0 .. N + 1 : ~Good(k)}
<1>1. SUFFICES ASSUME Bad # {} PROVE FALSE
  <2>1. \A n \in 0 .. N : n < N + 1
    OBVIOUS
  <2>2. N + 1 \notin Bad => Good(N + 1)
    OBVIOUS
  <2>3. Good(N + 1) => \E f \in [0 .. N -> V] : \A n \in 0 .. N : f[n] = G[n][f]
    BY <2>1
  <2> QED BY <2>2, <2>3
<1>2. PICK k \in Bad : \A j \in Bad : k <= j
  <2>1. Bad \in SUBSET Nat
    OBVIOUS
  <2> QED BY <1>1, <2>1, Least
<1>3. Good(0)
  <2>1. PICK v \in V : TRUE
    OBVIOUS
  <2>2. [n \in 0 .. N |-> v] \in [0 .. N -> V] /\ \A n \in 0 .. N : ~(n < 0)
    OBVIOUS
  <2> QED BY <2>2
<1>4. k \in 1 .. N + 1 /\ k - 1 \in 0 .. N + 1 /\ k - 1 \in 0 .. N
  BY <1>3
<1>5. Good(k - 1)
  BY <1>2, <1>4
<1>6. PICK f \in [0 .. N -> V] : \A n \in 0 .. N : n < k - 1 => f[n] = G[n][f]
  BY <1>5
<1> DEFINE g == [n \in 0 .. N |-> IF n = k - 1 THEN G[k - 1][f] ELSE f[n]]
<1>7. g \in [0 .. N -> V]
  BY <1>4
<1>8. \A n \in 0 .. N : n < k => g[n] = G[n][g]
  <2> TAKE n \in 0 .. N
  <2>1. SUFFICES ASSUME n < k PROVE g[n] = G[n][g]
    OBVIOUS
  <2>2. \A m \in 0 .. N : m < n => f[m] = g[m]
    BY <2>1, <1>4
  <2>3. G[n][f] = G[n][g]
    BY <2>2, <1>7
  <2>4. CASE n = k - 1
    BY <2>3, <2>4
  <2>5. CASE n # k - 1
    BY <1>6, <2>1, <2>3, <2>5, <1>4
  <2> QED BY <2>4, <2>5
<1>9. Good(k)
  BY <1>7, <1>8
<1> QED BY <1>2, <1>9
=============================================================================
