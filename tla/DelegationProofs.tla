-------------------------- MODULE DelegationProofs --------------------------
(***************************************************************************)
(* Proofs about Delegation, and about the terminal interface above it.     *)
(* The slots are exact because a delegation stands in the queue at most    *)
(* once and never while it holds a slot; its outcomes are told because a   *)
(* record and a transcript are written by the step that leaves the phase   *)
(* they speak of.  On the attended screen a node is in place and a         *)
(* question shown because nothing of a turn is known before it starts, and *)
(* from then on its run is tracked (ScreenInv).  The last section is about *)
(* aborts: that what drains a turn, and the end that frees the screen, are *)
(* always still to come.                                                   *)
(***************************************************************************)
EXTENDS Tui, Recursions, SequenceTheorems

\* Nobody stands in the queue twice.
QueuedOnce == \A i, j \in DOMAIN queue : queue[i] = queue[j] => i = j

\* The inductive invariant of the slots.
SlotInv == DelegationTypeOK /\ SlotsExact /\ QueuedOnce

\* What the record says of a delegation that is not over yet.
RecordFollows ==
  \A d \in Delegations :
    /\ phase[d] \in {"idle", "queued", "granted"} => record[d] = "none"
    /\ phase[d] = "streaming" => record[d] = "running"
    /\ phase[d] = "judging" => record[d] \in {"done", "no-output"} /\ d \notin late
    /\ d \in late => Aborted(d) /\ phase[d] \in {"streaming", "over"}
    /\ timer[d] # "off" => d \in Timed

-----------------------------------------------------------------------------
(* Sequences without repetition *)

\* The elements of a sequence, and that no two places hold the same one.
Elems(s) == {s[i] : i \in DOMAIN s}
Once(s) == \A i, j \in DOMAIN s : s[i] = s[j] => i = j

\* Taking the head off leaves the other elements, once each.
LEMMA TailLeavesHead ==
  ASSUME NEW S, NEW s \in Seq(S), s # <<>>, Once(s)
  PROVE  /\ Tail(s) \in Seq(S) /\ Head(s) \in Elems(s)
         /\ Elems(Tail(s)) = Elems(s) \ {Head(s)}
         /\ Once(Tail(s))
<1>1. /\ Tail(s) \in Seq(S) /\ Len(Tail(s)) = Len(s) - 1 /\ Len(s) \in Nat \ {0}
      /\ \A i \in 1 .. Len(Tail(s)) : Tail(s)[i] = s[i + 1]
      /\ Head(s) = s[1]
  BY HeadTailProperties
<1>2. DOMAIN s = 1 .. Len(s) /\ DOMAIN Tail(s) = 1 .. Len(s) - 1
  BY <1>1
<1>3. Once(Tail(s))
  BY <1>1, <1>2 DEF Once
<1>4. ASSUME NEW x PROVE x \in Elems(Tail(s)) => x \in Elems(s) \ {Head(s)}
  BY <1>1, <1>2 DEF Elems, Once
<1>5. ASSUME NEW i \in DOMAIN s, s[i] # Head(s) PROVE s[i] \in Elems(Tail(s))
  <2>1. i - 1 \in DOMAIN Tail(s) /\ Tail(s)[i - 1] = s[i]
    BY <1>1, <1>2, <1>5
  <2> QED BY <2>1 DEF Elems
<1>6. Elems(Tail(s)) = Elems(s) \ {Head(s)}
  BY <1>4, <1>5 DEF Elems
<1>7. Head(s) \in Elems(s)
  <2>1. 1 \in DOMAIN s /\ Head(s) = s[1]
    BY <1>1, <1>2
  <2> QED BY <2>1 DEF Elems
<1> QED BY <1>1, <1>3, <1>6, <1>7

\* A new element at the end is one element more; once, if it was not there.
LEMMA AppendAddsOne ==
  ASSUME NEW S, NEW s \in Seq(S), NEW e \in S
  PROVE  /\ Append(s, e) \in Seq(S) /\ Append(s, e) # <<>>
         /\ Elems(Append(s, e)) = Elems(s) \cup {e}
         /\ Once(s) /\ e \notin Elems(s) => Once(Append(s, e))
<1> DEFINE a == Append(s, e)
<1>1. /\ a \in Seq(S) /\ a # <<>> /\ Len(a) = Len(s) + 1 /\ Len(s) \in Nat
      /\ \A i \in 1 .. Len(s) : a[i] = s[i]
      /\ a[Len(s) + 1] = e
  BY AppendProperties
<1>2. DOMAIN s = 1 .. Len(s) /\ DOMAIN a = 1 .. Len(s) + 1
  BY <1>1
<1> HIDE DEF a
<1>3. \A i \in DOMAIN a : i \in DOMAIN s \/ i = Len(s) + 1
  BY <1>1, <1>2
<1>4. Once(s) /\ e \notin Elems(s) => Once(a)
  BY <1>1, <1>2, <1>3 DEF Once, Elems
<1>5. Elems(a) = Elems(s) \cup {e}
  BY <1>1, <1>2, <1>3 DEF Elems
<1> QED BY <1>1, <1>4, <1>5 DEF a

\* The equation that defines the function in Without.
KeptFrom(s, d, kept) ==
  [n \in 0 .. Len(s) |-> IF n = 0 THEN <<>>
                         ELSE IF s[n] = d THEN kept[n - 1]
                         ELSE Append(kept[n - 1], s[n])]

\* Without(s, d) has the elements of s but d, and none twice that s has once.
LEMMA WithoutOne ==
  ASSUME NEW S, NEW s \in Seq(S), NEW d
  PROVE  /\ T!Without(s, d) \in Seq(S) /\ Elems(T!Without(s, d)) = Elems(s) \ {d}
         /\ Once(s) => Once(T!Without(s, d))
<1> DEFINE D == 0 .. Len(s)
           V == Seq(S)
           step(n, f) == IF n = 0 THEN <<>> ELSE IF s[n] = d THEN f[n - 1] ELSE Append(f[n - 1], s[n])
           G == [n \in D |-> [f \in [D -> V] |-> step(n, f)]]
<1>1. Len(s) \in Nat /\ DOMAIN s = 1 .. Len(s) /\ \A n \in 1 .. Len(s) : s[n] \in S
  OBVIOUS
<1>e. <<>> \in V /\ V # {}
  OBVIOUS
<1>v. \A q \in V, x \in S : Append(q, x) \in V
  OBVIOUS
<1> HIDE DEF V
<1>g. \A n \in D, f \in [D -> V] : G[n][f] = step(n, f)
  OBVIOUS
<1>d. \A n \in D : n # 0 => n \in 1 .. Len(s) /\ n - 1 \in D /\ n - 1 < n /\ n \in Nat
  BY <1>1
<1> HIDE DEF D, G
<1>2. \A n \in D : \A f \in [D -> V] : G[n][f] \in V
  <2> SUFFICES ASSUME NEW n \in D, NEW f \in [D -> V] PROVE G[n][f] \in V
    OBVIOUS
  <2> SUFFICES step(n, f) \in V
    BY <1>g
  <2>1. CASE n = 0
    BY <1>e, <2>1
  <2>2. CASE n # 0
    <3>1. f[n - 1] \in V /\ s[n] \in S
      BY <1>1, <1>d, <2>2
    <3> QED BY <1>v, <2>2, <3>1
  <2> QED BY <2>1, <2>2
<1>3. \A n \in D : \A f, g \in [D -> V] :
         (\A m \in D : m < n => f[m] = g[m]) => G[n][f] = G[n][g]
  <2> SUFFICES ASSUME NEW n \in D, NEW f \in [D -> V], NEW g \in [D -> V],
                      \A m \in D : m < n => f[m] = g[m]
               PROVE  G[n][f] = G[n][g]
    OBVIOUS
  <2>1. n # 0 => f[n - 1] = g[n - 1]
    BY <1>d
  <2>2. step(n, f) = step(n, g)
    BY <2>1
  <2> QED BY <1>g, <2>2
<1> HIDE DEF step
<1>4. PICK f \in [D -> V] : \A n \in D : f[n] = G[n][f]
  <2>1. RecursiveStep(G, Len(s), V)
    BY <1>e, <1>2, <1>3 DEF D, RecursiveStep
  <2> QED BY <1>1, <2>1, Recursion DEF D
<1>5. f = KeptFrom(s, d, f)
  <2>1. \A n \in D : f[n] = step(n, f)
    BY <1>g, <1>4
  <2>2. f = [n \in D |-> f[n]]
    OBVIOUS
  <2> QED BY <2>1, <2>2 DEF KeptFrom, D, step
<1> DEFINE kept == CHOOSE k : k = KeptFrom(s, d, k)
<1>6. kept = KeptFrom(s, d, kept)
  BY <1>5
<1>7. T!Without(s, d) = kept[Len(s)]
  BY DEF T!Without, KeptFrom
<1> HIDE DEF kept
<1>8. /\ kept[0] = <<>>
      /\ \A n \in 1 .. Len(s) : kept[n] = IF s[n] = d THEN kept[n - 1] ELSE Append(kept[n - 1], s[n])
  <2>1. 0 \in 0 .. Len(s) /\ \A n \in 1 .. Len(s) : n \in 0 .. Len(s) /\ n # 0
    BY <1>1
  <2> QED BY <1>6, <2>1 DEF KeptFrom
<1> DEFINE upTo(n) == {s[i] : i \in 1 .. n}
           Fits(n) == /\ kept[n] \in Seq(S) /\ Elems(kept[n]) = upTo(n) \ {d}
                      /\ Once(s) => Once(kept[n])
           Bad == {n \in 0 .. Len(s) : ~Fits(n)}
<1>9. ASSUME Bad # {} PROVE FALSE
  <2>1. Bad \in SUBSET Nat
    OBVIOUS
  <2>2. PICK n \in Bad : \A k \in Bad : n <= k
    BY <1>9, <2>1, Least
  <2>3. n \in 0 .. Len(s) /\ ~Fits(n)
    OBVIOUS
  <2>4. n # 0
    <3>1. Elems(<<>>) = {} /\ Once(<<>>) /\ <<>> \in Seq(S)
      BY DEF Elems, Once
    <3>2. upTo(0) = {}
      OBVIOUS
    <3>3. Fits(0)
      BY <3>1, <3>2, <1>8
    <3> QED BY <2>3, <3>3
  <2>5. n \in 1 .. Len(s) /\ n - 1 \in 0 .. Len(s) /\ n - 1 < n
    BY <1>1, <2>3, <2>4
  <2>6. Fits(n - 1)
    BY <2>2, <2>5, SMTT(20)
  <2> DEFINE k == kept[n - 1]
  <2>7. k \in Seq(S) /\ Elems(k) = upTo(n - 1) \ {d} /\ (Once(s) => Once(k))
    BY <2>6
  <2>8. upTo(n) = upTo(n - 1) \cup {s[n]}
    <3>1. 1 .. n = (1 .. n - 1) \cup {n}
      BY <2>5, <1>1
    <3> QED BY <3>1
  <2>9. Once(s) => s[n] \notin upTo(n - 1)
    BY <1>1, <2>5 DEF Once
  <2>10. kept[n] = IF s[n] = d THEN k ELSE Append(k, s[n])
    BY <1>8, <2>5
  <2> HIDE DEF upTo, k
  <2>11. CASE s[n] = d
    BY <2>3, <2>7, <2>8, <2>10, <2>11
  <2>12. CASE s[n] # d
    <3>1. s[n] \in S
      BY <1>1, <2>5
    <3>2. /\ Append(k, s[n]) \in Seq(S) /\ Elems(Append(k, s[n])) = Elems(k) \cup {s[n]}
          /\ Once(k) /\ s[n] \notin Elems(k) => Once(Append(k, s[n]))
      BY <2>7, <3>1, AppendAddsOne
    <3> QED BY <2>3, <2>7, <2>8, <2>9, <2>10, <2>12, <3>2
  <2> QED BY <2>11, <2>12
<1> HIDE DEF Fits
<1>10. Fits(Len(s))
  BY <1>1, <1>9
<1> USE DEF Fits
<1>11. upTo(Len(s)) = Elems(s)
  BY <1>1 DEF Elems
<1> QED BY <1>7, <1>10, <1>11

-----------------------------------------------------------------------------
(* The semaphore *)

\* The slot holders are among the delegations, which are finitely many.
LEMMA HoldersFinite ==
  ASSUME DelegationTypeOK
  PROVE  IsFiniteSet(Holders) /\ Cardinality(Holders) \in Nat
<1>1. Holders \in SUBSET Delegations /\ IsFiniteSet(Delegations)
  BY DelegationAssumption DEF Holders
<1> QED BY <1>1, FS_Subset, FS_CardinalityType

\* Giving a slot back counts it down or hands it to the head of the queue.
LEMMA ReleaseKeepsSlots ==
  ASSUME SlotInv, NEW d \in Delegations, d \in Holders, Release(d)
  PROVE  /\ active' \in Nat /\ queue' \in Seq(Delegations)
         /\ phase' \in [Delegations -> Phases]
         /\ SlotsExact' /\ QueuedOnce' /\ Pool!GiveBack(d)
<1> USE DelegationAssumption
<1>0. /\ IsFiniteSet(Holders) /\ Cardinality(Holders) \in Nat
      /\ Holders \subseteq Delegations
  BY HoldersFinite DEF SlotInv, Holders
<1>t. /\ phase \in [Delegations -> Phases] /\ queue \in Seq(Delegations)
      /\ active \in Nat /\ Once(queue) /\ Elems(queue) = Queued
      /\ MaxConcurrency \in Nat \ {0}
  BY DEF SlotInv, DelegationTypeOK, QueuedOnce, Once, Elems, Queued
<1>1. CASE queue = <<>>
  <2>1. /\ phase' = [phase EXCEPT ![d] = "over"] /\ active' = active - 1
        /\ queue' = queue
    BY <1>1 DEF Release
  <2>2. phase' \in [Delegations -> Phases]
    BY <2>1, <1>t DEF Phases
  <2>3. Holders' = Holders \ {d}
    BY <2>1, <1>t DEF Holders, Holding
  <2>4. Cardinality(Holders') = Cardinality(Holders) - 1 /\ Cardinality(Holders') \in Nat
    <3>1. IsFiniteSet(Holders \ {d}) /\ Cardinality(Holders \ {d}) = Cardinality(Holders) - 1
      BY <1>0, FS_RemoveElement
    <3> QED BY <3>1, <2>3, FS_CardinalityType
  <2>5. Queued' = {e \in Delegations : phase'[e] = "queued"}
    <3>1. {e \in Delegations : phase'[e] = "queued"} = {e \in Delegations : phase[e] = "queued"}
      BY <2>1, <1>t DEF Holders, Holding
    <3>2. Queued' = Queued
      BY <2>1 DEF Queued
    <3> QED BY <3>1, <3>2 DEF SlotInv, SlotsExact
  <2>6. active' = Cardinality(Holders') /\ active' <= MaxConcurrency /\ active' \in Nat
    BY <2>1, <2>4, <1>0, <1>t DEF SlotInv, SlotsExact
  <2>7. SlotsExact' /\ QueuedOnce'
    BY <2>1, <2>5, <2>6, <1>1 DEF SlotInv, SlotsExact, QueuedOnce
  <2>8. Pool!GiveBack(d)
    BY <2>1, <2>3, <1>1 DEF Pool!GiveBack
  <2> QED BY <2>1, <2>2, <2>6, <2>7, <2>8, <1>t
<1>2. CASE queue # <<>>
  <2> DEFINE h == Head(queue)
  <2>1. /\ phase' = [phase EXCEPT ![d] = "over", ![h] = "granted"]
        /\ active' = active /\ queue' = Tail(queue)
    BY <1>2 DEF Release
  <2>2. /\ Tail(queue) \in Seq(Delegations) /\ h \in Elems(queue)
        /\ Elems(Tail(queue)) = Elems(queue) \ {h} /\ Once(Tail(queue))
    BY <1>2, <1>t, TailLeavesHead
  <2>3. h \in Delegations /\ phase[h] = "queued" /\ h # d /\ h \notin Holders
    BY <2>2, <1>t DEF SlotInv, SlotsExact, Holders, Holding
  <2> HIDE DEF h
  <2>4. phase' \in [Delegations -> Phases]
    BY <2>1, <2>3, <1>t DEF Phases, Holding
  <2>5. Holders' = (Holders \ {d}) \cup {h}
    BY <2>1, <2>3, <1>t DEF Holders, Holding
  <2>6. Cardinality(Holders') = Cardinality(Holders)
    <3>1. IsFiniteSet(Holders \ {d}) /\ Cardinality(Holders \ {d}) = Cardinality(Holders) - 1
      BY <1>0, FS_RemoveElement
    <3>2. Cardinality((Holders \ {d}) \cup {h}) = Cardinality(Holders \ {d}) + 1
      BY <3>1, <2>3, FS_AddElement
    <3> QED BY <3>1, <3>2, <2>5, <1>0
  <2>7. Queued' = {e \in Delegations : phase'[e] = "queued"}
    <3>1. Queued' = Elems(Tail(queue))
      BY <2>1 DEF Queued, Elems
    <3>2. {e \in Delegations : phase'[e] = "queued"}
            = {e \in Delegations : phase[e] = "queued"} \ {h}
      BY <2>1, <2>3, <1>t DEF Holders, Holding
    <3> QED BY <3>1, <3>2, <2>2, <1>t DEF SlotInv, SlotsExact
  <2>8. SlotsExact' /\ QueuedOnce'
    <3>1. active' = Cardinality(Holders') /\ active' <= MaxConcurrency
          /\ active' = MaxConcurrency
      BY <2>1, <2>6, <1>2, <1>t DEF SlotInv, SlotsExact
    <3>2. QueuedOnce'
      BY <2>1, <2>2 DEF QueuedOnce, Once
    <3> QED BY <3>1, <3>2, <2>7 DEF SlotsExact
  <2>9. Pool!GiveBack(d)
    BY <2>1, <2>5, <1>2 DEF Pool!GiveBack, h
  <2> QED BY <2>1, <2>2, <2>4, <2>8, <2>9, <1>t
<1> QED BY <1>1, <1>2

\* A step of a delegation that keeps its slot, or that has none, changes nothing.
LEMMA KeepsSlots ==
  ASSUME SlotInv, NEW d \in Delegations, NEW p \in Holding, d \in Holders,
         phase' = [phase EXCEPT ![d] = p], UNCHANGED semVars
  PROVE  /\ phase' \in [Delegations -> Phases]
         /\ SlotsExact' /\ QueuedOnce' /\ UNCHANGED <<Holders, queue>>
<1>t. phase \in [Delegations -> Phases]
  BY DEF SlotInv, DelegationTypeOK
<1>1. phase' \in [Delegations -> Phases]
  BY <1>t DEF Phases
<1>2. Holders' = Holders
  BY <1>t DEF Holders, Holding
<1>3. {e \in Delegations : phase'[e] = "queued"} = {e \in Delegations : phase[e] = "queued"}
  BY <1>t DEF Holders, Holding
<1>4. SlotsExact'
  BY <1>2, <1>3 DEF SlotInv, SlotsExact, Queued, semVars
<1> QED BY <1>1, <1>2, <1>4 DEF SlotInv, QueuedOnce, semVars

\* The instance's cardinality is the same operator.
LEMMA SameCardinality == \A S : Pool!Cardinality(S) = Cardinality(S)
BY DEF Pool!Cardinality, Cardinality

\* acquire() takes a free slot or joins the end of the queue.
LEMMA DelegateKeepsSlots ==
  ASSUME SlotInv, NEW d \in Delegations, Delegate(d)
  PROVE  /\ active' \in Nat /\ queue' \in Seq(Delegations)
         /\ phase' \in [Delegations -> Phases]
         /\ SlotsExact' /\ QueuedOnce' /\ (Pool!Take(d) \/ Pool!Wait(d))
<1> USE DelegationAssumption
<1>0. /\ IsFiniteSet(Holders) /\ Cardinality(Holders) \in Nat
      /\ d \notin Holders /\ d \notin Queued
  BY HoldersFinite DEF SlotInv, SlotsExact, Holders, Holding, Delegate
<1>t. /\ phase \in [Delegations -> Phases] /\ queue \in Seq(Delegations)
      /\ active \in Nat /\ Once(queue) /\ Elems(queue) = Queued
      /\ MaxConcurrency \in Nat \ {0} /\ phase[d] = "idle"
  BY DEF SlotInv, DelegationTypeOK, QueuedOnce, Once, Elems, Queued, Delegate
<1>p. Pool!Waiting = Queued
  BY DEF Pool!Waiting, Queued
<1>1. CASE active >= MaxConcurrency
  <2>1. /\ phase' = [phase EXCEPT ![d] = "queued"] /\ active' = active
        /\ queue' = Append(queue, d)
    BY <1>1 DEF Delegate
  <2>2. /\ queue' \in Seq(Delegations) /\ queue' # <<>>
        /\ Elems(queue') = Elems(queue) \cup {d} /\ Once(queue')
    BY <2>1, <1>0, <1>t, AppendAddsOne
  <2>3. phase' \in [Delegations -> Phases]
    BY <2>1, <1>t DEF Phases
  <2>4. Holders' = Holders
    BY <2>1, <1>0, <1>t DEF Holders, Holding
  <2>5. Queued' = {e \in Delegations : phase'[e] = "queued"}
    <3>1. Queued' = Queued \cup {d}
      BY <2>2, <1>t DEF Queued, Elems
    <3>2. {e \in Delegations : phase'[e] = "queued"}
            = {e \in Delegations : phase[e] = "queued"} \cup {d}
      BY <2>1, <1>t
    <3> QED BY <3>1, <3>2 DEF SlotInv, SlotsExact
  <2>6. active = MaxConcurrency /\ active = Cardinality(Holders)
    BY <1>1, <1>t DEF SlotInv, SlotsExact
  <2>7. SlotsExact' /\ QueuedOnce'
    BY <2>1, <2>2, <2>4, <2>5, <2>6, <1>t DEF SlotsExact, QueuedOnce, Once
  <2>8. Pool!Wait(d)
    BY <2>1, <2>4, <2>6, <1>0, <1>p, SameCardinality DEF Pool!Wait
  <2> QED BY <2>1, <2>2, <2>3, <2>7, <2>8, <1>t
<1>2. CASE ~(active >= MaxConcurrency)
  <2>1. /\ phase' = [phase EXCEPT ![d] = "granted"] /\ active' = active + 1
        /\ queue' = queue
    BY <1>2 DEF Delegate
  <2>2. phase' \in [Delegations -> Phases]
    BY <2>1, <1>t DEF Phases, Holding
  <2>3. Holders' = Holders \cup {d}
    BY <2>1, <1>t DEF Holders, Holding
  <2>4. Cardinality(Holders') = Cardinality(Holders) + 1
    BY <2>3, <1>0, FS_AddElement
  <2>5. Queued' = {e \in Delegations : phase'[e] = "queued"}
    <3>1. {e \in Delegations : phase'[e] = "queued"} = {e \in Delegations : phase[e] = "queued"}
      BY <2>1, <1>t
    <3> QED BY <3>1, <2>1 DEF SlotInv, SlotsExact, Queued
  <2>6. active = Cardinality(Holders) /\ active < MaxConcurrency /\ queue = <<>>
    BY <1>2, <1>t DEF SlotInv, SlotsExact
  <2>7. SlotsExact' /\ QueuedOnce'
    BY <2>1, <2>4, <2>5, <2>6, <1>t DEF SlotsExact, QueuedOnce, SlotInv
  <2>8. Pool!Take(d)
    BY <2>1, <2>3, <2>6, <1>0, <1>p, SameCardinality DEF Pool!Take
  <2> QED BY <2>1, <2>2, <2>7, <2>8, <1>t
<1> QED BY <1>1, <1>2

-----------------------------------------------------------------------------
(* Every step *)

\* The initial states are well typed.
LEMMA TypesStart == Init => DelegationTypeOK
BY DelegationAssumption, EmptySeq DEF Init, DelegationTypeOK, Phases, Records

\* The initial states have every slot free, in the pool's terms too.
LEMMA SlotsStart == Init => SlotInv /\ Pool!PoolInit
<1> SUFFICES ASSUME Init PROVE SlotInv /\ Pool!PoolInit
  OBVIOUS
<1>1. Holders = {} /\ queue = <<>> /\ active = 0
  BY DEF Init, Holders, Holding
<1>2. Cardinality(Holders) = 0
  BY <1>1, FS_EmptySet
<1>3. Queued = {} /\ {d \in Delegations : phase[d] = "queued"} = {}
  BY <1>1 DEF Queued, Init
<1>4. SlotsExact /\ QueuedOnce
  BY <1>1, <1>2, <1>3, DelegationAssumption DEF SlotsExact, QueuedOnce
<1> QED BY <1>1, <1>4, TypesStart DEF SlotInv, Pool!PoolInit

\* What every step does to the slots, and what the pool sees of it.
LEMMA SlotsStep ==
  ASSUME SlotInv, [Next]_vars
  PROVE  SlotInv' /\ [Pool!PoolNext]_(Pool!poolVars)
<1> USE DelegationAssumption DEF SlotInv
<1>t. phase \in [Delegations -> Phases] /\ timer \in [Delegations -> {"off", "armed", "fired"}]
      /\ record \in [Delegations -> Records] /\ transcript \in [Delegations -> Turns \cup {NoTurn}]
      /\ turn \in [Turns -> {"waiting", "driving", "over"}]
      /\ late \subseteq Delegations /\ aborted \subseteq Turns /\ newest \in Turns \cup {NoTurn}
      /\ active \in Nat /\ queue \in Seq(Delegations)
  BY DEF DelegationTypeOK
<1>stay. ASSUME UNCHANGED <<phase, semVars>>
         PROVE  SlotsExact' /\ QueuedOnce' /\ UNCHANGED <<Holders, queue>>
                /\ phase' \in [Delegations -> Phases]
  BY <1>stay, <1>t DEF SlotsExact, QueuedOnce, Holders, Queued, semVars
<1>1. CASE UNCHANGED vars
  <2>1. SlotsExact' /\ QueuedOnce' /\ UNCHANGED <<Holders, queue>>
    BY <1>1, <1>stay DEF vars
  <2> QED BY <1>1, <2>1, <1>t DEF vars, turnVars, semVars, outVars, DelegationTypeOK, Pool!poolVars
<1>2. ASSUME NEW t \in Turns, BeginTurn(t) \/ AbortTurn(t) \/ EndTurn(t)
      PROVE  SlotInv' /\ UNCHANGED <<Holders, queue>>
  <2>1. UNCHANGED <<phase, semVars, timer, late, outVars>>
    BY <1>2 DEF BeginTurn, AbortTurn, EndTurn
  <2>2. turn' \in [Turns -> {"waiting", "driving", "over"}]
        /\ aborted' \subseteq Turns /\ newest' \in Turns \cup {NoTurn}
    BY <1>2, <1>t DEF BeginTurn, AbortTurn, EndTurn
  <2> QED BY <2>1, <2>2, <1>stay, <1>t DEF DelegationTypeOK, semVars, outVars
<1>3. ASSUME NEW d \in Delegations, Delegate(d)
      PROVE  SlotInv' /\ (Pool!Take(d) \/ Pool!Wait(d))
  <2>1. UNCHANGED <<turnVars, timer, late, outVars>>
    BY <1>3 DEF Delegate
  <2> QED BY <1>3, <2>1, <1>t, DelegateKeepsSlots DEF DelegationTypeOK, turnVars, outVars
<1>4. ASSUME NEW d \in Delegations, Start(d)
      PROVE  SlotInv' /\ UNCHANGED <<Holders, queue>>
  <2>1. d \in Holders /\ phase' = [phase EXCEPT ![d] = "streaming"] /\ UNCHANGED semVars
        /\ "streaming" \in Holding
    BY <1>4 DEF Start, Holders, Holding
  <2>2. phase' \in [Delegations -> Phases] /\ SlotsExact' /\ QueuedOnce'
        /\ UNCHANGED <<Holders, queue>>
    BY <2>1, KeepsSlots
  <2>3. /\ timer' \in [Delegations -> {"off", "armed", "fired"}] /\ late' \subseteq Delegations
        /\ record' \in [Delegations -> Records] /\ UNCHANGED <<turnVars, semVars, transcript>>
    BY <1>4, <1>t DEF Start, Records
  <2> QED BY <2>2, <2>3, <1>t DEF DelegationTypeOK, turnVars, semVars
<1>5. ASSUME NEW d \in Delegations, Timeout(d)
      PROVE  SlotInv' /\ UNCHANGED <<Holders, queue>>
  <2>1. UNCHANGED <<turnVars, phase, semVars, late, outVars>>
        /\ timer' \in [Delegations -> {"off", "armed", "fired"}]
    BY <1>5, <1>t DEF Timeout
  <2> QED BY <2>1, <1>stay, <1>t DEF DelegationTypeOK, turnVars, semVars, outVars
<1>6. ASSUME NEW d \in Delegations, d \in Holders, Release(d),
             UNCHANGED turnVars, late' \subseteq Delegations,
             record' \in [Delegations -> Records],
             transcript' \in [Delegations -> Turns \cup {NoTurn}]
      PROVE  SlotInv' /\ Pool!GiveBack(d)
  <2>1. timer' \in [Delegations -> {"off", "armed", "fired"}]
    BY <1>6, <1>t DEF Release
  <2> QED BY <1>6, <2>1, <1>t, ReleaseKeepsSlots DEF DelegationTypeOK, turnVars
<1>7. ASSUME NEW d \in Delegations, NEW s \in Records, phase[d] = "streaming", Conclude(d, s),
             UNCHANGED <<turnVars, late>>
      PROVE  SlotInv' /\ (Pool!GiveBack(d) \/ UNCHANGED <<Holders, queue>>)
  <2>1. /\ record' \in [Delegations -> Records] /\ late' \subseteq Delegations
        /\ transcript' \in [Delegations -> Turns \cup {NoTurn}]
        /\ UNCHANGED turnVars /\ d \in Holders
    BY <1>7, <1>t DEF Conclude, Persist, Holders, Holding
  <2>2. CASE Release(d)
    BY <2>1, <2>2, <1>6
  <2>3. CASE phase' = [phase EXCEPT ![d] = "judging"] /\ UNCHANGED <<semVars, timer>>
    <3>1. "judging" \in Holding
      BY DEF Holding
    <3>2. phase' \in [Delegations -> Phases] /\ SlotsExact' /\ QueuedOnce'
          /\ UNCHANGED <<Holders, queue>>
      BY <2>1, <2>3, <3>1, KeepsSlots
    <3> QED BY <2>1, <2>3, <3>2, <1>t DEF DelegationTypeOK, turnVars, semVars
  <2> QED BY <1>7, <2>2, <2>3 DEF Conclude
<1>8. ASSUME NEW d \in Delegations,
             StartFails(d) \/ EndsTimedOut(d) \/ EndsAborted(d) \/ Fails(d) \/ JudgeEnds(d)
      PROVE  SlotInv' /\ Pool!GiveBack(d)
  <2>1. d \in Holders /\ Release(d) /\ UNCHANGED turnVars /\ late' \subseteq Delegations
    BY <1>8, <1>t
       DEF StartFails, EndsTimedOut, EndsAborted, Fails, JudgeEnds, Holders, Holding
  <2>2. record' \in [Delegations -> Records]
    BY <1>8, <1>t DEF StartFails, EndsTimedOut, EndsAborted, Fails, JudgeEnds, Records, outVars
  <2>3. transcript' \in [Delegations -> Turns \cup {NoTurn}]
    BY <1>8, <1>t DEF StartFails, EndsTimedOut, EndsAborted, Fails, JudgeEnds, Persist, outVars
  <2> QED BY <2>1, <2>2, <2>3, <1>6
<1>9. ASSUME NEW d \in Delegations, Completes(d) \/ EndsSilent(d)
      PROVE  SlotInv' /\ (Pool!GiveBack(d) \/ UNCHANGED <<Holders, queue>>)
  BY <1>9, <1>7 DEF Completes, EndsSilent, Records
<1> QED
  BY <1>1, <1>2, <1>3, <1>4, <1>5, <1>8, <1>9
     DEF Next, Stops, Pool!PoolNext, Pool!poolVars

-----------------------------------------------------------------------------
(* What a delegation leaves behind *)

\* Initially nothing is recorded.
LEMMA OutcomesStart == Init => RecordFollows /\ OutcomeTold
BY DEF Init, RecordFollows, OutcomeTold

\* A release concerns the phases of two delegations and the timer of one.
LEMMA ReleaseMoves ==
  ASSUME SlotInv, NEW d \in Delegations, d \in Holders, Release(d)
  PROVE  /\ phase'[d] = "over" /\ timer'[d] = "off"
         /\ \A e \in Delegations \ {d} :
              /\ timer'[e] = timer[e]
              /\ phase'[e] = phase[e] \/ (phase[e] = "queued" /\ phase'[e] = "granted")
<1>t. phase \in [Delegations -> Phases] /\ timer \in [Delegations -> {"off", "armed", "fired"}]
      /\ queue \in Seq(Delegations)
  BY DEF SlotInv, DelegationTypeOK
<1>1. timer'[d] = "off" /\ \A e \in Delegations \ {d} : timer'[e] = timer[e]
  BY <1>t DEF Release
<1>2. CASE queue = <<>>
  BY <1>1, <1>2, <1>t DEF Release
<1>3. CASE queue # <<>>
  <2>1. Head(queue) \in Elems(queue)
    BY <1>3, <1>t, TailLeavesHead DEF SlotInv, QueuedOnce, Once
  <2>2. Head(queue) \in Delegations /\ phase[Head(queue)] = "queued" /\ Head(queue) # d
    BY <2>1 DEF SlotInv, SlotsExact, Queued, Elems, Holders, Holding
  <2>3. phase' = [phase EXCEPT ![d] = "over", ![Head(queue)] = "granted"]
    BY <1>3 DEF Release
  <2> QED BY <1>1, <2>2, <2>3, <1>t
<1> QED BY <1>2, <1>3

\* RecordFollows and OutcomeTold of one delegation.
OutcomeOf(d) ==
  /\ phase[d] \in {"idle", "queued", "granted"} => record[d] = "none"
  /\ phase[d] = "streaming" => record[d] = "running"
  /\ phase[d] = "judging" => record[d] \in {"done", "no-output"} /\ d \notin late
  /\ d \in late => Aborted(d) /\ phase[d] \in {"streaming", "over"}
  /\ timer[d] # "off" => d \in Timed
  /\ transcript[d] = IF record[d] \in {"done", "no-output", "timeout"}
                     THEN TurnOf[d] ELSE NoTurn
  /\ record[d] = "aborted" => Aborted(d)
  /\ record[d] = "timeout" => d \in Timed
  /\ phase[d] = "over" /\ record[d] = "running" => d \in Unresolvable
  /\ phase[d] = "over" /\ d \in late => record[d] = "aborted"

\* Together they are the two invariants.
LEMMA OutcomeByDelegation == RecordFollows /\ OutcomeTold <=> \A d \in Delegations : OutcomeOf(d)
BY DEF RecordFollows, OutcomeTold, OutcomeOf

\* A delegation another one's step does not concern keeps its outcome.
LEMMA OthersKeep ==
  ASSUME SlotInv, NEW e \in Delegations, OutcomeOf(e),
         phase'[e] = phase[e] \/ (phase[e] = "queued" /\ phase'[e] = "granted"),
         timer'[e] = timer[e], e \in late' <=> e \in late,
         record'[e] = record[e], transcript'[e] = transcript[e], aborted \subseteq aborted'
  PROVE  OutcomeOf(e)'
BY DEF OutcomeOf, Aborted

\* Every step keeps every delegation's outcome told.
LEMMA OutcomesStep ==
  ASSUME SlotInv, \A d \in Delegations : OutcomeOf(d), [Next]_vars
  PROVE  \A d \in Delegations : OutcomeOf(d)'
<1> USE DelegationAssumption
<1>t. /\ phase \in [Delegations -> Phases] /\ timer \in [Delegations -> {"off", "armed", "fired"}]
      /\ record \in [Delegations -> Records] /\ transcript \in [Delegations -> Turns \cup {NoTurn}]
      /\ \A d \in Delegations : TurnOf[d] \in Turns /\ TurnOf[d] # NoTurn
  BY DEF SlotInv, DelegationTypeOK
<1>1. CASE \/ UNCHANGED vars
           \/ \E t \in Turns : BeginTurn(t) \/ AbortTurn(t) \/ EndTurn(t)
  <2>1. UNCHANGED <<phase, timer, late, record, transcript>> /\ aborted \subseteq aborted'
    BY <1>1 DEF vars, turnVars, semVars, outVars, BeginTurn, AbortTurn, EndTurn
  <2> QED BY <2>1, OthersKeep
<1>2. ASSUME NEW d \in Delegations, Delegate(d) PROVE \A e \in Delegations : OutcomeOf(e)'
  <2>1. UNCHANGED <<aborted, timer, late, record, transcript>>
        /\ phase[d] = "idle" /\ phase'[d] \in {"queued", "granted"}
        /\ \A e \in Delegations \ {d} : phase'[e] = phase[e]
    BY <1>2, <1>t DEF Delegate, turnVars, outVars
  <2>2. OutcomeOf(d)'
    BY <2>1 DEF OutcomeOf, Aborted
  <2> QED BY <2>1, <2>2, OthersKeep
<1>3. ASSUME NEW d \in Delegations, Start(d) PROVE \A e \in Delegations : OutcomeOf(e)'
  <2>1. /\ UNCHANGED <<aborted, transcript>>
        /\ phase[d] = "granted" /\ phase'[d] = "streaming" /\ record'[d] = "running"
        /\ timer'[d] # "off" => d \in Timed
        /\ d \in late' => d \in late \/ Aborted(d)
        /\ \A e \in Delegations \ {d} :
             /\ phase'[e] = phase[e] /\ timer'[e] = timer[e] /\ record'[e] = record[e]
             /\ e \in late' <=> e \in late
    BY <1>3, <1>t DEF Start, turnVars
  <2>2. OutcomeOf(d)'
    BY <2>1 DEF OutcomeOf, Aborted
  <2> QED BY <2>1, <2>2, OthersKeep
<1>4. ASSUME NEW d \in Delegations, Timeout(d) PROVE \A e \in Delegations : OutcomeOf(e)'
  <2>1. UNCHANGED <<aborted, phase, late, record, transcript>>
        /\ timer[d] # "off" /\ \A e \in Delegations \ {d} : timer'[e] = timer[e]
    BY <1>4, <1>t DEF Timeout, turnVars, outVars
  <2>2. OutcomeOf(d)'
    BY <2>1 DEF OutcomeOf, Aborted
  <2> QED BY <2>1, <2>2, OthersKeep
<1>5. ASSUME NEW d \in Delegations, d \in Holders, Release(d), UNCHANGED <<aborted, late>>,
             OutcomeOf(d)',
             \A e \in Delegations \ {d} : record'[e] = record[e] /\ transcript'[e] = transcript[e]
      PROVE  \A e \in Delegations : OutcomeOf(e)'
  BY <1>5, ReleaseMoves, OthersKeep
<1>6. ASSUME NEW d \in Delegations, d \in Holders, Release(d), UNCHANGED <<aborted, late>>
      PROVE  phase'[d] = "over" /\ timer'[d] = "off"
  BY <1>6, ReleaseMoves
<1>7. ASSUME NEW d \in Delegations, StartFails(d) PROVE \A e \in Delegations : OutcomeOf(e)'
  <2>1. /\ d \in Holders /\ Release(d) /\ UNCHANGED <<aborted, late, transcript>>
        /\ phase[d] = "granted" /\ record'[d] = "running" /\ d \in Unresolvable
        /\ \A e \in Delegations \ {d} : record'[e] = record[e]
    BY <1>7, <1>t DEF StartFails, Holders, Holding, turnVars
  <2>2. OutcomeOf(d)'
    BY <2>1, <1>6 DEF OutcomeOf
  <2> QED BY <2>1, <2>2, <1>5
<1>8. ASSUME NEW d \in Delegations, NEW s \in {"done", "no-output"}, phase[d] = "streaming",
             d \notin late, Conclude(d, s), UNCHANGED <<turnVars, late>>
      PROVE  \A e \in Delegations : OutcomeOf(e)'
  <2>1. /\ d \in Holders /\ UNCHANGED <<aborted, late>>
        /\ record'[d] = s /\ transcript'[d] = TurnOf[d]
        /\ \A e \in Delegations \ {d} : record'[e] = record[e] /\ transcript'[e] = transcript[e]
    BY <1>8, <1>t DEF Conclude, Persist, Holders, Holding, turnVars
  <2>2. CASE Release(d)
    <3>1. OutcomeOf(d)'
      BY <2>1, <2>2, <1>6, <1>8 DEF OutcomeOf
    <3> QED BY <2>1, <2>2, <3>1, <1>5
  <2>3. CASE phase' = [phase EXCEPT ![d] = "judging"] /\ UNCHANGED <<semVars, timer>>
    <3>1. phase'[d] = "judging" /\ timer' = timer
          /\ \A e \in Delegations \ {d} : phase'[e] = phase[e]
      BY <2>3, <1>t
    <3>2. OutcomeOf(d)'
      BY <2>1, <3>1, <1>8 DEF OutcomeOf
    <3> QED BY <2>1, <3>1, <3>2, OthersKeep
  <2> QED BY <1>8, <2>2, <2>3 DEF Conclude
<1>9. ASSUME NEW d \in Delegations, Completes(d) \/ EndsSilent(d)
      PROVE  \A e \in Delegations : OutcomeOf(e)'
  <2>1. CASE Completes(d)
    BY <2>1, <1>8 DEF Completes
  <2>2. CASE EndsSilent(d)
    <3>1. d \notin late
      BY <2>2 DEF EndsSilent, OutcomeOf
    <3> QED BY <2>2, <3>1, <1>8 DEF EndsSilent
  <2> QED BY <1>9, <2>1, <2>2
<1>10. ASSUME NEW d \in Delegations, EndsTimedOut(d) PROVE \A e \in Delegations : OutcomeOf(e)'
  <2>1. /\ d \in Holders /\ Release(d) /\ UNCHANGED <<aborted, late>>
        /\ phase[d] = "streaming" /\ ~Aborted(d) /\ timer[d] # "off"
        /\ record'[d] = "timeout" /\ transcript'[d] = TurnOf[d]
        /\ \A e \in Delegations \ {d} : record'[e] = record[e] /\ transcript'[e] = transcript[e]
    BY <1>10, <1>t DEF EndsTimedOut, Persist, Holders, Holding, TimedOut, turnVars
  <2>2. OutcomeOf(d)'
    BY <2>1, <1>6 DEF OutcomeOf
  <2> QED BY <2>1, <2>2, <1>5
<1>11. ASSUME NEW d \in Delegations, EndsAborted(d) \/ Fails(d)
       PROVE  \A e \in Delegations : OutcomeOf(e)'
  <2>1. /\ d \in Holders /\ Release(d) /\ UNCHANGED <<aborted, late, transcript>>
        /\ phase[d] = "streaming"
        /\ \/ record'[d] = "aborted" /\ Aborted(d)
           \/ record'[d] = "error" /\ ~Aborted(d)
        /\ \A e \in Delegations \ {d} : record'[e] = record[e]
    BY <1>11, <1>t DEF EndsAborted, Fails, Holders, Holding, turnVars
  <2>2. OutcomeOf(d)'
    BY <2>1, <1>6 DEF OutcomeOf, Aborted
  <2> QED BY <2>1, <2>2, <1>5
<1>12. ASSUME NEW d \in Delegations, JudgeEnds(d) PROVE \A e \in Delegations : OutcomeOf(e)'
  <2>1. /\ d \in Holders /\ Release(d) /\ UNCHANGED <<aborted, late, record, transcript>>
        /\ phase[d] = "judging"
    BY <1>12, <1>t DEF JudgeEnds, Holders, Holding, turnVars, outVars
  <2>2. OutcomeOf(d)'
    BY <2>1, <1>6 DEF OutcomeOf
  <2> QED BY <2>1, <2>2, <1>5
<1> QED
  BY <1>1, <1>2, <1>3, <1>4, <1>7, <1>9, <1>10, <1>11, <1>12 DEF Next, Stops

-----------------------------------------------------------------------------
(* The trace *)

\* A node hangs among the orchestrator's children or in the ToolItem of its own call,
\* never in both, and only if it is known.
TreeFits(tr) ==
  /\ tr \in T!Traces
  /\ tr.root = NoAgent => tr.agents = {} /\ tr.calls = {}
  /\ tr.flat \cup tr.spawned \subseteq tr.agents
  /\ \A d \in Delegations :
       /\ tr.under[d] \subseteq {d}
       /\ d \in tr.under[d] => d \in tr.agents /\ d \in tr.calls /\ d \notin tr.flat

\* Where a node stands that started while the orchestrator was on screen.
Placed(tr, d) ==
  d \in tr.agents => /\ d \in tr.spawned
                     /\ d \in tr.calls => d \in tr.under[d]
                     /\ d \notin tr.calls => d \in tr.flat

\* What an event about d leaves in the tree: its own place may change.
Touches(tr, new, d) ==
  /\ TreeFits(new)
  /\ tr.agents \subseteq new.agents /\ new.agents \subseteq tr.agents \cup {d, Orchestrator}
  /\ tr.root # NoAgent => new.root = tr.root
  /\ \A e \in Delegations \ {d} : Placed(tr, e) => Placed(new, e)

\* The types of a trace, field by field.
LEMMA TraceTypes ==
  ASSUME NEW tr
  PROVE  tr \in T!Traces =>
           /\ tr.root \in T!Agents \cup {NoAgent} /\ tr.agents \subseteq T!Agents
           /\ tr.calls \subseteq Delegations /\ tr.spawned \subseteq Delegations
           /\ tr.flat \subseteq Delegations /\ tr.under \in [Delegations -> SUBSET Delegations]
           /\ tr.pending \in Seq(Delegations)
BY DEF T!Traces

\* The empty trace and a loaded one.
LEMMA FreshTrees ==
  /\ TreeFits(T!Empty) /\ T!Empty.pending = <<>> /\ T!Empty.agents = {}
  /\ TreeFits(T!Loaded) /\ T!Loaded.pending = <<>> /\ T!Loaded.agents = {Orchestrator}
<1> USE TuiAssumption DEF T!Agents
<1>1. /\ T!Empty \in T!Traces /\ T!Empty.pending = <<>> /\ T!Empty.agents = {}
      /\ T!Empty.flat = {} /\ T!Empty.spawned = {} /\ T!Empty.calls = {}
      /\ \A d \in Delegations : T!Empty.under[d] = {}
  BY DEF T!Empty, T!Traces
<1>2. /\ T!Loaded \in T!Traces /\ T!Loaded.pending = <<>> /\ T!Loaded.agents = {Orchestrator}
      /\ T!Loaded.flat = {} /\ T!Loaded.spawned = {} /\ T!Loaded.root = Orchestrator
      /\ \A d \in Delegations : T!Loaded.under[d] = {}
  BY <1>1 DEF T!Loaded, T!Traces
<1> QED BY <1>1, <1>2 DEF TreeFits

\* The orchestrator becomes known.
LEMMA EnsureRoot ==
  ASSUME NEW tr, TreeFits(tr)
  PROVE  LET new == T!Ensure(tr, Orchestrator)
         IN /\ TreeFits(new) /\ new.agents = tr.agents \cup {Orchestrator}
            /\ new.root = IF tr.root = NoAgent THEN Orchestrator ELSE tr.root
            /\ new.calls = tr.calls /\ new.spawned = tr.spawned /\ new.flat = tr.flat
            /\ new.under = tr.under /\ new.pending = tr.pending
<1> USE TuiAssumption DEF T!Agents
<1> DEFINE new == T!Ensure(tr, Orchestrator)
<1>t. tr \in T!Traces
  BY DEF TreeFits
<1>1. CASE Orchestrator \in tr.agents
  <2>1. new = tr /\ tr.root # NoAgent
    BY <1>1 DEF T!Ensure, TreeFits
  <2> QED BY <1>1, <2>1
<1>2. CASE Orchestrator \notin tr.agents
  <2>1. /\ new \in T!Traces /\ new.agents = tr.agents \cup {Orchestrator}
        /\ new.root = IF tr.root = NoAgent THEN Orchestrator ELSE tr.root
        /\ new.calls = tr.calls /\ new.spawned = tr.spawned /\ new.flat = tr.flat
        /\ new.under = tr.under /\ new.pending = tr.pending
    BY <1>2, <1>t DEF T!Ensure, T!OrRoot, T!Traces
  <2> HIDE DEF new
  <2> QED BY <2>1 DEF TreeFits, new
<1> QED BY <1>1, <1>2

\* A text of a sub-agent.
LEMMA SubTextTouches ==
  ASSUME NEW tr, TreeFits(tr), NEW d \in Delegations
  PROVE  /\ Touches(tr, T!SubText(tr, d), d) /\ T!SubText(tr, d).pending = tr.pending
         /\ d \in tr.agents => T!SubText(tr, d) = tr
<1> USE TuiAssumption DEF T!Agents
<1> DEFINE new == T!SubText(tr, d)
<1>t. tr \in T!Traces
  BY DEF TreeFits
<1>1. CASE d \in tr.agents
  BY <1>1 DEF T!SubText, T!Ensure, Touches
<1>2. CASE d \notin tr.agents
  <2>1. /\ new \in T!Traces /\ new.agents = tr.agents \cup {d}
        /\ new.root = IF tr.root = NoAgent THEN d ELSE tr.root
        /\ new.calls = tr.calls /\ new.spawned = tr.spawned /\ new.flat = tr.flat
        /\ new.under = tr.under /\ new.pending = tr.pending
    BY <1>2, <1>t DEF T!SubText, T!Ensure, T!OrRoot, T!Traces
  <2> HIDE DEF new
  <2>2. TreeFits(new)
    BY <2>1 DEF TreeFits
  <2> QED BY <1>2, <2>1, <2>2 DEF Touches, Placed, new
<1> QED BY <1>1, <1>2

\* A sub-agent becomes known as a child of the orchestrator.
LEMMA EnsureChildTouches ==
  ASSUME NEW tr, TreeFits(tr), NEW d \in Delegations
  PROVE  LET new == T!EnsureChild(tr, d)
         IN /\ Touches(tr, new, d) /\ new.pending = tr.pending
            /\ new.calls = tr.calls /\ new.spawned = tr.spawned /\ new.under = tr.under
            /\ new.agents = tr.agents \cup {d}
            /\ d \in tr.agents => new = tr
            /\ d \notin tr.agents /\ Orchestrator \in tr.agents => d \in new.flat
<1> USE TuiAssumption DEF T!Agents
<1> DEFINE new == T!EnsureChild(tr, d)
<1>t. tr \in T!Traces
  BY DEF TreeFits
<1>1. CASE d \in tr.agents
  BY <1>1 DEF T!EnsureChild, Touches
<1>2. CASE d \notin tr.agents /\ Orchestrator \in tr.agents
  <2>1. /\ new \in T!Traces /\ new.agents = tr.agents \cup {d}
        /\ new.root = tr.root /\ new.root # NoAgent
        /\ new.calls = tr.calls /\ new.spawned = tr.spawned /\ new.flat = tr.flat \cup {d}
        /\ new.under = tr.under /\ new.pending = tr.pending
    <3>1. tr.root # NoAgent
      BY <1>2 DEF TreeFits
    <3> QED BY <3>1, <1>2, <1>t DEF T!EnsureChild, T!Traces
  <2> HIDE DEF new
  <2>2. TreeFits(new)
    BY <1>2, <2>1 DEF TreeFits
  <2> QED BY <1>2, <2>1, <2>2 DEF Touches, Placed, new
<1>3. CASE d \notin tr.agents /\ Orchestrator \notin tr.agents
  <2>1. /\ new \in T!Traces /\ new.agents = tr.agents \cup {d}
        /\ new.root = IF tr.root = NoAgent THEN d ELSE tr.root
        /\ new.calls = tr.calls /\ new.spawned = tr.spawned /\ new.flat = tr.flat
        /\ new.under = tr.under /\ new.pending = tr.pending
    BY <1>3, <1>t DEF T!EnsureChild, T!OrRoot, T!Traces
  <2> HIDE DEF new
  <2>2. TreeFits(new)
    BY <2>1 DEF TreeFits
  <2> QED BY <1>3, <2>1, <2>2 DEF Touches, Placed, new
<1> QED BY <1>1, <1>2, <1>3

\* A node whose call is known moves under it.
LEMMA RehomePlaces ==
  ASSUME NEW tr, TreeFits(tr), NEW d \in Delegations, d \in tr.agents, d \in tr.calls
  PROVE  LET new == T!Rehome(tr, d)
         IN /\ Touches(tr, new, d) /\ new.pending = tr.pending /\ new.agents = tr.agents
            /\ new.calls = tr.calls /\ new.spawned = tr.spawned /\ d \in new.under[d]
            /\ new.root = tr.root
<1> DEFINE new == T!Rehome(tr, d)
<1>t. tr \in T!Traces /\ tr.under \in [Delegations -> SUBSET Delegations]
  BY TraceTypes DEF TreeFits
<1>1. CASE d \in tr.under[d]
  BY <1>1 DEF T!Rehome, Touches
<1>2. CASE d \notin tr.under[d] /\ d \in tr.flat
  <2>1. /\ new \in T!Traces /\ new.agents = tr.agents /\ new.root = tr.root
        /\ new.calls = tr.calls /\ new.spawned = tr.spawned /\ new.flat = tr.flat \ {d}
        /\ new.under = [tr.under EXCEPT ![d] = @ \cup {d}] /\ new.pending = tr.pending
    BY <1>2, <1>t DEF T!Rehome, T!Detach, T!Traces
  <2> HIDE DEF new
  <2>2. new.under[d] = {d} /\ \A e \in Delegations \ {d} : new.under[e] = tr.under[e]
    BY <1>2, <1>t, <2>1 DEF TreeFits
  <2>3. TreeFits(new)
    BY <2>1, <2>2 DEF TreeFits
  <2> QED BY <2>1, <2>2, <2>3 DEF Touches, Placed, new
<1>3. CASE d \notin tr.under[d] /\ d \notin tr.flat
  <2> DEFINE bare == [c \in Delegations |-> tr.under[c] \ {d}]
  <2>1. /\ new \in T!Traces /\ new.agents = tr.agents /\ new.root = tr.root
        /\ new.calls = tr.calls /\ new.spawned = tr.spawned /\ new.flat = tr.flat
        /\ new.under = [bare EXCEPT ![d] = @ \cup {d}] /\ new.pending = tr.pending
    BY <1>3, <1>t DEF T!Rehome, T!Detach, T!Traces
  <2> HIDE DEF new
  <2>2. new.under[d] = {d} /\ \A e \in Delegations \ {d} : new.under[e] = tr.under[e]
    BY <1>3, <1>t, <2>1 DEF TreeFits
  <2>3. TreeFits(new)
    BY <1>3, <2>1, <2>2 DEF TreeFits
  <2> QED BY <2>1, <2>2, <2>3 DEF Touches, Placed, new
<1> QED BY <1>1, <1>2, <1>3

\* The tool-call part of a delegate call.
LEMMA CallTouches ==
  ASSUME NEW tr, TreeFits(tr), NEW d \in Delegations
  PROVE  LET new == T!DelegateCall(tr, d)
         IN /\ Touches(tr, new, d) /\ new.pending = tr.pending
            /\ new.agents = tr.agents \cup {Orchestrator}
            /\ Placed(tr, d) => Placed(new, d)
<1> USE TuiAssumption DEF T!Agents
<1> DEFINE known == T!Ensure(tr, Orchestrator)
           item == [known EXCEPT !.calls = @ \cup {d}, !.under[d] = {}]
<1>1. /\ TreeFits(known) /\ known.agents = tr.agents \cup {Orchestrator}
      /\ known.root = IF tr.root = NoAgent THEN Orchestrator ELSE tr.root
      /\ known.calls = tr.calls /\ known.spawned = tr.spawned /\ known.flat = tr.flat
      /\ known.under = tr.under /\ known.pending = tr.pending
  BY EnsureRoot
<1>k. known \in T!Traces
  BY <1>1 DEF TreeFits
<1> HIDE DEF known
<1>2. /\ item \in T!Traces /\ item.agents = known.agents /\ item.root = known.root
      /\ item.calls = known.calls \cup {d} /\ item.spawned = known.spawned
      /\ item.flat = known.flat /\ item.under = [known.under EXCEPT ![d] = {}]
      /\ item.pending = known.pending
  BY <1>k DEF T!Traces
<1>3. T!DelegateCall(tr, d) = IF d \in tr.spawned THEN T!Rehome(item, d) ELSE item
  BY DEF T!DelegateCall, known
<1> HIDE DEF item
<1>4. item.under[d] = {} /\ \A e \in Delegations \ {d} : item.under[e] = tr.under[e]
  BY <1>1, <1>2, TraceTypes DEF TreeFits
<1>5. TreeFits(item)
  <2>1. item.root # NoAgent
    <3>1. known.agents # {}
      BY <1>1
    <3> QED BY <3>1, <1>1, <1>2 DEF TreeFits
  <2>2. item.flat \cup item.spawned \subseteq item.agents
    BY <1>1, <1>2 DEF TreeFits
  <2>3. ASSUME NEW e \in Delegations
        PROVE  /\ item.under[e] \subseteq {e}
               /\ e \in item.under[e] => e \in item.agents /\ e \in item.calls /\ e \notin item.flat
    BY <1>1, <1>2, <1>4 DEF TreeFits
  <2> QED BY <1>2, <2>1, <2>2, <2>3 DEF TreeFits
<1>6. Touches(tr, item, d)
  BY <1>1, <1>2, <1>4, <1>5 DEF Touches, Placed
<1>7. CASE d \notin tr.spawned
  BY <1>1, <1>2, <1>3, <1>6, <1>7 DEF Placed
<1>8. CASE d \in tr.spawned /\ d \in item.agents
  <2> DEFINE new == T!Rehome(item, d)
  <2>1. /\ Touches(item, new, d) /\ new.pending = item.pending /\ new.agents = item.agents
        /\ new.calls = item.calls /\ new.spawned = item.spawned /\ d \in new.under[d]
        /\ new.root = item.root
    BY <1>2, <1>5, <1>8, RehomePlaces
  <2> HIDE DEF new
  <2>2. Touches(tr, new, d)
    BY <1>1, <1>2, <1>6, <2>1 DEF Touches
  <2>3. Placed(new, d)
    BY <1>1, <1>2, <1>8, <2>1 DEF Placed
  <2>4. T!DelegateCall(tr, d) = new
    BY <1>3, <1>8 DEF new
  <2> QED BY <1>1, <1>2, <2>1, <2>2, <2>3, <2>4
<1>9. d \in tr.spawned => d \in item.agents
  BY <1>1, <1>2 DEF TreeFits
<1> QED BY <1>7, <1>8, <1>9

\* The start of a sub-agent that is not known yet.
LEMMA StartTouches ==
  ASSUME NEW tr, TreeFits(tr), NEW d \in Delegations, d \notin tr.agents
  PROVE  LET new == T!SubStart(tr, d)
         IN /\ Touches(tr, new, d) /\ new.pending = tr.pending /\ d \in new.agents
            /\ Orchestrator \in tr.agents => Placed(new, d)
<1> USE TuiAssumption DEF T!Agents
<1> DEFINE new == T!SubStart(tr, d)
<1>t. tr \in T!Traces /\ tr.under \in [Delegations -> SUBSET Delegations]
  BY TraceTypes DEF TreeFits
<1>1. CASE d \notin tr.calls
  <2> DEFINE child == T!EnsureChild(tr, d)
  <2>1. /\ Touches(tr, child, d) /\ child.pending = tr.pending
        /\ child.calls = tr.calls /\ child.spawned = tr.spawned /\ child.under = tr.under
        /\ child.agents = tr.agents \cup {d}
        /\ Orchestrator \in tr.agents => d \in child.flat
    BY EnsureChildTouches
  <2>c. child \in T!Traces /\ TreeFits(child)
    BY <2>1 DEF Touches, TreeFits
  <2>2. new = [child EXCEPT !.spawned = @ \cup {d}]
    BY <1>1 DEF T!SubStart
  <2> HIDE DEF child
  <2>3. /\ new \in T!Traces /\ new.agents = child.agents /\ new.root = child.root
        /\ new.calls = child.calls /\ new.spawned = child.spawned \cup {d}
        /\ new.flat = child.flat /\ new.under = child.under /\ new.pending = child.pending
    BY <2>2, <2>c DEF T!Traces
  <2> HIDE DEF new
  <2>4. TreeFits(new)
    BY <2>1, <2>3, <2>c DEF TreeFits
  <2>5. Touches(tr, new, d)
    BY <2>1, <2>3, <2>4 DEF Touches, Placed
  <2> QED BY <1>1, <2>1, <2>3, <2>5 DEF Placed, new
<1>2. CASE d \in tr.calls
  <2> DEFINE item == [tr EXCEPT !.agents = @ \cup {d}, !.under[d] = @ \cup {d}]
  <2>1. /\ item \in T!Traces /\ item.agents = tr.agents \cup {d} /\ item.root = tr.root
        /\ item.calls = tr.calls /\ item.spawned = tr.spawned
        /\ item.flat = tr.flat /\ item.under = [tr.under EXCEPT ![d] = @ \cup {d}]
        /\ item.pending = tr.pending
    BY <1>t DEF T!Traces
  <2>2. new = [item EXCEPT !.spawned = @ \cup {d}]
    BY <1>2 DEF T!SubStart
  <2> HIDE DEF item
  <2>3. /\ new \in T!Traces /\ new.agents = tr.agents \cup {d} /\ new.root = tr.root
        /\ new.calls = tr.calls /\ new.spawned = tr.spawned \cup {d}
        /\ new.flat = tr.flat /\ new.under = [tr.under EXCEPT ![d] = @ \cup {d}]
        /\ new.pending = tr.pending
    <3>1. /\ new \in T!Traces /\ new.agents = item.agents /\ new.root = item.root
          /\ new.calls = item.calls /\ new.spawned = item.spawned \cup {d}
          /\ new.flat = item.flat /\ new.under = item.under /\ new.pending = item.pending
      <4>1. item \in T!Traces
        BY <2>1
      <4> QED BY <4>1, <2>2 DEF T!Traces
    <3> QED BY <2>1, <3>1
  <2> HIDE DEF new
  <2>4. d \in new.under[d] /\ new.under[d] \subseteq {d}
        /\ \A e \in Delegations \ {d} : new.under[e] = tr.under[e]
    BY <1>t, <2>3 DEF TreeFits
  <2>5. TreeFits(new)
    BY <1>2, <2>3, <2>4 DEF TreeFits
  <2>6. Touches(tr, new, d)
    BY <2>3, <2>4, <2>5 DEF Touches, Placed
  <2> QED BY <1>2, <2>3, <2>4, <2>6 DEF Placed, new
<1> QED BY <1>1, <1>2

\* An approval goes to the end of the list.
LEMMA ApprovalTouches ==
  ASSUME NEW tr, TreeFits(tr), NEW d \in Delegations
  PROVE  LET new == T!ApprovalRequired(tr, d)
         IN /\ Touches(tr, new, d) /\ new.pending = Append(tr.pending, d)
            /\ new.agents = tr.agents \cup {d}
            /\ d \in tr.agents /\ Placed(tr, d) => Placed(new, d)
<1> DEFINE new == T!ApprovalRequired(tr, d)
           child == T!EnsureChild(tr, d)
<1>1. /\ Touches(tr, child, d) /\ child.pending = tr.pending
      /\ child.agents = tr.agents \cup {d} /\ (d \in tr.agents => child = tr)
  BY EnsureChildTouches
<1>c. child \in T!Traces /\ TreeFits(child) /\ child.pending \in Seq(Delegations)
  BY <1>1, TraceTypes DEF Touches, TreeFits
<1>2. new = [child EXCEPT !.pending = Append(@, d)]
  BY DEF T!ApprovalRequired
<1> HIDE DEF child
<1>a. Append(child.pending, d) \in Seq(Delegations)
  BY <1>c
<1>3. /\ new \in T!Traces /\ new.agents = child.agents /\ new.root = child.root
      /\ new.calls = child.calls /\ new.spawned = child.spawned
      /\ new.flat = child.flat /\ new.under = child.under
      /\ new.pending = Append(child.pending, d)
  BY <1>2, <1>c, <1>a DEF T!Traces
<1> HIDE DEF new
<1>4. TreeFits(new)
  BY <1>3, <1>c DEF TreeFits
<1>5. Touches(tr, new, d)
  BY <1>1, <1>3, <1>4 DEF Touches, Placed
<1> QED BY <1>1, <1>3, <1>5 DEF Placed, new

\* Settling takes an approval off the list and leaves the tree.
LEMMA SettleTouches ==
  ASSUME NEW tr, TreeFits(tr), NEW d \in Delegations
  PROVE  LET new == T!Settle(tr, d)
         IN /\ Touches(tr, new, d) /\ new.pending = T!Without(tr.pending, d)
            /\ new.agents = tr.agents /\ new.root = tr.root
            /\ Placed(tr, d) => Placed(new, d)
<1> DEFINE new == T!Settle(tr, d)
<1>1. tr \in T!Traces /\ tr.pending \in Seq(Delegations)
  BY TraceTypes DEF TreeFits
<1>2. T!Without(tr.pending, d) \in Seq(Delegations)
  BY <1>1, WithoutOne
<1>3. /\ new \in T!Traces /\ new.agents = tr.agents /\ new.root = tr.root
      /\ new.calls = tr.calls /\ new.spawned = tr.spawned
      /\ new.flat = tr.flat /\ new.under = tr.under
      /\ new.pending = T!Without(tr.pending, d)
  BY <1>1, <1>2 DEF T!Settle, T!Traces
<1> HIDE DEF new
<1>4. TreeFits(new)
  BY <1>3 DEF TreeFits
<1> QED BY <1>3, <1>4 DEF Touches, Placed, new

\* Two traces with the same fields are the same.
LEMMA SameTrace ==
  ASSUME NEW a, a \in T!Traces, NEW b, b \in T!Traces,
         a.root = b.root, a.agents = b.agents, a.calls = b.calls, a.spawned = b.spawned,
         a.flat = b.flat, a.under = b.under, a.pending = b.pending
  PROVE  a = b
BY DEF T!Traces

\* What the start of an unknown sub-agent makes of the fields, below a known orchestrator.
LEMMA StartFields ==
  ASSUME NEW tr, TreeFits(tr), Orchestrator \in tr.agents, NEW d \in Delegations, d \notin tr.agents
  PROVE  LET new == T!SubStart(tr, d)
         IN /\ new \in T!Traces /\ new.root = tr.root /\ new.agents = tr.agents \cup {d}
            /\ new.calls = tr.calls /\ new.spawned = tr.spawned \cup {d}
            /\ new.flat = (IF d \in tr.calls THEN tr.flat ELSE tr.flat \cup {d})
            /\ new.under = (IF d \in tr.calls THEN [tr.under EXCEPT ![d] = {d}] ELSE tr.under)
            /\ new.pending = tr.pending
<1> USE TuiAssumption DEF T!Agents
<1> DEFINE new == T!SubStart(tr, d)
<1>t. tr \in T!Traces /\ tr.under \in [Delegations -> SUBSET Delegations] /\ tr.under[d] = {}
      /\ new \in T!Traces
  BY TraceTypes, StartTouches DEF TreeFits, Touches
<1>1. CASE d \notin tr.calls
  <2> DEFINE child == [tr EXCEPT !.agents = @ \cup {d}, !.flat = @ \cup {d}]
  <2>1. /\ child \in T!Traces /\ child.root = tr.root /\ child.agents = tr.agents \cup {d}
        /\ child.calls = tr.calls /\ child.spawned = tr.spawned /\ child.flat = tr.flat \cup {d}
        /\ child.under = tr.under /\ child.pending = tr.pending
    BY <1>t DEF T!Traces
  <2>2. new = [child EXCEPT !.spawned = @ \cup {d}]
    BY <1>1 DEF T!SubStart, T!EnsureChild
  <2> HIDE DEF child, new
  <2>3. /\ new.root = child.root /\ new.agents = child.agents /\ new.calls = child.calls
        /\ new.spawned = child.spawned \cup {d} /\ new.flat = child.flat
        /\ new.under = child.under /\ new.pending = child.pending
    <3>1. child \in T!Traces
      BY <2>1
    <3> QED BY <3>1, <2>2 DEF T!Traces
  <2> QED BY <1>1, <1>t, <2>1, <2>3 DEF new
<1>2. CASE d \in tr.calls
  <2> DEFINE item == [tr EXCEPT !.agents = @ \cup {d}, !.under[d] = @ \cup {d}]
  <2>1. /\ item \in T!Traces /\ item.root = tr.root /\ item.agents = tr.agents \cup {d}
        /\ item.calls = tr.calls /\ item.spawned = tr.spawned /\ item.flat = tr.flat
        /\ item.under = [tr.under EXCEPT ![d] = {d}] /\ item.pending = tr.pending
    BY <1>t DEF T!Traces
  <2>2. new = [item EXCEPT !.spawned = @ \cup {d}]
    BY <1>2 DEF T!SubStart
  <2> HIDE DEF item, new
  <2>3. /\ new.root = item.root /\ new.agents = item.agents /\ new.calls = item.calls
        /\ new.spawned = item.spawned \cup {d} /\ new.flat = item.flat
        /\ new.under = item.under /\ new.pending = item.pending
    <3>1. item \in T!Traces
      BY <2>1
    <3> QED BY <3>1, <2>2 DEF T!Traces
  <2> QED BY <1>2, <1>t, <2>1, <2>3 DEF new
<1> QED BY <1>1, <1>2

\* What its call makes of them, before its start or after it.
LEMMA CallFields ==
  ASSUME NEW tr, TreeFits(tr), Orchestrator \in tr.agents, NEW d \in Delegations
  PROVE  LET new == T!DelegateCall(tr, d)
         IN /\ new \in T!Traces /\ new.root = tr.root /\ new.agents = tr.agents
            /\ new.calls = tr.calls \cup {d} /\ new.spawned = tr.spawned
            /\ new.flat = (IF d \in tr.spawned THEN tr.flat \ {d} ELSE tr.flat)
            /\ new.under = (IF d \in tr.spawned THEN [tr.under EXCEPT ![d] = {d}]
                                                ELSE [tr.under EXCEPT ![d] = {}])
            /\ new.pending = tr.pending
<1> USE TuiAssumption DEF T!Agents
<1> DEFINE new == T!DelegateCall(tr, d)
           item == [tr EXCEPT !.calls = @ \cup {d}, !.under[d] = {}]
<1>t. tr \in T!Traces /\ tr.under \in [Delegations -> SUBSET Delegations]
      /\ new \in T!Traces
  BY TraceTypes, CallTouches DEF TreeFits, Touches
<1>1. /\ item \in T!Traces /\ item.root = tr.root /\ item.agents = tr.agents
      /\ item.calls = tr.calls \cup {d} /\ item.spawned = tr.spawned /\ item.flat = tr.flat
      /\ item.under = [tr.under EXCEPT ![d] = {}] /\ item.pending = tr.pending
  BY <1>t DEF T!Traces
<1>2. new = IF d \in tr.spawned THEN T!Rehome(item, d) ELSE item
  BY DEF T!DelegateCall, T!Ensure
<1> HIDE DEF item, new
<1>3. CASE d \notin tr.spawned
  BY <1>1, <1>2, <1>3, <1>t DEF new
<1>4. CASE d \in tr.spawned
  <2>1. new = T!Rehome(item, d) /\ d \notin item.under[d] /\ item.under \in [Delegations -> SUBSET Delegations]
    BY <1>1, <1>2, <1>4, <1>t
  <2>2. CASE d \in tr.flat
    <3>1. /\ new.root = item.root /\ new.agents = item.agents /\ new.calls = item.calls
          /\ new.spawned = item.spawned /\ new.flat = item.flat \ {d}
          /\ new.under = [item.under EXCEPT ![d] = @ \cup {d}] /\ new.pending = item.pending
      BY <1>1, <2>1, <2>2 DEF T!Rehome, T!Detach, T!Traces
    <3>2. [item.under EXCEPT ![d] = @ \cup {d}] = [tr.under EXCEPT ![d] = {d}]
      BY <1>1, <1>t
    <3> QED BY <1>1, <1>4, <1>t, <3>1, <3>2 DEF new
  <2>3. CASE d \notin tr.flat
    <3> DEFINE bare == [c \in Delegations |-> item.under[c] \ {d}]
    <3>1. /\ new.root = item.root /\ new.agents = item.agents /\ new.calls = item.calls
          /\ new.spawned = item.spawned /\ new.flat = item.flat
          /\ new.under = [bare EXCEPT ![d] = @ \cup {d}] /\ new.pending = item.pending
      BY <1>1, <2>1, <2>3 DEF T!Rehome, T!Detach, T!Traces
    <3>2. \A c \in Delegations \ {d} : d \notin item.under[c]
      BY <1>1, <1>t DEF TreeFits
    <3>3. [bare EXCEPT ![d] = @ \cup {d}] = [tr.under EXCEPT ![d] = {d}]
      <4>1. bare \in [Delegations -> SUBSET Delegations] /\ bare[d] = {}
        BY <1>1, <1>t
      <4>2. \A c \in Delegations \ {d} : bare[c] = tr.under[c]
        BY <1>1, <1>t, <3>2
      <4> HIDE DEF bare
      <4> QED BY <1>t, <4>1, <4>2
    <3>4. tr.flat \ {d} = tr.flat
      BY <2>3
    <3> QED BY <1>1, <1>4, <1>t, <3>1, <3>3, <3>4 DEF new
  <2> QED BY <2>2, <2>3
<1> QED BY <1>3, <1>4

\* Two different places of a function are set in either order.
LEMMA TwoPlaces ==
  ASSUME NEW S, NEW V, NEW f \in [S -> V], NEW d \in S, NEW e \in S, d # e, NEW A, NEW B
  PROVE  [[f EXCEPT ![d] = A] EXCEPT ![e] = B] = [[f EXCEPT ![e] = B] EXCEPT ![d] = A]
OBVIOUS

\* The tree does not depend on the order in which the starts and the calls of sub-agents
\* arrive once the orchestrator is known (trace.ts: "whatever the event order").
THEOREM OrderDoesNotMatter ==
  ASSUME NEW tr, TreeFits(tr), Orchestrator \in tr.agents,
         NEW d \in Delegations, NEW e \in Delegations
  PROVE  /\ d \notin tr.agents =>
              T!SubStart(T!DelegateCall(tr, d), d) = T!DelegateCall(T!SubStart(tr, d), d)
         /\ d # e /\ d \notin tr.agents /\ e \notin tr.agents =>
              T!SubStart(T!SubStart(tr, d), e) = T!SubStart(T!SubStart(tr, e), d)
         /\ d # e /\ d \notin tr.agents =>
              T!SubStart(T!DelegateCall(tr, e), d) = T!DelegateCall(T!SubStart(tr, d), e)
         /\ T!DelegateCall(T!DelegateCall(tr, d), e) = T!DelegateCall(T!DelegateCall(tr, e), d)
<1> DEFINE started(x) == T!SubStart(tr, x)
           called(x) == T!DelegateCall(tr, x)
<1>t. tr.under \in [Delegations -> SUBSET Delegations] /\ tr.flat \subseteq tr.agents
      /\ tr.spawned \subseteq tr.agents /\ Orchestrator \notin Delegations
      /\ \A x \in Delegations : x \notin tr.agents => tr.under[x] = {}
  BY TraceTypes, TuiAssumption DEF TreeFits
<1>1. \A x \in Delegations : x \notin tr.agents => TreeFits(started(x)) /\ Orchestrator \in started(x).agents
  BY StartTouches DEF Touches
<1>2. \A x \in Delegations : TreeFits(called(x)) /\ Orchestrator \in called(x).agents
  BY CallTouches DEF Touches
<1>s. \A x \in Delegations : x \notin tr.agents =>
        /\ started(x).root = tr.root /\ started(x).agents = tr.agents \cup {x}
        /\ started(x).calls = tr.calls /\ started(x).spawned = tr.spawned \cup {x}
        /\ started(x).flat = (IF x \in tr.calls THEN tr.flat ELSE tr.flat \cup {x})
        /\ started(x).under = (IF x \in tr.calls THEN [tr.under EXCEPT ![x] = {x}] ELSE tr.under)
        /\ started(x).pending = tr.pending
  <2> TAKE x \in Delegations
  <2> SUFFICES ASSUME x \notin tr.agents
               PROVE  /\ started(x).root = tr.root /\ started(x).agents = tr.agents \cup {x}
                      /\ started(x).calls = tr.calls /\ started(x).spawned = tr.spawned \cup {x}
                      /\ started(x).flat = (IF x \in tr.calls THEN tr.flat ELSE tr.flat \cup {x})
                      /\ started(x).under = (IF x \in tr.calls THEN [tr.under EXCEPT ![x] = {x}]
                                                                ELSE tr.under)
                      /\ started(x).pending = tr.pending
    OBVIOUS
  <2> QED BY StartFields, ZenonT(40)
<1>c. \A x \in Delegations :
        /\ called(x).root = tr.root /\ called(x).agents = tr.agents
        /\ called(x).calls = tr.calls \cup {x} /\ called(x).spawned = tr.spawned
        /\ called(x).flat = (IF x \in tr.spawned THEN tr.flat \ {x} ELSE tr.flat)
        /\ called(x).under = (IF x \in tr.spawned THEN [tr.under EXCEPT ![x] = {x}]
                                                  ELSE [tr.under EXCEPT ![x] = {}])
        /\ called(x).pending = tr.pending
  BY CallFields
<1> HIDE DEF started, called
<1>3. ASSUME d \notin tr.agents
      PROVE  T!SubStart(called(d), d) = T!DelegateCall(started(d), d)
  <2> DEFINE a == T!SubStart(called(d), d)
             b == T!DelegateCall(started(d), d)
  <2>1. /\ a \in T!Traces /\ a.root = tr.root /\ a.agents = tr.agents \cup {d}
        /\ a.calls = tr.calls \cup {d} /\ a.spawned = tr.spawned \cup {d}
        /\ a.flat = tr.flat
        /\ a.under = [tr.under EXCEPT ![d] = {d}]
        /\ a.pending = tr.pending
    <3>1. /\ a \in T!Traces /\ a.root = called(d).root /\ a.agents = called(d).agents \cup {d}
          /\ a.calls = called(d).calls /\ a.spawned = called(d).spawned \cup {d}
          /\ d \in called(d).calls => /\ a.flat = called(d).flat
                                      /\ a.under = [called(d).under EXCEPT ![d] = {d}]
          /\ a.pending = called(d).pending
      BY <1>2, <1>3, <1>c, StartFields
    <3> HIDE DEF a
    <3>2. d \notin tr.spawned
      BY <1>3, <1>t
    <3> QED BY <1>c, <1>t, <3>1, <3>2
  <2>2. /\ b \in T!Traces /\ b.root = tr.root /\ b.agents = tr.agents \cup {d}
        /\ b.calls = tr.calls \cup {d} /\ b.spawned = tr.spawned \cup {d}
        /\ b.flat = tr.flat
        /\ b.under = [tr.under EXCEPT ![d] = {d}]
        /\ b.pending = tr.pending
    <3>1. /\ b \in T!Traces /\ b.root = started(d).root /\ b.agents = started(d).agents
          /\ b.calls = started(d).calls \cup {d} /\ b.spawned = started(d).spawned
          /\ d \in started(d).spawned => /\ b.flat = started(d).flat \ {d}
                                         /\ b.under = [started(d).under EXCEPT ![d] = {d}]
          /\ b.pending = started(d).pending
      BY <1>1, <1>3, CallFields, ZenonT(40)
    <3> HIDE DEF b
    <3>2. d \notin tr.flat
      BY <1>3, <1>t
    <3>3. tr.flat \ {d} = tr.flat /\ (tr.flat \cup {d}) \ {d} = tr.flat
      BY <3>2
    <3> QED BY <1>3, <1>s, <1>t, <3>1, <3>3, ZenonT(40)
  <2> HIDE DEF a, b
  <2>3. a \in T!Traces /\ b \in T!Traces
    BY <2>1, <2>2
  <2>4. /\ a.root = b.root /\ a.agents = b.agents /\ a.calls = b.calls /\ a.spawned = b.spawned
        /\ a.flat = b.flat /\ a.under = b.under /\ a.pending = b.pending
    BY <2>1, <2>2
  <2>5. a = b
    BY <2>3, <2>4, SameTrace
  <2> QED BY <2>5 DEF a, b
<1>4. ASSUME d # e, d \notin tr.agents, e \notin tr.agents
      PROVE  T!SubStart(started(d), e) = T!SubStart(started(e), d)
  <2> DEFINE a == T!SubStart(started(d), e)
             b == T!SubStart(started(e), d)
  <2>1. /\ a \in T!Traces /\ a.root = started(d).root /\ a.agents = started(d).agents \cup {e}
        /\ a.calls = started(d).calls /\ a.spawned = started(d).spawned \cup {e}
        /\ a.flat = (IF e \in started(d).calls THEN started(d).flat ELSE started(d).flat \cup {e})
        /\ a.under = (IF e \in started(d).calls THEN [started(d).under EXCEPT ![e] = {e}]
                                               ELSE started(d).under)
        /\ a.pending = started(d).pending
    BY <1>1, <1>4, <1>s, StartFields
  <2>2. /\ b \in T!Traces /\ b.root = started(e).root /\ b.agents = started(e).agents \cup {d}
        /\ b.calls = started(e).calls /\ b.spawned = started(e).spawned \cup {d}
        /\ b.flat = (IF d \in started(e).calls THEN started(e).flat ELSE started(e).flat \cup {d})
        /\ b.under = (IF d \in started(e).calls THEN [started(e).under EXCEPT ![d] = {d}]
                                               ELSE started(e).under)
        /\ b.pending = started(e).pending
    BY <1>1, <1>4, <1>s, StartFields
  <2> HIDE DEF a, b
  <2>3. /\ a.root = b.root /\ a.agents = b.agents /\ a.calls = b.calls
        /\ a.spawned = b.spawned /\ a.pending = b.pending
    BY <1>4, <1>c, <1>s, <2>1, <2>2, ZenonT(40)
  <2>d. /\ started(d).calls = tr.calls /\ started(d).spawned = tr.spawned \cup {d}
        /\ started(d).flat = (IF d \in tr.calls THEN tr.flat ELSE tr.flat \cup {d})
        /\ started(d).under = (IF d \in tr.calls THEN [tr.under EXCEPT ![d] = {d}] ELSE tr.under)
    BY <1>4, <1>s, <1>c
  <2>e. /\ started(e).calls = tr.calls /\ started(e).spawned = tr.spawned \cup {e}
        /\ started(e).flat = (IF e \in tr.calls THEN tr.flat ELSE tr.flat \cup {e})
        /\ started(e).under = (IF e \in tr.calls THEN [tr.under EXCEPT ![e] = {e}] ELSE tr.under)
    BY <1>4, <1>s, <1>c
  <2>4. a.flat = b.flat
    BY <1>4, <2>1, <2>2, <2>d, <2>e
  <2>u. \A A, B : [[tr.under EXCEPT ![d] = A] EXCEPT ![e] = B]
                  = [[tr.under EXCEPT ![e] = B] EXCEPT ![d] = A]
    BY <1>4, <1>t, TwoPlaces
  <2>5. a.under = b.under
    <3>1. CASE d \in tr.calls /\ e \in tr.calls
      <4>1. a.under = [[tr.under EXCEPT ![d] = {d}] EXCEPT ![e] = {e}]
        BY <1>4, <2>1, <2>d, <2>e, <3>1
      <4>2. b.under = [[tr.under EXCEPT ![e] = {e}] EXCEPT ![d] = {d}]
        BY <1>4, <2>2, <2>d, <2>e, <3>1
      <4> QED BY <4>1, <4>2, <2>u
    <3>2. CASE d \in tr.calls /\ ~(e \in tr.calls)
      BY <1>4, <2>1, <2>2, <2>d, <2>e, <2>u, <3>2
    <3>3. CASE ~(d \in tr.calls) /\ e \in tr.calls
      BY <1>4, <2>1, <2>2, <2>d, <2>e, <2>u, <3>3
    <3>4. CASE ~(d \in tr.calls) /\ ~(e \in tr.calls)
      BY <1>4, <2>1, <2>2, <2>d, <2>e, <2>u, <3>4
    <3> QED BY <3>1, <3>2, <3>3, <3>4
  <2>6. a \in T!Traces /\ b \in T!Traces
    BY <2>1, <2>2
  <2>7. a = b
    BY <2>3, <2>4, <2>5, <2>6, SameTrace
  <2> QED BY <2>7 DEF a, b
<1>5. ASSUME d # e, d \notin tr.agents
      PROVE  T!SubStart(called(e), d) = T!DelegateCall(started(d), e)
  <2> DEFINE a == T!SubStart(called(e), d)
             b == T!DelegateCall(started(d), e)
  <2>1. /\ a \in T!Traces /\ a.root = called(e).root /\ a.agents = called(e).agents \cup {d}
        /\ a.calls = called(e).calls /\ a.spawned = called(e).spawned \cup {d}
        /\ a.flat = (IF d \in called(e).calls THEN called(e).flat ELSE called(e).flat \cup {d})
        /\ a.under = (IF d \in called(e).calls THEN [called(e).under EXCEPT ![d] = {d}]
                                               ELSE called(e).under)
        /\ a.pending = called(e).pending
    BY <1>2, <1>5, <1>c, StartFields
  <2>2. /\ b \in T!Traces /\ b.root = started(d).root /\ b.agents = started(d).agents
        /\ b.calls = started(d).calls \cup {e} /\ b.spawned = started(d).spawned
        /\ b.flat = (IF e \in started(d).spawned THEN started(d).flat \ {e} ELSE started(d).flat)
        /\ b.under = (IF e \in started(d).spawned THEN [started(d).under EXCEPT ![e] = {e}]
                                                 ELSE [started(d).under EXCEPT ![e] = {}])
        /\ b.pending = started(d).pending
    BY <1>1, <1>5, CallFields
  <2> HIDE DEF a, b
  <2>3. /\ a.root = b.root /\ a.agents = b.agents /\ a.calls = b.calls
        /\ a.spawned = b.spawned /\ a.pending = b.pending
    BY <1>5, <1>c, <1>s, <2>1, <2>2, ZenonT(40)
  <2>d. /\ started(d).calls = tr.calls /\ started(d).spawned = tr.spawned \cup {d}
        /\ started(d).flat = (IF d \in tr.calls THEN tr.flat ELSE tr.flat \cup {d})
        /\ started(d).under = (IF d \in tr.calls THEN [tr.under EXCEPT ![d] = {d}] ELSE tr.under)
    BY <1>5, <1>s, <1>c
  <2>e. /\ called(e).calls = tr.calls \cup {e} /\ called(e).spawned = tr.spawned
        /\ called(e).flat = (IF e \in tr.spawned THEN tr.flat \ {e} ELSE tr.flat)
        /\ called(e).under = (IF e \in tr.spawned THEN [tr.under EXCEPT ![e] = {e}]
                                                  ELSE [tr.under EXCEPT ![e] = {}])
    BY <1>5, <1>s, <1>c
  <2>4. a.flat = b.flat
    <3>1. (tr.flat \ {e}) \cup {d} = (tr.flat \cup {d}) \ {e}
      BY <1>5
    <3> QED BY <1>5, <2>1, <2>2, <2>d, <2>e, <3>1
  <2>u. \A A, B : [[tr.under EXCEPT ![d] = A] EXCEPT ![e] = B]
                  = [[tr.under EXCEPT ![e] = B] EXCEPT ![d] = A]
    BY <1>5, <1>t, TwoPlaces
  <2>5. a.under = b.under
    <3>1. CASE d \in tr.calls /\ e \in tr.spawned
      <4>1. a.under = [[tr.under EXCEPT ![e] = {e}] EXCEPT ![d] = {d}]
        BY <1>5, <2>1, <2>d, <2>e, <3>1
      <4>2. b.under = [[tr.under EXCEPT ![d] = {d}] EXCEPT ![e] = {e}]
        BY <1>5, <2>2, <2>d, <2>e, <3>1
      <4> QED BY <4>1, <4>2, <2>u
    <3>2. CASE d \in tr.calls /\ ~(e \in tr.spawned)
      <4>1. a.under = [[tr.under EXCEPT ![e] = {}] EXCEPT ![d] = {d}]
        BY <1>5, <2>1, <2>d, <2>e, <3>2
      <4>2. b.under = [[tr.under EXCEPT ![d] = {d}] EXCEPT ![e] = {}]
        BY <1>5, <2>2, <2>d, <2>e, <3>2
      <4> QED BY <4>1, <4>2, <2>u
    <3>3. CASE ~(d \in tr.calls) /\ e \in tr.spawned
      BY <1>5, <2>1, <2>2, <2>d, <2>e, <2>u, <3>3
    <3>4. CASE ~(d \in tr.calls) /\ ~(e \in tr.spawned)
      BY <1>5, <2>1, <2>2, <2>d, <2>e, <2>u, <3>4
    <3> QED BY <3>1, <3>2, <3>3, <3>4
  <2>6. a \in T!Traces /\ b \in T!Traces
    BY <2>1, <2>2
  <2>7. a = b
    BY <2>3, <2>4, <2>5, <2>6, SameTrace
  <2> QED BY <2>7 DEF a, b
<1>6. ASSUME d # e
      PROVE  T!DelegateCall(called(d), e) = T!DelegateCall(called(e), d)
  <2> DEFINE a == T!DelegateCall(called(d), e)
             b == T!DelegateCall(called(e), d)
  <2>1. /\ a \in T!Traces /\ a.root = called(d).root /\ a.agents = called(d).agents
        /\ a.calls = called(d).calls \cup {e} /\ a.spawned = called(d).spawned
        /\ a.flat = (IF e \in called(d).spawned THEN called(d).flat \ {e} ELSE called(d).flat)
        /\ a.under = (IF e \in called(d).spawned THEN [called(d).under EXCEPT ![e] = {e}]
                                                 ELSE [called(d).under EXCEPT ![e] = {}])
        /\ a.pending = called(d).pending
    BY <1>2, CallFields
  <2>2. /\ b \in T!Traces /\ b.root = called(e).root /\ b.agents = called(e).agents
        /\ b.calls = called(e).calls \cup {d} /\ b.spawned = called(e).spawned
        /\ b.flat = (IF d \in called(e).spawned THEN called(e).flat \ {d} ELSE called(e).flat)
        /\ b.under = (IF d \in called(e).spawned THEN [called(e).under EXCEPT ![d] = {d}]
                                                 ELSE [called(e).under EXCEPT ![d] = {}])
        /\ b.pending = called(e).pending
    BY <1>2, CallFields
  <2> HIDE DEF a, b
  <2>d. /\ called(d).calls = tr.calls \cup {d} /\ called(d).spawned = tr.spawned
        /\ called(d).flat = (IF d \in tr.spawned THEN tr.flat \ {d} ELSE tr.flat)
        /\ called(d).under = (IF d \in tr.spawned THEN [tr.under EXCEPT ![d] = {d}]
                                                  ELSE [tr.under EXCEPT ![d] = {}])
    BY <1>6, <1>s, <1>c
  <2>e. /\ called(e).calls = tr.calls \cup {e} /\ called(e).spawned = tr.spawned
        /\ called(e).flat = (IF e \in tr.spawned THEN tr.flat \ {e} ELSE tr.flat)
        /\ called(e).under = (IF e \in tr.spawned THEN [tr.under EXCEPT ![e] = {e}]
                                                  ELSE [tr.under EXCEPT ![e] = {}])
    BY <1>6, <1>s, <1>c
  <2>c. /\ called(d).root = tr.root /\ called(d).agents = tr.agents
        /\ called(d).pending = tr.pending /\ called(e).root = tr.root
        /\ called(e).agents = tr.agents /\ called(e).pending = tr.pending
    BY <1>c
  <2>3. /\ a.root = b.root /\ a.agents = b.agents /\ a.calls = b.calls
        /\ a.spawned = b.spawned /\ a.pending = b.pending
    <3>1. a.root = b.root /\ a.agents = b.agents /\ a.pending = b.pending
      BY <2>1, <2>2, <2>c, Zenon
    <3>2. a.calls = (tr.calls \cup {d}) \cup {e} /\ b.calls = (tr.calls \cup {e}) \cup {d}
      BY <2>1, <2>2, <2>d, <2>e, Zenon
    <3>3. a.spawned = b.spawned
      BY <2>1, <2>2, <2>d, <2>e, Zenon
    <3>4. (tr.calls \cup {d}) \cup {e} = (tr.calls \cup {e}) \cup {d}
      OBVIOUS
    <3> QED BY <3>1, <3>2, <3>3, <3>4
  <2>4. a.flat = b.flat
    BY <1>6, <2>1, <2>2, <2>d, <2>e
  <2>u. \A A, B : [[tr.under EXCEPT ![d] = A] EXCEPT ![e] = B]
                  = [[tr.under EXCEPT ![e] = B] EXCEPT ![d] = A]
    BY <1>6, <1>t, TwoPlaces
  <2>5. a.under = b.under
    <3>1. CASE d \in tr.spawned /\ e \in tr.spawned
      <4>1. a.under = [[tr.under EXCEPT ![d] = {d}] EXCEPT ![e] = {e}]
        BY <1>6, <2>1, <2>d, <2>e, <3>1
      <4>2. b.under = [[tr.under EXCEPT ![e] = {e}] EXCEPT ![d] = {d}]
        BY <1>6, <2>2, <2>d, <2>e, <3>1
      <4> QED BY <4>1, <4>2, <2>u
    <3>2. CASE d \in tr.spawned /\ ~(e \in tr.spawned)
      <4>1. a.under = [[tr.under EXCEPT ![d] = {d}] EXCEPT ![e] = {}]
        BY <1>6, <2>1, <2>d, <2>e, <3>2
      <4>2. b.under = [[tr.under EXCEPT ![e] = {}] EXCEPT ![d] = {d}]
        BY <1>6, <2>2, <2>d, <2>e, <3>2
      <4> QED BY <4>1, <4>2, <2>u
    <3>3. CASE ~(d \in tr.spawned) /\ e \in tr.spawned
      <4>1. a.under = [[tr.under EXCEPT ![d] = {}] EXCEPT ![e] = {e}]
        BY <1>6, <2>1, <2>d, <2>e, <3>3
      <4>2. b.under = [[tr.under EXCEPT ![e] = {e}] EXCEPT ![d] = {}]
        BY <1>6, <2>2, <2>d, <2>e, <3>3
      <4> QED BY <4>1, <4>2, <2>u
    <3>4. CASE ~(d \in tr.spawned) /\ ~(e \in tr.spawned)
      <4>1. a.under = [[tr.under EXCEPT ![d] = {}] EXCEPT ![e] = {}]
        BY <1>6, <2>1, <2>d, <2>e, <3>4
      <4>2. b.under = [[tr.under EXCEPT ![e] = {}] EXCEPT ![d] = {}]
        BY <1>6, <2>2, <2>d, <2>e, <3>4
      <4> QED BY <4>1, <4>2, <2>u
    <3> QED BY <3>1, <3>2, <3>3, <3>4
  <2>6. a \in T!Traces /\ b \in T!Traces
    BY <2>1, <2>2
  <2>7. a = b
    BY <2>3, <2>4, <2>5, <2>6, SameTrace
  <2> QED BY <2>7 DEF a, b
<1> QED BY <1>3, <1>4, <1>5, <1>6 DEF started, called

-----------------------------------------------------------------------------
(* The delegations of a session with its turn queue.  Two steps of the      *)
(* queue are not in Delegation: a turn that waits is aborted, and skipped.  *)

\* A waiting turn is aborted, or skipped.
Marks ==
  \E t \in Turns :
    /\ turn[t] = "waiting" /\ UNCHANGED <<newest, phase, semVars, timer, late, outVars>>
    /\ \/ aborted' = aborted \cup {t} /\ UNCHANGED turn
       \/ t \in aborted /\ turn' = [turn EXCEPT ![t] = "over"] /\ UNCHANGED aborted

\* What the turns and delegations do below the interface.
Moves == [Next]_vars \/ Marks

\* They leave the delegations' invariants and the pool alone.
LEMMA MarksKeep ==
  ASSUME SlotInv, \A d \in Delegations : OutcomeOf(d), Marks
  PROVE  SlotInv' /\ (\A d \in Delegations : OutcomeOf(d)') /\ UNCHANGED <<Holders, queue>>
<1>1. PICK t \in Turns :
        /\ UNCHANGED <<newest, phase, semVars, timer, late, outVars>>
        /\ \/ aborted' = aborted \cup {t} /\ UNCHANGED turn
           \/ t \in aborted /\ turn' = [turn EXCEPT ![t] = "over"] /\ UNCHANGED aborted
  BY DEF Marks
<1>2. /\ turn' \in [Turns -> {"waiting", "driving", "over"}]
      /\ aborted' \subseteq Turns /\ aborted \subseteq aborted'
  BY <1>1 DEF SlotInv, DelegationTypeOK
<1>3. SlotInv' /\ UNCHANGED <<Holders, queue>>
  BY <1>1, <1>2 DEF SlotInv, DelegationTypeOK, SlotsExact, QueuedOnce, Holders, Queued, semVars, outVars
<1>4. \A d \in Delegations : OutcomeOf(d)'
  BY <1>1, <1>2, OthersKeep DEF outVars
<1> QED BY <1>3, <1>4

\* The phases a delegation goes through, and the steps that begin and stream it.
Begun(d) == phase[d] \in {"streaming", "judging", "over"}
Advances(d) ==
  \/ phase'[d] = phase[d]
  \/ phase[d] = "idle" /\ phase'[d] \in {"queued", "granted"} /\ turn[TurnOf[d]] = "driving"
       /\ turn' = turn
  \/ phase[d] = "queued" /\ phase'[d] = "granted"
  \/ phase[d] = "granted" /\ phase'[d] \in {"streaming", "over"}
  \/ phase[d] = "streaming" /\ phase'[d] \in {"judging", "over"}
  \/ phase[d] = "judging" /\ phase'[d] = "over"

\* A turn that ends without having been aborted has no delegation outstanding.
TurnAdvances(t) ==
  \/ turn'[t] = turn[t]
  \/ turn[t] = "waiting" /\ turn'[t] = "driving"
  \/ turn'[t] = "over" /\ phase' = phase /\ (t \in aborted \/ Outstanding(t) = {})

\* Every step moves the phases forward.
LEMMA PhasesAdvance ==
  ASSUME SlotInv, Moves, NEW d \in Delegations
  PROVE  Advances(d)
<1>t. phase \in [Delegations -> Phases] /\ "judging" \in Phases
  BY DEF SlotInv, DelegationTypeOK, Phases, Holding
<1>1. CASE UNCHANGED vars \/ Marks \/ \E t \in Turns : BeginTurn(t) \/ AbortTurn(t) \/ EndTurn(t)
  <2>1. phase' = phase
    BY <1>1 DEF vars, Marks, BeginTurn, AbortTurn, EndTurn
  <2> QED BY <2>1 DEF Advances
<1>2. ASSUME NEW e \in Delegations, Delegate(e) PROVE Advances(d)
  BY <1>2, <1>t DEF Delegate, Advances, turnVars
<1>3. ASSUME NEW e \in Delegations, Start(e) \/ Timeout(e) PROVE Advances(d)
  BY <1>3, <1>t DEF Start, Timeout, Advances
<1>4. ASSUME NEW e \in Delegations, phase[e] \in Holding, Release(e) PROVE Advances(d)
  <2>1. /\ phase'[e] = "over"
        /\ \A x \in Delegations \ {e} :
             phase'[x] = phase[x] \/ (phase[x] = "queued" /\ phase'[x] = "granted")
    BY <1>4, ReleaseMoves DEF Holders
  <2> QED BY <1>4, <2>1 DEF Advances, Holding
<1>5. ASSUME NEW e \in Delegations, StartFails(e) \/ Stops(e) \/ Fails(e) \/ JudgeEnds(e) PROVE Advances(d)
  BY <1>4, <1>5 DEF StartFails, Stops, EndsTimedOut, EndsAborted, Fails, JudgeEnds, Holding
<1>6. ASSUME NEW e \in Delegations, Completes(e) \/ EndsSilent(e) PROVE Advances(d)
  <2>1. phase[e] = "streaming" /\ (Release(e) \/ phase' = [phase EXCEPT ![e] = "judging"])
    BY <1>6 DEF Completes, EndsSilent, Conclude
  <2>2. CASE phase' = [phase EXCEPT ![e] = "judging"]
    BY <1>t, <2>1, <2>2 DEF Advances
  <2> QED BY <1>4, <2>1, <2>2 DEF Holding
<1> QED BY <1>1, <1>2, <1>3, <1>5, <1>6 DEF Moves, Next

\* Every step moves the turns forward, and no abort is taken back.
LEMMA TurnsAdvance ==
  ASSUME SlotInv, Moves
  PROVE  aborted \subseteq aborted' /\ \A t \in Turns : TurnAdvances(t)
<1>t. turn \in [Turns -> {"waiting", "driving", "over"}]
  BY DEF SlotInv, DelegationTypeOK
<1>1. ASSUME UNCHANGED turnVars PROVE aborted \subseteq aborted' /\ \A t \in Turns : TurnAdvances(t)
  BY <1>1 DEF turnVars, TurnAdvances
<1>2. ASSUME NEW u \in Turns, BeginTurn(u) \/ AbortTurn(u) \/ EndTurn(u)
      PROVE  aborted \subseteq aborted' /\ \A t \in Turns : TurnAdvances(t)
  BY <1>2, <1>t DEF BeginTurn, AbortTurn, EndTurn, TurnAdvances
<1>3. CASE Marks
  BY <1>3, <1>t DEF Marks, TurnAdvances
<1>4. ASSUME NEW d \in Delegations,
             \/ Delegate(d) \/ Start(d) \/ StartFails(d) \/ Timeout(d)
             \/ Completes(d) \/ EndsSilent(d) \/ Stops(d) \/ Fails(d) \/ JudgeEnds(d)
      PROVE  UNCHANGED turnVars
  BY <1>4 DEF Delegate, Start, StartFails, Timeout, Completes, EndsSilent, Stops, EndsTimedOut,
              EndsAborted, Fails, JudgeEnds
<1> QED BY <1>1, <1>2, <1>3, <1>4 DEF Moves, Next, vars

\* A delegation is made while its turn drives, and works while its turn does, but for
\* those an abort has left behind.
TurnsLead ==
  \A d \in Delegations :
    /\ phase[d] # "idle" => turn[TurnOf[d]] # "waiting"
    /\ turn[TurnOf[d]] = "over" => Aborted(d) \/ phase[d] \in {"idle", "over"}

\* Every step keeps the turns ahead of their delegations.
LEMMA TurnsLeadOn ==
  ASSUME SlotInv, TurnsLead, Moves
  PROVE  TurnsLead'
<1> SUFFICES ASSUME NEW d \in Delegations
             PROVE  /\ phase'[d] # "idle" => turn'[TurnOf[d]] # "waiting"
                    /\ turn'[TurnOf[d]] = "over" => Aborted(d)' \/ phase'[d] \in {"idle", "over"}
  BY DEF TurnsLead
<1> DEFINE t == TurnOf[d]
<1>1. t \in Turns /\ turn[t] \in {"waiting", "driving", "over"}
  BY DelegationAssumption DEF SlotInv, DelegationTypeOK
<1>2. /\ phase[d] # "idle" => turn[t] # "waiting"
      /\ turn[t] = "over" => Aborted(d) \/ phase[d] \in {"idle", "over"}
  BY DEF TurnsLead
<1>3. Advances(d) /\ TurnAdvances(t) /\ aborted \subseteq aborted'
  BY <1>1, PhasesAdvance, TurnsAdvance
<1>4. Outstanding(t) = {} => phase[d] \in {"idle", "over"}
  BY DEF Outstanding, Of
<1>5. Aborted(d) => Aborted(d)'
  BY <1>3 DEF Aborted
<1>6. t \in aborted => Aborted(d)
  BY DEF Aborted
<1>a. /\ phase[d] = "idle" => phase'[d] = "idle" \/ (turn[t] = "driving" /\ turn' = turn)
      /\ phase[d] = "over" => phase'[d] = "over"
  BY <1>3 DEF Advances
<1> HIDE DEF t
<1>7. phase'[d] # "idle" => turn'[t] # "waiting"
  BY <1>1, <1>2, <1>3, <1>a DEF TurnAdvances
<1>8. turn'[t] = "over" => Aborted(d)' \/ phase'[d] \in {"idle", "over"}
  BY <1>1, <1>2, <1>3, <1>4, <1>5, <1>6, <1>a DEF TurnAdvances
<1> QED BY <1>7, <1>8 DEF t

-----------------------------------------------------------------------------
(* The terminal *)

\* Types of the host's side and of the interface.
TuiTypeOK ==
  /\ attached \in BOOLEAN
  /\ line \in Seq(Turns \cup {Compact}) /\ ask \in [Gated -> {"none", "open", "answered", "over"}]
  /\ seen \subseteq Delegations
  /\ here \in BOOLEAN /\ loading \in Nat
  /\ runId \in Turns \cup {NoTurn} /\ clock \in {"off", "running", "stopped"}
  /\ subRuns \subseteq Delegations /\ pendingAbort \in BOOLEAN /\ sending \subseteq Turns
  /\ detours \in Nat /\ attended \in Turns \cup {NoTurn}

\* Nodes, tracked runs and questions are of sub-agents that have started; what is on
\* screen is asked once, and open or given up.
Follows ==
  /\ \A d \in Delegations : d \in trace.agents \cup subRuns => Begun(d)
  /\ \A d \in Gated : ask[d] # "none" => Begun(d)
  /\ Elems(trace.pending) \subseteq Gated /\ Once(trace.pending)
  /\ \A d \in Elems(trace.pending) : ask[d] \in {"open", "over"}

\* A turn whose send is awaited has made no delegation, and the attended one is tracked
\* from the moment its send resolves, below the orchestrator.
Sent ==
  /\ ~attached => attended = NoTurn /\ sending = {}
  /\ \A t \in sending : \A d \in Of(t) : phase[d] = "idle"
  /\ attended # NoTurn =>
       /\ here /\ sending \subseteq {attended}
       /\ trace.root = Orchestrator /\ Orchestrator \in trace.agents
       /\ Accepted(attended) /\ turn[attended] # "over" => attended \in sending \/ runId = attended

\* Of a sub-agent of the attended turn: its node has its place, its run is tracked while it
\* works, and its question is on screen.
Attends(d) ==
  /\ Placed(trace, d)
  /\ d \in subRuns => d \in trace.agents
  /\ phase[d] = "streaming" => Aborted(d) \/ d \in subRuns
  /\ d \in Gated /\ ask[d] = "open" => d \in Elems(trace.pending)

\* Every sub-agent of the attended turn.
AllAttend == \A d \in Of(attended) : Attends(d)

\* The inductive invariant of the interface and the host below it.
ScreenInv ==
  /\ SlotInv /\ (\A d \in Delegations : OutcomeOf(d)) /\ TurnsLead
  /\ TuiTypeOK /\ TreeFits(trace) /\ Follows /\ Sent /\ AllAttend

\* The turns and delegations a step of the interface moves.
LEMMA ScreenMoves ==
  ASSUME TuiTypeOK, [TuiNext]_allVars
  PROVE  Moves
<1> USE DEF Moves
<1>1. ASSUME UNCHANGED vars PROVE Moves
  BY <1>1
<1>2. ASSUME NEW t \in Turns, AbortRun(t) PROVE Moves
  BY <1>2 DEF AbortRun, Next, Marks, semVars, outVars
<1>3. ASSUME NEW t \in Turns, \/ Send(t) \/ SendFails(t) \/ Accept(t) \/ Resolve(t)
                              \/ Begin(t) \/ Skip(t) \/ ErrorPart(t) \/ Finish(t)
      PROVE  Moves
  <2>1. CASE Send(t) \/ SendFails(t) \/ ErrorPart(t)
    BY <1>1, <2>1 DEF Send, SendFails, ErrorPart
  <2>2. CASE Accept(t) \/ Begin(t) \/ Finish(t)
    BY <2>2 DEF Accept, Begin, Finish, Next
  <2>3. CASE Resolve(t)
    BY <1>1, <1>2, <2>3 DEF Resolve
  <2>4. CASE Skip(t)
    BY <2>4 DEF Skip, Marks, semVars, outVars
  <2> QED BY <1>3, <2>1, <2>2, <2>3, <2>4
<1>4. CASE CtrlC \/ Clear \/ CompactNow \/ Decide \/ SwitchTo \/ Load \/ LoadOther \/ CompactEnds
  <2>1. CASE CtrlC
    <3>1. runId # NoTurn => runId \in Turns
      BY DEF TuiTypeOK
    <3> QED BY <1>1, <1>2, <2>1, <3>1 DEF CtrlC
  <2> QED BY <1>1, <1>4, <2>1 DEF Clear, CompactNow, Decide, SwitchTo, Load, LoadOther, CompactEnds
<1>5. ASSUME NEW d \in Delegations,
             \/ Call(d) \/ CallSeen(d) \/ Started(d) \/ Speaks(d) \/ Asks(d)
             \/ ResultSeen(d) \/ TimerFires(d) \/ Ends(d)
      PROVE  Moves
  BY <1>1, <1>5 DEF Call, CallSeen, Started, Speaks, Asks, ResultSeen, TimerFires, Ends, Next
<1> QED BY <1>1, <1>3, <1>4, <1>5 DEF TuiNext, Screen, allVars

\* The queue, and what is accepted, after each kind of step.
LEMMA LineSteps ==
  ASSUME TuiTypeOK
  PROVE  /\ line # <<>> => /\ Tail(line) \in Seq(Turns \cup {Compact})
                            /\ Elems(Tail(line)) \subseteq Elems(line)
                            /\ Head(line) \in Elems(line)
         /\ \A x \in Turns \cup {Compact} :
              /\ Append(line, x) \in Seq(Turns \cup {Compact})
              /\ Elems(Append(line, x)) = Elems(line) \cup {x}
<1>1. line \in Seq(Turns \cup {Compact})
  BY DEF TuiTypeOK
<1>2. ASSUME line # <<>>
      PROVE  /\ Tail(line) \in Seq(Turns \cup {Compact}) /\ Elems(Tail(line)) \subseteq Elems(line)
             /\ Head(line) \in Elems(line)
  <2>1. /\ Tail(line) \in Seq(Turns \cup {Compact}) /\ Len(Tail(line)) = Len(line) - 1
        /\ Len(line) \in Nat \ {0} /\ \A i \in 1 .. Len(Tail(line)) : Tail(line)[i] = line[i + 1]
        /\ Head(line) = line[1]
    BY <1>1, <1>2, HeadTailProperties
  <2>2. DOMAIN line = 1 .. Len(line) /\ DOMAIN Tail(line) = 1 .. Len(line) - 1
    BY <1>1, <2>1
  <2>3. \A i \in DOMAIN Tail(line) : i + 1 \in DOMAIN line /\ Tail(line)[i] = line[i + 1]
    BY <2>1, <2>2
  <2>4. 1 \in DOMAIN line
    BY <2>1, <2>2
  <2> QED BY <2>1, <2>3, <2>4 DEF Elems
<1>3. \A x \in Turns \cup {Compact} : /\ Append(line, x) \in Seq(Turns \cup {Compact})
                                     /\ Elems(Append(line, x)) = Elems(line) \cup {x}
  BY <1>1, AppendAddsOne
<1> QED BY <1>2, <1>3

\* A turn is accepted when it has begun or stands in the queue.
LEMMA AcceptedIf == \A t : Accepted(t) <=> turn[t] # "waiting" \/ t \in Elems(line)
BY DEF Accepted, Elems

\* Settling an open question is what an abort does.
LEMMA SettledAsks ==
  ASSUME TuiTypeOK
  PROVE  /\ Settled \in [Gated -> {"none", "open", "answered", "over"}]
         /\ \A d \in Gated : Settled[d] = ask[d] \/ (ask[d] = "open" /\ Settled[d] = "over")
BY DEF TuiTypeOK, Settled

\* Every step keeps the types.
LEMMA TuiTypesStep ==
  ASSUME TuiTypeOK, TreeFits(trace), [TuiNext]_allVars
  PROVE  TuiTypeOK'
<1> USE TuiAssumption
<1>0. TuiTypeOK
  OBVIOUS
<1>1. CASE UNCHANGED tuiVars /\ UNCHANGED attached
  BY <1>0, <1>1 DEF TuiTypeOK, tuiVars, hostVars, runVars, viewVars, ghostVars
<1>2. ASSUME NEW t \in Turns, AbortRun(t)
      PROVE  ask' \in [Gated -> {"none", "open", "answered", "over"}]
  BY <1>0, <1>2, SettledAsks DEF AbortRun, TuiTypeOK
<1>3. ASSUME NEW t \in Turns, attached' = attached,
             \/ Send(t) \/ SendFails(t) \/ Accept(t) \/ Resolve(t)
             \/ Begin(t) \/ Skip(t) \/ ErrorPart(t) \/ Finish(t)
      PROVE  TuiTypeOK'
  <2>1. CASE Send(t)
    <3>1. (IF Quiet THEN t ELSE NoTurn) \in Turns \cup {NoTurn}
      OBVIOUS
    <3> QED BY <1>0, <1>3, <2>1, <3>1 DEF Send, TuiTypeOK, hostVars, viewVars
  <2>2. CASE SendFails(t)
    BY <1>0, <1>3, <2>2 DEF SendFails, TuiTypeOK, hostVars, viewVars
  <2>3. CASE Accept(t)
    BY <1>0, <1>3, <2>3, LineSteps DEF Accept, TuiTypeOK, runVars, viewVars, ghostVars
  <2>4. CASE Resolve(t)
    <3>1. ask' \in [Gated -> {"none", "open", "answered", "over"}]
      BY <1>0, <1>2, <2>4 DEF Resolve, TuiTypeOK
    <3> QED BY <1>0, <1>3, <2>4, <3>1 DEF Resolve, TuiTypeOK, viewVars, ghostVars
  <2>5. CASE Begin(t)
    BY <1>1, <1>3, <2>5 DEF Begin
  <2>6. CASE Skip(t)
    BY <1>0, <1>3, <2>6, LineSteps DEF Skip, Ready, TuiTypeOK, runVars, viewVars, ghostVars
  <2>7. CASE ErrorPart(t)
    BY <1>0, <1>3, <2>7 DEF ErrorPart, Detour, Stopped, TuiTypeOK, hostVars, viewVars
  <2>8. CASE Finish(t)
    BY <1>0, <1>3, <2>8, LineSteps DEF Finish, Ready, Stopped, TuiTypeOK, viewVars, ghostVars
  <2> QED BY <1>3, <2>1, <2>2, <2>3, <2>4, <2>5, <2>6, <2>7, <2>8
<1>4. ASSUME attached' = attached,
             CtrlC \/ Clear \/ CompactNow \/ Decide \/ SwitchTo \/ Load \/ LoadOther \/ CompactEnds
      PROVE  TuiTypeOK'
  <2>1. CASE CtrlC
    <3>1. runId # NoTurn => runId \in Turns
      BY <1>0 DEF TuiTypeOK
    <3>2. ask' \in [Gated -> {"none", "open", "answered", "over"}]
      BY <1>0, <1>2, <2>1, <3>1 DEF CtrlC, TuiTypeOK
    <3> QED BY <1>0, <1>4, <2>1, <3>2 DEF CtrlC, TuiTypeOK, viewVars, ghostVars
  <2>2. CASE Clear
    BY <1>0, <1>4, <2>2 DEF Clear, Detour, TuiTypeOK, hostVars, viewVars
  <2>3. CASE CompactNow
    BY <1>0, <1>4, <2>3, LineSteps DEF CompactNow, Detour, TuiTypeOK, runVars, viewVars
  <2>4. CASE Decide
    <3>1. ask' \in [Gated -> {"none", "open", "answered", "over"}]
      BY <1>0, <2>4 DEF Decide, TuiTypeOK
    <3> QED BY <1>0, <1>4, <2>4, <3>1 DEF Decide, TuiTypeOK, runVars, viewVars, ghostVars
  <2>5. CASE SwitchTo
    BY <1>0, <1>4, <2>5 DEF SwitchTo, Detour, TuiTypeOK, hostVars
  <2>6. CASE Load
    BY <1>0, <1>4, <2>6 DEF Load, TuiTypeOK, hostVars, runVars
  <2>7. CASE LoadOther
    BY <1>0, <1>4, <2>7 DEF LoadOther, TuiTypeOK, hostVars, runVars, viewVars, ghostVars
  <2>8. CASE CompactEnds
    BY <1>0, <1>4, <2>8, LineSteps DEF CompactEnds, Ready, TuiTypeOK, runVars, viewVars, ghostVars
  <2> QED BY <1>4, <2>1, <2>2, <2>3, <2>4, <2>5, <2>6, <2>7, <2>8
<1>5. ASSUME NEW d \in Delegations, attached' = attached,
             \/ Call(d) \/ CallSeen(d) \/ Started(d) \/ Speaks(d) \/ Asks(d)
             \/ ResultSeen(d) \/ TimerFires(d) \/ Ends(d)
      PROVE  TuiTypeOK'
  <2>1. CASE Call(d) \/ Ends(d)
    BY <1>1, <1>5, <2>1 DEF Call, Ends
  <2>2. CASE CallSeen(d)
    BY <1>0, <1>5, <2>2 DEF CallSeen, TuiTypeOK, runVars, viewVars, ghostVars
  <2>3. CASE Started(d)
    BY <1>0, <1>5, <2>3 DEF Started, TuiTypeOK, hostVars, viewVars, ghostVars
  <2>4. CASE Speaks(d)
    BY <1>0, <1>5, <2>4 DEF Speaks, TuiTypeOK, hostVars, runVars, viewVars, ghostVars
  <2>5. CASE Asks(d) \/ ResultSeen(d)
    BY <1>0, <1>5, <2>5 DEF Asks, ResultSeen, TuiTypeOK, runVars, viewVars, ghostVars
  <2>6. CASE TimerFires(d)
    <3>1. ask' \in [Gated -> {"none", "open", "answered", "over"}]
      BY <1>0, <2>6 DEF TimerFires, TuiTypeOK
    <3> QED BY <1>0, <1>5, <2>6, <3>1 DEF TimerFires, TuiTypeOK, runVars, viewVars, ghostVars
  <2> QED BY <1>5, <2>1, <2>2, <2>3, <2>4, <2>5, <2>6
<1> QED BY <1>1, <1>3, <1>4, <1>5 DEF TuiNext, Screen, allVars

\* What is left to show of ScreenInv: the rest is about the delegations alone.
Shown == TreeFits(trace) /\ Follows /\ Sent /\ AllAttend

\* A sub-agent that has started stays so, and a turn that is over.
LEMMA MovesForward ==
  ASSUME SlotInv, Moves
  PROVE  /\ aborted \subseteq aborted'
         /\ \A d \in Delegations : Begun(d) => Begun(d)'
         /\ \A d \in Delegations : phase'[d] # "idle" => phase[d] # "idle" \/ turn[TurnOf[d]] = "driving"
         /\ \A t \in Turns : turn[t] = "over" => turn'[t] = "over"
<1>1. aborted \subseteq aborted' /\ \A t \in Turns : TurnAdvances(t)
  BY TurnsAdvance
<1>2. ASSUME NEW d \in Delegations
      PROVE  /\ Begun(d) => Begun(d)'
             /\ phase'[d] # "idle" => phase[d] # "idle" \/ turn[TurnOf[d]] = "driving"
  <2>1. Advances(d)
    BY PhasesAdvance
  <2>2. phase[d] \in Phases
    BY DEF SlotInv, DelegationTypeOK
  <2> QED BY <2>1, <2>2 DEF Advances, Begun
<1>3. ASSUME NEW t \in Turns, turn[t] = "over" PROVE turn'[t] = "over"
  BY <1>1, <1>3 DEF TurnAdvances
<1> QED BY <1>1, <1>2, <1>3

\* Only a start opens a stream.
LEMMA StreamsOpen ==
  ASSUME SlotInv, NEW d \in Delegations,
         Delegate(d) \/ StartFails(d) \/ Stops(d) \/ Completes(d) \/ Timeout(d)
  PROVE  /\ \A e \in Delegations : phase'[e] = "streaming" => phase[e] = "streaming"
         /\ turnVars' = turnVars
<1>t. phase \in [Delegations -> Phases]
  BY DEF SlotInv, DelegationTypeOK
<1>1. turnVars' = turnVars
  BY DEF Delegate, StartFails, Stops, EndsTimedOut, EndsAborted, Completes, Timeout
<1>2. ASSUME phase[d] \in Holding, Release(d)
      PROVE  \A e \in Delegations : phase'[e] = "streaming" => phase[e] = "streaming"
  <2>1. /\ phase'[d] = "over"
        /\ \A e \in Delegations \ {d} :
             phase'[e] = phase[e] \/ (phase[e] = "queued" /\ phase'[e] = "granted")
    BY <1>2, ReleaseMoves DEF Holders
  <2> QED BY <2>1
<1>3. CASE Delegate(d)
  BY <1>3, <1>t DEF Delegate
<1>4. CASE StartFails(d) \/ Stops(d)
  BY <1>2, <1>4 DEF StartFails, Stops, EndsTimedOut, EndsAborted, Holding
<1>5. CASE Completes(d)
  <2>1. phase[d] = "streaming" /\ (Release(d) \/ phase' = [phase EXCEPT ![d] = "judging"])
    BY <1>5 DEF Completes, Conclude
  <2>2. CASE phase' = [phase EXCEPT ![d] = "judging"]
    BY <1>1, <1>t, <2>2
  <2> QED BY <1>1, <1>2, <2>1, <2>2 DEF Holding
<1>6. CASE Timeout(d)
  BY <1>6 DEF Timeout
<1> QED BY <1>1, <1>3, <1>4, <1>5, <1>6

\* A turn whose send is awaited gets no delegation: none is made before the send resolves.
LEMMA SendersIdle ==
  ASSUME SlotInv, Moves, Sent, sending' \subseteq sending, sending \subseteq Turns,
         Calm \/ phase' = phase
  PROVE  \A t \in sending' : \A d \in Of(t) : phase'[d] = "idle"
<1> SUFFICES ASSUME NEW t \in sending', NEW d \in Of(t) PROVE phase'[d] = "idle"
  OBVIOUS
<1>1. t \in sending /\ d \in Delegations /\ TurnOf[d] = t /\ phase[d] = "idle"
  BY DEF Sent, Of
<1>2. CASE Calm
  <2>1. turn[t] = "waiting"
    BY <1>1, <1>2 DEF Calm, Accepted
  <2> QED BY <1>1, <2>1, MovesForward
<1> QED BY <1>1, <1>2

\* A screen nobody attends owes nothing about the turns.
LEMMA Unattended ==
  ASSUME SlotInv, Moves, Sent, sending' \subseteq sending, sending \subseteq Turns,
         Calm \/ phase' = phase, attached' = attached, attended' = NoTurn
  PROVE  Sent' /\ AllAttend'
<1>1. \A t \in sending' : \A d \in Of(t) : phase'[d] = "idle"
  BY SendersIdle
<1>2. ~attached' => sending' = {}
  BY DEF Sent
<1>3. Of(attended') = {}
  BY DelegationAssumption DEF Of
<1>4. Of(attended)' = Of(attended')
  BY DEF Of
<1> QED BY <1>1, <1>2, <1>3, <1>4 DEF Sent, AllAttend

\* The attended turn stays tracked: it is not accepted but by its own send, and the run
\* tracked is given up when it is over.
StaysTracked ==
  /\ Accepted(attended)' => Accepted(attended) \/ attended \in sending'
  /\ turn'[attended] # "over" /\ (attended \in sending \/ runId = attended)
       => attended \in sending' \/ runId' = attended

\* A step that keeps the root keeps what Sent says.
LEMMA SentOn ==
  ASSUME ScreenInv, Moves, sending' \subseteq sending, Calm \/ phase' = phase,
         attached' = attached, attended' = attended, here' = here, StaysTracked,
         attended # NoTurn => trace'.root = trace.root /\ trace.agents \subseteq trace'.agents
  PROVE  Sent'
<1>0. SlotInv /\ Sent /\ sending \subseteq Turns /\ attended \in Turns \cup {NoTurn}
  BY DEF ScreenInv, TuiTypeOK
<1>1. \A t \in sending' : \A d \in Of(t) : phase'[d] = "idle"
  BY <1>0, SendersIdle
<1>2. ~attached' => attended' = NoTurn /\ sending' = {}
  BY <1>0 DEF Sent
<1>3. ASSUME attended # NoTurn
      PROVE  /\ here' /\ sending' \subseteq {attended}
             /\ trace'.root = Orchestrator /\ Orchestrator \in trace'.agents
             /\ Accepted(attended)' /\ turn'[attended] # "over" => attended \in sending' \/ runId' = attended
  <2>1. turn[attended] = "over" => turn'[attended] = "over"
    BY <1>0, <1>3, MovesForward
  <2> QED BY <1>0, <1>3, <2>1 DEF Sent, StaysTracked
<1> QED BY <1>1, <1>2, <1>3 DEF Sent

\* Steps that leave the trace alone: a run may be given up, a question settled or answered
\* off screen, a stream closed.
LEMMA Steady ==
  ASSUME ScreenInv, Moves, trace' = trace, attached' = attached,
         sending' \subseteq sending, subRuns' \subseteq subRuns, Calm \/ phase' = phase,
         \A d \in Gated : ask'[d] = ask[d] \/ (ask[d] = "open" /\ ask'[d] = "over"),
         \/ attended' = NoTurn
         \/ /\ attended' = attended /\ here' = here /\ StaysTracked
            /\ \A d \in Of(attended) : phase'[d] = "streaming" =>
                 phase[d] = "streaming" /\ (d \in subRuns => d \in subRuns')
  PROVE  Shown'
<1>0. /\ SlotInv /\ Sent /\ sending \subseteq Turns /\ TreeFits(trace) /\ Follows /\ AllAttend
      /\ trace.agents = trace'.agents
  BY DEF ScreenInv, TuiTypeOK
<1>1. TreeFits(trace)'
  BY <1>0 DEF TreeFits
<1>2. Follows'
  <2>1. \A d \in Delegations : Begun(d) => Begun(d)'
    BY <1>0, MovesForward
  <2>2. Elems(trace.pending)' = Elems(trace.pending) /\ Once(trace.pending)' = Once(trace.pending)
    OBVIOUS
  <2>3. \A d \in Delegations : d \in trace'.agents \cup subRuns' => Begun(d)'
    BY <1>0, <2>1 DEF Follows
  <2>4. \A d \in Gated : ask'[d] # "none" => Begun(d)'
    BY <1>0, <2>1, TuiAssumption DEF Follows
  <2>5. \A d \in Elems(trace.pending) : ask'[d] \in {"open", "over"}
    BY <1>0 DEF Follows
  <2> QED BY <1>0, <2>2, <2>3, <2>4, <2>5 DEF Follows
<1>3. Sent' /\ AllAttend'
  <2>1. CASE attended' = NoTurn
    BY <1>0, <2>1, Unattended
  <2>2. CASE attended' # NoTurn
    <3>1. Sent'
      BY <2>2, SentOn
    <3>2. ASSUME NEW d \in Of(attended) PROVE Attends(d)'
      <4>1. Attends(d) /\ d \in Delegations
        BY <1>0, <3>2 DEF AllAttend, Of
      <4>2. Placed(trace, d)'
        BY <4>1 DEF Attends, Placed
      <4>3. phase'[d] = "streaming" => Aborted(d)' \/ d \in subRuns'
        BY <1>0, <2>2, <3>2, <4>1, MovesForward DEF Attends, Aborted
      <4>4. d \in subRuns' => d \in trace'.agents
        BY <4>1 DEF Attends
      <4>5. d \in Gated /\ ask'[d] = "open" => d \in Elems(trace'.pending)
        BY <4>1 DEF Attends
      <4> QED BY <4>2, <4>3, <4>4, <4>5 DEF Attends, Placed
    <3>3. Of(attended)' = Of(attended)
      BY <2>2 DEF Of
    <3> QED BY <3>1, <3>2, <3>3 DEF AllAttend
  <2> QED BY <2>1, <2>2
<1> QED BY <1>1, <1>2, <1>3 DEF Shown

\* Steps about one sub-agent d that change the trace at most where d stands.
LEMMA Touched ==
  ASSUME ScreenInv, Moves, Calm, NEW d \in Delegations,
         UNCHANGED <<attached, attended, here, sending, runId, line, turnVars>>,
         trace' = trace \/ Touches(trace, trace', d),
         subRuns \subseteq subRuns', subRuns' \subseteq subRuns \cup {d},
         d \in trace'.agents \cup subRuns' => Begun(d)',
         \A e \in Delegations \ {d} : phase'[e] = "streaming" => phase[e] = "streaming",
         \A e \in Gated \ {d} : /\ ask'[e] = ask[e]
                                /\ e \in Elems(trace.pending) <=> e \in Elems(trace'.pending),
         d \in Gated /\ ask'[d] # "none" => Begun(d)',
         Elems(trace'.pending) \subseteq Gated, Once(trace'.pending),
         d \in Elems(trace'.pending) => ask'[d] \in {"open", "over"},
         d \in Of(attended) => Attends(d)'
  PROVE  Shown'
<1>0. /\ SlotInv /\ Sent /\ TreeFits(trace) /\ Follows /\ AllAttend
      /\ Gated \subseteq Delegations
  BY TuiAssumption DEF ScreenInv
<1>1. TreeFits(trace')
  BY <1>0 DEF Touches
<1>2. /\ trace.agents \subseteq trace'.agents /\ trace'.agents \subseteq trace.agents \cup {d, Orchestrator}
      /\ \A e \in Delegations \ {d} : Placed(trace, e) => Placed(trace', e)
  BY DEF Touches
<1>3. attended # NoTurn => trace'.root = trace.root
  BY <1>0, TuiAssumption DEF Touches, Sent
<1>4. Sent'
  <2>1. StaysTracked
    BY DEF StaysTracked, Accepted, turnVars
  <2> QED BY <1>2, <1>3, <2>1, SentOn
<1>5. Follows'
  <2>1. \A e \in Delegations : Begun(e) => Begun(e)'
    BY <1>0, MovesForward
  <2>2. \A e \in Delegations : e \in trace'.agents \cup subRuns' => Begun(e)'
    BY <1>0, <1>2, <2>1, TuiAssumption DEF Follows
  <2>3. \A e \in Gated : ask'[e] # "none" => Begun(e)'
    BY <1>0, <2>1 DEF Follows
  <2>4. \A e \in Elems(trace'.pending) : ask'[e] \in {"open", "over"}
    BY <1>0 DEF Follows
  <2> QED BY <2>2, <2>3, <2>4 DEF Follows
<1>6. ASSUME NEW e \in Of(attended), e # d PROVE Attends(e)'
  <2>1. Attends(e) /\ e \in Delegations /\ e \in Delegations \ {d}
    BY <1>0, <1>6 DEF AllAttend, Of
  <2>2. Placed(trace', e)
    BY <1>2, <2>1 DEF Attends
  <2>3. e \in subRuns' => e \in trace'.agents
    BY <1>2, <2>1 DEF Attends
  <2>4. phase'[e] = "streaming" => Aborted(e)' \/ e \in subRuns'
    BY <2>1 DEF Attends, Aborted, turnVars
  <2>5. e \in Gated /\ ask'[e] = "open" => e \in Elems(trace'.pending)
    BY <2>1, <1>6 DEF Attends
  <2> QED BY <2>2, <2>3, <2>4, <2>5 DEF Attends
<1>7. Of(attended)' = Of(attended)
  BY DEF Of
<1>8. AllAttend'
  BY <1>6, <1>7 DEF AllAttend
<1> QED BY <1>1, <1>4, <1>5, <1>8 DEF Shown

\* What ScreenInv says of the questions and the pending list.
LEMMA Pending ==
  ASSUME ScreenInv
  PROVE  /\ trace.pending \in Seq(Delegations) /\ Elems(trace.pending) \subseteq Gated
         /\ Once(trace.pending) /\ trace \in T!Traces /\ TreeFits(trace)
         /\ \A d \in Elems(trace.pending) : ask[d] \in {"open", "over"}
         /\ trace.pending # <<>> => Head(trace.pending) \in Elems(trace.pending)
<1>1. trace.pending \in Seq(Delegations) /\ trace \in T!Traces
  BY TraceTypes DEF ScreenInv, TreeFits
<1>2. trace.pending # <<>> => Head(trace.pending) \in Elems(trace.pending)
  BY <1>1, TailLeavesHead DEF ScreenInv, Follows
<1> QED BY <1>1, <1>2 DEF ScreenInv, Follows

\* A delegate call that is read.
LEMMA CallSeenKeeps ==
  ASSUME ScreenInv, Moves, NEW d \in Delegations, CallSeen(d), attached' = attached
  PROVE  Shown'
<1>0. Calm /\ UNCHANGED <<vars, line, ask, runVars, viewVars, ghostVars>>
  BY DEF CallSeen
<1>1. UNCHANGED <<attached, attended, here, sending, runId, line, turnVars, phase, ask, subRuns>>
  BY <1>0 DEF vars, runVars, viewVars, ghostVars
<1>2. TreeFits(trace) /\ Follows /\ AllAttend
  BY DEF ScreenInv
<1>3. trace' = trace \/ trace' = T!DelegateCall(trace, d)
  BY DEF CallSeen
<1>4. /\ trace' = trace \/ Touches(trace, trace', d)
      /\ trace'.pending = trace.pending /\ trace'.agents \subseteq trace.agents \cup {Orchestrator}
      /\ trace.agents \subseteq trace'.agents
      /\ Placed(trace, d) => Placed(trace', d)
  BY <1>2, <1>3, CallTouches
<1>5. d \in trace'.agents \cup subRuns' => Begun(d)'
  BY <1>1, <1>2, <1>4, TuiAssumption DEF Follows, Begun
<1>6. d \in Of(attended) => Attends(d)'
  <2> SUFFICES ASSUME d \in Of(attended) PROVE Attends(d)'
    OBVIOUS
  <2>1. Attends(d)
    BY <1>2 DEF AllAttend
  <2>2. Placed(trace', d)
    BY <1>4, <2>1 DEF Attends
  <2>3. Placed(trace, d)'
    BY <2>2 DEF Placed
  <2> QED BY <1>1, <1>4, <2>1, <2>3 DEF Attends, Aborted, turnVars
<1>7. \A e \in Gated : ask[e] # "none" => Begun(e)'
  BY <1>1, <1>2 DEF Follows, Begun
<1> QED BY <1>0, <1>1, <1>4, <1>5, <1>6, <1>7, Pending, Touched

\* A text of a sub-agent.
LEMMA SpeaksKeeps ==
  ASSUME ScreenInv, Moves, NEW d \in Delegations, Speaks(d), attached' = attached
  PROVE  Shown'
<1>0. Calm /\ UNCHANGED <<vars, hostVars, runVars, viewVars, ghostVars>> /\ phase[d] = "streaming"
  BY DEF Speaks
<1>1. UNCHANGED <<attached, attended, here, sending, runId, line, turnVars, phase, ask, subRuns>>
  BY <1>0 DEF vars, hostVars, runVars, viewVars, ghostVars
<1>2. TreeFits(trace) /\ Follows /\ AllAttend
  BY DEF ScreenInv
<1>3. trace' = trace \/ (trace' = T!SubText(trace, d) /\ d \in subRuns)
  BY DEF Speaks, Heard
<1>4. /\ trace' = trace \/ Touches(trace, trace', d)
      /\ trace'.pending = trace.pending
      /\ d \in trace.agents \/ d \notin subRuns => trace' = trace
  BY <1>2, <1>3, SubTextTouches
<1>5. Begun(d)'
  BY <1>0, <1>1 DEF Begun
<1>6. d \in Of(attended) => Attends(d)'
  <2> SUFFICES ASSUME d \in Of(attended) PROVE Attends(d)'
    OBVIOUS
  <2>1. Attends(d)
    BY <1>2 DEF AllAttend
  <2>2. trace' = trace
    BY <1>4, <2>1 DEF Attends
  <2> QED BY <1>1, <2>1, <2>2 DEF Attends, Aborted, Placed, turnVars
<1> QED BY <1>0, <1>1, <1>4, <1>5, <1>6, Pending, Touched

\* A gated call that suspends.
LEMMA AsksKeeps ==
  ASSUME ScreenInv, Moves, NEW d \in Delegations, Asks(d), attached' = attached
  PROVE  Shown'
<1>0. /\ Calm /\ UNCHANGED <<vars, line, seen, runVars, viewVars, ghostVars>>
      /\ phase[d] = "streaming" /\ d \in Gated /\ ask[d] = "none" /\ ~Aborted(d)
      /\ ask' = [ask EXCEPT ![d] = "open"]
  BY DEF Asks
<1>1. UNCHANGED <<attached, attended, here, sending, runId, line, turnVars, phase, subRuns>>
  BY <1>0 DEF vars, runVars, viewVars, ghostVars
<1>2. /\ TreeFits(trace) /\ Follows /\ AllAttend
      /\ ask \in [Gated -> {"none", "open", "answered", "over"}]
  BY DEF ScreenInv, TuiTypeOK
<1>3. trace' = IF d \in subRuns THEN T!ApprovalRequired(trace, d) ELSE trace
  BY DEF Asks, Heard
<1>4. ask'[d] = "open" /\ \A e \in Gated \ {d} : ask'[e] = ask[e]
  BY <1>0, <1>2
<1>5. Begun(d)'
  BY <1>0, <1>1 DEF Begun
<1>p. d \notin Elems(trace.pending)
  BY <1>0, Pending
<1>6. CASE d \in subRuns
  <2>1. /\ Touches(trace, trace', d) /\ trace'.pending = Append(trace.pending, d)
        /\ trace'.agents = trace.agents \cup {d}
        /\ d \in trace.agents /\ Placed(trace, d) => Placed(trace', d)
    BY <1>2, <1>3, <1>6, ApprovalTouches
  <2>2. Elems(trace'.pending) = Elems(trace.pending) \cup {d} /\ Once(trace'.pending)
    BY <1>p, <2>1, Pending, AppendAddsOne
  <2>3. d \in Of(attended) => Attends(d)'
    <3> SUFFICES ASSUME d \in Of(attended) PROVE Attends(d)'
      OBVIOUS
    <3>1. Attends(d)
      BY <1>2 DEF AllAttend
    <3>2. Placed(trace', d)
      BY <1>6, <2>1, <3>1 DEF Attends
    <3>3. Placed(trace, d)'
      BY <3>2 DEF Placed
    <3> QED BY <1>1, <1>6, <2>1, <2>2, <3>3 DEF Attends
  <2> QED BY <1>0, <1>1, <1>4, <1>5, <2>1, <2>2, <2>3, Pending, Touched
<1>7. CASE d \notin subRuns
  <2>1. d \notin Of(attended)
    BY <1>0, <1>2, <1>7 DEF AllAttend, Attends
  <2>2. trace' = trace
    BY <1>3, <1>7
  <2> QED BY <1>0, <1>1, <1>4, <1>5, <1>p, <2>1, <2>2, Pending, Touched
<1> QED BY <1>6, <1>7

\* The result of the gated call.
LEMMA ResultSeenKeeps ==
  ASSUME ScreenInv, Moves, NEW d \in Delegations, ResultSeen(d), attached' = attached
  PROVE  Shown'
<1>0. /\ Calm /\ UNCHANGED <<vars, line, seen, runVars, viewVars, ghostVars>>
      /\ phase[d] = "streaming" /\ d \in Gated /\ ask[d] = "answered"
      /\ ask' = [ask EXCEPT ![d] = "over"]
  BY DEF ResultSeen
<1>1. UNCHANGED <<attached, attended, here, sending, runId, line, turnVars, phase, subRuns>>
  BY <1>0 DEF vars, runVars, viewVars, ghostVars
<1>2. /\ TreeFits(trace) /\ Follows /\ AllAttend
      /\ ask \in [Gated -> {"none", "open", "answered", "over"}]
  BY DEF ScreenInv, TuiTypeOK
<1>3. trace' = trace \/ trace' = T!Settle(trace, d)
  BY DEF ResultSeen, Heard
<1>4. ask'[d] = "over" /\ \A e \in Gated \ {d} : ask'[e] = ask[e]
  BY <1>0, <1>2
<1>5. Begun(d)'
  BY <1>0, <1>1 DEF Begun
<1>p. d \notin Elems(trace.pending)
  BY <1>0, Pending
<1>6. /\ trace' = trace \/ Touches(trace, trace', d)
      /\ trace'.agents = trace.agents
      /\ Placed(trace, d) => Placed(trace', d)
      /\ Elems(trace'.pending) = Elems(trace.pending) /\ Once(trace'.pending)
  <2>1. CASE trace' = trace
    BY <2>1, Pending
  <2>2. CASE trace' = T!Settle(trace, d)
    <3>1. /\ Touches(trace, trace', d) /\ trace'.pending = T!Without(trace.pending, d)
          /\ trace'.agents = trace.agents
          /\ Placed(trace, d) => Placed(trace', d)
      BY <1>2, <2>2, SettleTouches
    <3>2. /\ Elems(trace'.pending) = Elems(trace.pending) \ {d} /\ Once(trace'.pending)
      BY <3>1, Pending, WithoutOne
    <3> QED BY <1>p, <3>1, <3>2
  <2> QED BY <1>3, <2>1, <2>2
<1>7. d \in Of(attended) => Attends(d)'
  <2> SUFFICES ASSUME d \in Of(attended) PROVE Attends(d)'
    OBVIOUS
  <2>1. Attends(d)
    BY <1>2 DEF AllAttend
  <2>2. Placed(trace', d)
    BY <1>6, <2>1 DEF Attends
  <2>3. Placed(trace, d)'
    BY <2>2 DEF Placed
  <2> QED BY <1>1, <1>4, <1>6, <2>1, <2>3 DEF Attends, Aborted, turnVars
<1> QED BY <1>0, <1>1, <1>4, <1>5, <1>6, <1>7, <1>p, Pending, Touched

\* A decision of the user.
LEMMA DecideKeeps ==
  ASSUME ScreenInv, Moves, Decide, attached' = attached
  PROVE  Shown'
<1>d. PICK d \in Delegations : d = Head(trace.pending)
  BY Pending, TuiAssumption DEF Decide
<1>0. /\ Calm /\ UNCHANGED <<vars, line, seen, runVars, viewVars, ghostVars>>
      /\ trace.pending # <<>> /\ trace' = T!Settle(trace, d)
      /\ ask' = IF ask[d] = "open" THEN [ask EXCEPT ![d] = "answered"] ELSE ask
  BY <1>d DEF Decide
<1>1. UNCHANGED <<attached, attended, here, sending, runId, line, turnVars, phase, subRuns>>
  BY <1>0 DEF vars, runVars, viewVars, ghostVars
<1>2. /\ TreeFits(trace) /\ Follows /\ AllAttend
      /\ ask \in [Gated -> {"none", "open", "answered", "over"}]
  BY DEF ScreenInv, TuiTypeOK
<1>3. d \in Elems(trace.pending) /\ d \in Gated /\ ask[d] \in {"open", "over"}
  BY <1>0, <1>d, Pending
<1>4. ask'[d] \in {"answered", "over"} /\ \A e \in Gated \ {d} : ask'[e] = ask[e]
  BY <1>0, <1>2, <1>3
<1>5. Begun(d)'
  BY <1>1, <1>2, <1>3 DEF Follows, Begun
<1>6. /\ Touches(trace, trace', d)
      /\ trace'.agents = trace.agents
      /\ Placed(trace, d) => Placed(trace', d)
      /\ Elems(trace'.pending) = Elems(trace.pending) \ {d} /\ Once(trace'.pending)
  <2>1. /\ Touches(trace, trace', d) /\ trace'.pending = T!Without(trace.pending, d)
        /\ trace'.agents = trace.agents
        /\ Placed(trace, d) => Placed(trace', d)
    BY <1>0, <1>2, <1>3, SettleTouches
  <2> QED BY <2>1, Pending, WithoutOne
<1>7. d \in Of(attended) => Attends(d)'
  <2> SUFFICES ASSUME d \in Of(attended) PROVE Attends(d)'
    OBVIOUS
  <2>1. Attends(d)
    BY <1>2 DEF AllAttend
  <2>2. Placed(trace', d)
    BY <1>6, <2>1 DEF Attends
  <2>3. Placed(trace, d)'
    BY <2>2 DEF Placed
  <2> QED BY <1>1, <1>4, <1>6, <2>1, <2>3 DEF Attends, Aborted, turnVars
<1> QED BY <1>0, <1>1, <1>3, <1>4, <1>5, <1>6, <1>7, Pending, Touched

\* The start of a sub-agent, on screen if the run of its turn is tracked.
LEMMA StartedKeeps ==
  ASSUME ScreenInv, Moves, NEW d \in Delegations, Started(d), attached' = attached
  PROVE  Shown'
<1>0. /\ Calm /\ UNCHANGED <<hostVars, runId, clock, pendingAbort, sending, viewVars, ghostVars>>
      /\ Start(d) \/ StartFails(d)
      /\ IF runId = TurnOf[d]
         THEN subRuns' = subRuns \cup {d} /\ trace' = T!SubStart(trace, d)
         ELSE UNCHANGED <<subRuns, trace>>
  BY DEF Started
<1>1. UNCHANGED <<attached, attended, here, sending, runId, line, turnVars, ask>>
  BY <1>0 DEF Start, StartFails, hostVars, viewVars, ghostVars
<1>2. /\ SlotInv /\ TreeFits(trace) /\ Follows /\ Sent /\ AllAttend /\ TurnsLead
      /\ phase \in [Delegations -> Phases] /\ attended \in Turns \cup {NoTurn}
      /\ turn \in [Turns -> {"waiting", "driving", "over"}]
  BY DEF ScreenInv, TuiTypeOK, SlotInv, DelegationTypeOK
<1>3. /\ phase[d] = "granted"
      /\ \A e \in Delegations \ {d} : phase'[e] = "streaming" => phase[e] = "streaming"
  <2>1. CASE Start(d)
    BY <1>2, <2>1 DEF Start
  <2>2. CASE StartFails(d)
    <3>1. \A e \in Delegations : phase'[e] = "streaming" => phase[e] = "streaming"
      BY <1>2, <2>2, StreamsOpen
    <3> QED BY <2>2, <3>1 DEF StartFails
  <2> QED BY <1>0, <2>1, <2>2
<1>4. Begun(d)'
  <2>1. CASE Start(d)
    BY <1>2, <2>1 DEF Start, Begun
  <2>2. CASE StartFails(d)
    <3>1. d \in Holders /\ Release(d)
      BY <1>3, <2>2 DEF StartFails, Holders, Holding
    <3>2. phase'[d] = "over"
      BY <1>2, <3>1, ReleaseMoves
    <3> QED BY <3>2 DEF Begun
  <2> QED BY <1>0, <2>1, <2>2
<1>5. d \notin trace.agents /\ d \notin subRuns /\ (d \in Gated => ask[d] = "none")
  BY <1>2, <1>3 DEF Follows, Begun
<1>p. d \notin Elems(trace.pending)
  BY <1>5, Pending
<1>6. CASE runId = TurnOf[d]
  <2>1. subRuns' = subRuns \cup {d} /\ trace' = T!SubStart(trace, d)
    BY <1>0, <1>6
  <2>2. /\ Touches(trace, trace', d) /\ trace'.pending = trace.pending /\ d \in trace'.agents
        /\ Orchestrator \in trace.agents => Placed(trace', d)
    BY <1>2, <1>5, <2>1, StartTouches
  <2>3. d \in Of(attended) => Attends(d)'
    <3> SUFFICES ASSUME d \in Of(attended) PROVE Attends(d)'
      OBVIOUS
    <3>1. Orchestrator \in trace.agents
      BY <1>2, DelegationAssumption DEF Sent, Of
    <3>2. Placed(trace', d)
      BY <2>2, <3>1
    <3>3. Placed(trace, d)'
      BY <3>2 DEF Placed
    <3> QED BY <1>1, <1>5, <2>1, <2>2, <3>3 DEF Attends
  <2> QED BY <1>0, <1>1, <1>3, <1>4, <1>5, <1>p, <2>1, <2>2, <2>3, Pending, Touched
<1>7. CASE runId # TurnOf[d]
  <2>1. subRuns' = subRuns /\ trace' = trace
    BY <1>0, <1>7
  <2>2. d \in Of(attended) => Attends(d)'
    <3> SUFFICES ASSUME d \in Of(attended) PROVE Attends(d)'
      OBVIOUS
    <3>1. attended = TurnOf[d] /\ attended \in Turns /\ attended # NoTurn
      BY DelegationAssumption DEF Of
    <3>2. attended \notin sending
      BY <1>2, <1>3, <3>1 DEF Sent, Of
    <3>3. turn[attended] # "waiting" /\ Accepted(attended)
      BY <1>2, <1>3, <3>1 DEF TurnsLead, Accepted
    <3>4. turn[attended] = "over"
      BY <1>2, <1>7, <3>1, <3>2, <3>3 DEF Sent
    <3>5. Aborted(d)
      BY <1>2, <1>3, <3>1, <3>4 DEF TurnsLead
    <3>6. Aborted(d)'
      BY <1>1, <3>5 DEF Aborted, turnVars
    <3>7. Placed(trace, d)'
      BY <1>5, <2>1 DEF Placed
    <3> QED BY <1>1, <1>5, <2>1, <3>6, <3>7 DEF Attends
  <2> QED BY <1>0, <1>1, <1>3, <1>4, <1>5, <1>p, <2>1, <2>2, Pending, Touched
<1> QED BY <1>6, <1>7

\* A message of the user: from a quiet screen its turn is the attended one.
LEMMA SendKeeps ==
  ASSUME ScreenInv, Moves, NEW t \in Turns, Send(t), attached, attached' = attached
  PROVE  Shown'
<1>0. /\ Calm /\ here /\ UNCHANGED <<vars, hostVars, viewVars, runId, subRuns, detours>>
      /\ ~Accepted(t) /\ sending' = sending \cup {t} /\ trace' = T!UserText(trace)
      /\ attended' = IF Quiet THEN t ELSE NoTurn
  BY DEF Send, Focused
<1>1. UNCHANGED <<here, ask, turn, aborted, phase>>
  BY <1>0 DEF vars, turnVars, hostVars, viewVars
<1>2. /\ TreeFits(trace) /\ Follows /\ Sent /\ TurnsLead /\ SlotInv
      /\ ask \in [Gated -> {"none", "open", "answered", "over"}] /\ Gated \subseteq Delegations
      /\ t # NoTurn
  BY TuiAssumption, DelegationAssumption DEF ScreenInv, TuiTypeOK
<1>3. /\ TreeFits(trace') /\ trace'.agents = trace.agents \cup {Orchestrator}
      /\ trace'.root = (IF trace.root = NoAgent THEN Orchestrator ELSE trace.root)
      /\ trace'.pending = trace.pending
  BY <1>0, <1>2, EnsureRoot DEF T!UserText
<1>4. \A d \in Of(t) : phase[d] = "idle" /\ d \in Delegations /\ ~Begun(d)
  BY <1>0, <1>2 DEF Accepted, TurnsLead, Of, Begun
<1>5. \A u \in sending' : \A d \in Of(u) : phase'[d] = "idle"
  BY <1>0, <1>1, <1>2, <1>4 DEF Sent
<1>6. Follows'
  BY <1>0, <1>1, <1>2, <1>3, TuiAssumption DEF Follows, Begun
<1>7. CASE Quiet
  <2>1. attended' = t /\ sending' = {t} /\ trace'.root = Orchestrator
    BY <1>0, <1>3, <1>7, TuiAssumption DEF Quiet
  <2>2. Sent'
    BY <1>0, <1>1, <1>2, <1>3, <1>5, <2>1 DEF Sent
  <2>3. ASSUME NEW d \in Of(t) PROVE Attends(d)'
    <3>1. d \notin trace.agents /\ d \notin subRuns /\ (d \in Gated => ask[d] = "none") /\ d # Orchestrator
      BY <1>2, <1>4, <2>3, TuiAssumption DEF Follows
    <3>2. d \notin trace'.agents /\ d \notin subRuns' /\ phase'[d] # "streaming"
      BY <1>0, <1>1, <1>3, <1>4, <3>1
    <3>3. Placed(trace, d)'
      BY <3>2 DEF Placed
    <3> QED BY <1>1, <3>1, <3>2, <3>3 DEF Attends
  <2>4. Of(attended)' = Of(t)
    BY <2>1 DEF Of
  <2> QED BY <1>3, <1>6, <2>2, <2>3, <2>4 DEF Shown, AllAttend
<1>8. CASE ~Quiet
  <2>1. attended' = NoTurn
    BY <1>0, <1>8
  <2>2. Sent'
    BY <1>5, <2>1 DEF Sent
  <2>3. Of(attended)' = {}
    BY <2>1, DelegationAssumption DEF Of
  <2> QED BY <1>3, <1>6, <2>2, <2>3 DEF Shown, AllAttend
<1> QED BY <1>7, <1>8

\* The trace replaced by an empty or a loaded one, on a screen nobody attends.
LEMMA Replaced ==
  ASSUME ScreenInv, Moves, Calm, UNCHANGED <<attached, sending, subRuns, ask>>,
         attended' = NoTurn, trace' \in {T!Empty, T!Loaded}
  PROVE  Shown'
<1>0. SlotInv /\ Follows /\ Sent /\ sending \subseteq Turns /\ Gated \subseteq Delegations
  BY TuiAssumption DEF ScreenInv, TuiTypeOK
<1>1. TreeFits(trace') /\ trace'.pending = <<>> /\ trace'.agents \subseteq {Orchestrator}
  BY FreshTrees
<1>2. Elems(trace'.pending) = {} /\ Once(trace'.pending)
  BY <1>1 DEF Elems, Once
<1>3. \A d \in Delegations : Begun(d) => Begun(d)'
  BY <1>0, MovesForward
<1>4. Follows'
  BY <1>0, <1>1, <1>2, <1>3, TuiAssumption DEF Follows
<1>5. Sent' /\ AllAttend'
  BY <1>0, Unattended
<1> QED BY <1>1, <1>4, <1>5 DEF Shown

\* As AcceptedIf, after the step.
LEMMA AcceptedThen ==
  Accepted(attended)' <=> turn'[attended'] # "waiting" \/ attended' \in Elems(line')
BY DEF Accepted, Elems

\* The queue and the run tracked leave the attended turn tracked.
LEMMA TrackedOn ==
  ASSUME attended' = attended, sending' = sending, runId' = runId,
         attended \in Elems(line') => attended \in Elems(line) \/ attended \in sending,
         turn'[attended] # "waiting" =>
           turn[attended] # "waiting" \/ attended \in Elems(line) \/ attended \in sending
  PROVE  StaysTracked
BY AcceptedIf, AcceptedThen DEF StaysTracked

\* What the user does with a run: the send that fails or resolves, and Ctrl-C.
LEMMA UserKeeps ==
  ASSUME ScreenInv, Moves, attached' = attached,
         (\E t \in Turns : SendFails(t) \/ Resolve(t) \/ ErrorPart(t)) \/ CtrlC \/ SwitchTo
  PROVE  Shown'
<1>0. /\ TuiTypeOK /\ Sent /\ attended \in Turns \cup {NoTurn}
  BY DEF ScreenInv, TuiTypeOK
<1>1. ASSUME NEW t \in Turns, SendFails(t) PROVE Shown'
  BY <1>1, Steady DEF SendFails, vars, hostVars
<1>2. ASSUME NEW t \in Turns, ErrorPart(t) PROVE Shown'
  BY <1>2, Steady DEF ErrorPart, vars, hostVars
<1>3. CASE SwitchTo
  BY <1>3, Steady DEF SwitchTo, vars, hostVars
<1>4. ASSUME NEW u \in Turns, AbortRun(u)
      PROVE  /\ phase' = phase /\ turn' = turn
             /\ \A d \in Gated : ask'[d] = ask[d] \/ (ask[d] = "open" /\ ask'[d] = "over")
  BY <1>0, <1>4, SettledAsks DEF AbortRun, AbortTurn
<1>5. CASE CtrlC
  <2>1. Calm /\ UNCHANGED <<line, subRuns, sending, runId, trace, here, attended>>
    BY <1>5 DEF CtrlC, viewVars, ghostVars
  <2>2. runId # NoTurn => runId \in Turns
    BY <1>0 DEF TuiTypeOK
  <2>3. /\ phase' = phase /\ turn' = turn
        /\ \A d \in Gated : ask'[d] = ask[d] \/ (ask[d] = "open" /\ ask'[d] = "over")
    <3>1. CASE runId # NoTurn /\ AbortRun(runId)
      BY <1>4, <2>2, <3>1
    <3>2. CASE UNCHANGED <<vars, ask>>
      BY <3>2 DEF vars, turnVars
    <3> QED BY <1>5, <3>1, <3>2 DEF CtrlC
  <2>4. StaysTracked
    BY <2>1, <2>3, TrackedOn
  <2> QED BY <2>1, <2>3, <2>4, Steady
<1>6. ASSUME NEW t \in Turns, Resolve(t) PROVE Shown'
  <2>1. /\ UNCHANGED <<line, trace, here, attended>> /\ t \in sending /\ sending' = sending \ {t}
        /\ subRuns' = {} /\ runId' = t
    BY <1>6 DEF Resolve, viewVars, ghostVars
  <2>2. /\ phase' = phase /\ turn' = turn
        /\ \A d \in Gated : ask'[d] = ask[d] \/ (ask[d] = "open" /\ ask'[d] = "over")
    BY <1>4, <1>6 DEF Resolve, vars, turnVars
  <2>3. CASE attended = NoTurn
    BY <2>1, <2>2, <2>3, Steady
  <2>4. CASE attended # NoTurn
    <3>1. t = attended
      BY <1>0, <2>1, <2>4 DEF Sent
    <3>2. StaysTracked
      BY <2>1, <2>2, <3>1, AcceptedIf, AcceptedThen DEF StaysTracked
    <3>3. \A d \in Of(attended) : phase'[d] # "streaming"
      BY <1>0, <2>1, <2>2, <3>1 DEF Sent
    <3> QED BY <2>1, <2>2, <3>2, <3>3, Steady
  <2> QED BY <2>3, <2>4
<1> QED BY <1>1, <1>2, <1>3, <1>5, <1>6

\* The turn queue: a turn or a compaction joins it, begins, is skipped or ends.
LEMMA QueueKeeps ==
  ASSUME ScreenInv, Moves, attached' = attached,
         \/ \E t \in Turns : Accept(t) \/ Begin(t) \/ Skip(t) \/ Finish(t)
         \/ CompactNow \/ CompactEnds
  PROVE  Shown'
<1>0. /\ TuiTypeOK /\ attended \in Turns \cup {NoTurn} /\ Compact \notin Turns
      /\ turn \in [Turns -> {"waiting", "driving", "over"}]
  BY TuiAssumption DEF ScreenInv, TuiTypeOK, SlotInv, DelegationTypeOK
<1>1. /\ Calm /\ UNCHANGED <<ask, subRuns, sending, trace, here, attended, phase>>
  <2>1. CASE \E t \in Turns : Accept(t)
    BY <2>1 DEF Accept, BeginTurn, vars, runVars, viewVars, ghostVars
  <2>2. CASE \E t \in Turns : Begin(t)
    BY <2>2 DEF Begin, Ready, BeginTurn, tuiVars, hostVars, runVars, viewVars, ghostVars
  <2>3. CASE \E t \in Turns : Skip(t)
    BY <2>3 DEF Skip, Ready, runVars, viewVars, ghostVars
  <2>4. CASE \E t \in Turns : Finish(t)
    BY <2>4 DEF Finish, Ready, EndTurn, viewVars, ghostVars
  <2>5. CASE CompactNow
    BY <2>5 DEF CompactNow, Focused, vars, runVars, viewVars
  <2>6. CASE CompactEnds
    BY <2>6 DEF CompactEnds, Ready, vars, runVars, viewVars, ghostVars
  <2> QED BY <2>1, <2>2, <2>3, <2>4, <2>5, <2>6
<1>2. CASE attended = NoTurn
  BY <1>1, <1>2, Steady
<1>3. CASE attended # NoTurn
  <2>a. attended \in Turns /\ attended # Compact
    BY <1>0, <1>3
  <2>1. StaysTracked
    <3>1. ASSUME NEW t \in Turns, Accept(t) PROVE StaysTracked
      <4>1. t \in sending /\ runId' = runId /\ line' = Append(line, t)
            /\ \A u \in Turns \ {t} : turn'[u] = turn[u]
        BY <1>0, <3>1 DEF Accept, BeginTurn, vars, turnVars, runVars
      <4>2. Elems(line') = Elems(line) \cup {t}
        BY <1>0, <4>1, LineSteps
      <4> QED BY <1>1, <2>a, <4>1, <4>2, TrackedOn
    <3>2. ASSUME NEW t \in Turns, Begin(t) PROVE StaysTracked
      <4>1. line' = line /\ runId' = runId /\ line # <<>> /\ Head(line) = t
            /\ \A u \in Turns \ {t} : turn'[u] = turn[u]
        BY <1>0, <3>2 DEF Begin, Ready, BeginTurn, tuiVars, hostVars, runVars
      <4>2. t \in Elems(line)
        BY <1>0, <4>1, LineSteps
      <4> QED BY <1>1, <2>a, <4>1, <4>2, TrackedOn
    <3>3. ASSUME NEW t \in Turns, Skip(t) PROVE StaysTracked
      <4>1. line' = Tail(line) /\ runId' = runId /\ line # <<>> /\ Head(line) = t
            /\ \A u \in Turns \ {t} : turn'[u] = turn[u]
        BY <1>0, <3>3 DEF Skip, Ready, runVars
      <4>2. t \in Elems(line) /\ Elems(line') \subseteq Elems(line)
        BY <1>0, <4>1, LineSteps
      <4> QED BY <1>1, <2>a, <4>1, <4>2, TrackedOn
    <3>4. ASSUME NEW t \in Turns, Finish(t) PROVE StaysTracked
      <4>1. /\ line' = Tail(line) /\ line # <<>> /\ turn[t] = "driving" /\ turn'[t] = "over"
            /\ runId' = (IF runId = t THEN NoTurn ELSE runId)
            /\ \A u \in Turns \ {t} : turn'[u] = turn[u]
        BY <1>0, <3>4 DEF Finish, Ready, EndTurn
      <4>2. Elems(line') \subseteq Elems(line)
        BY <1>0, <4>1, LineSteps
      <4>3. CASE attended = t
        BY <1>1, <4>1, <4>3, AcceptedIf DEF StaysTracked
      <4>4. CASE attended # t
        BY <1>1, <2>a, <4>1, <4>2, <4>4, AcceptedIf, AcceptedThen DEF StaysTracked
      <4> QED BY <4>3, <4>4
    <3>5. CASE CompactNow
      <4>1. runId' = runId /\ line' = Append(line, Compact) /\ turn' = turn
        BY <3>5 DEF CompactNow, vars, turnVars, runVars
      <4>2. Elems(line') = Elems(line) \cup {Compact}
        BY <1>0, <4>1, LineSteps
      <4> QED BY <1>1, <2>a, <4>1, <4>2, TrackedOn
    <3>6. CASE CompactEnds
      <4>1. line' = Tail(line) /\ runId' = runId /\ line # <<>> /\ turn' = turn
        BY <3>6 DEF CompactEnds, Ready, vars, turnVars, runVars
      <4>2. Elems(line') \subseteq Elems(line)
        BY <1>0, <4>1, LineSteps
      <4> QED BY <1>1, <2>a, <4>1, <4>2, TrackedOn
    <3> QED BY <3>1, <3>2, <3>3, <3>4, <3>5, <3>6
  <2> QED BY <1>1, <2>1, Steady
<1> QED BY <1>2, <1>3

\* A delegation is made, times out or ends.
LEMMA WorkKeeps ==
  ASSUME ScreenInv, Moves, attached' = attached, NEW d \in Delegations,
         Call(d) \/ TimerFires(d) \/ Ends(d)
  PROVE  Shown'
<1>0. /\ TuiTypeOK /\ SlotInv
  BY DEF ScreenInv
<1>1. /\ Calm /\ UNCHANGED <<line, runId, subRuns, sending, trace, here, attended>>
      /\ Delegate(d) \/ Stops(d) \/ Completes(d) \/ Timeout(d)
      /\ ask' = ask \/ ask' = (IF d \in Gated /\ ask[d] = "open" THEN [ask EXCEPT ![d] = "over"] ELSE ask)
  BY DEF Call, TimerFires, Ends, tuiVars, hostVars, runVars, viewVars, ghostVars
<1>2. \A e \in Gated : ask'[e] = ask[e] \/ (ask[e] = "open" /\ ask'[e] = "over")
  BY <1>0, <1>1 DEF TuiTypeOK
<1>3. (\A e \in Delegations : phase'[e] = "streaming" => phase[e] = "streaming") /\ turn' = turn
  BY <1>0, <1>1, StreamsOpen DEF turnVars
<1>4. StaysTracked
  BY <1>1, <1>3, TrackedOn
<1>5. \A e \in Of(attended) : e \in Delegations
  BY DEF Of
<1> QED BY <1>1, <1>2, <1>3, <1>4, <1>5, Steady

\* Every step keeps what is shown.
LEMMA ShownStep ==
  ASSUME ScreenInv, [TuiNext]_allVars
  PROVE  Shown'
<1>0. Moves /\ Sent /\ SlotInv /\ TuiTypeOK
  BY ScreenMoves DEF ScreenInv
<1>1. CASE UNCHANGED tuiVars /\ attached' = attached /\ (~attached \/ UNCHANGED vars)
  <2>1. UNCHANGED <<line, runId, subRuns, sending, trace, here, attended, ask>>
    BY <1>1 DEF tuiVars, hostVars, runVars, viewVars, ghostVars
  <2>2. CASE ~attached
    <3>1. attended' = NoTurn /\ Calm
      BY <1>0, <2>1, <2>2 DEF Sent, Calm
    <3> QED BY <1>0, <1>1, <2>1, <3>1, Steady
  <2>3. CASE UNCHANGED vars
    <3>1. phase' = phase /\ turn' = turn
      BY <2>3 DEF vars, turnVars
    <3>2. StaysTracked
      BY <2>1, <3>1, TrackedOn
    <3> QED BY <1>0, <1>1, <2>1, <3>1, <3>2, Steady
  <2> QED BY <1>1, <2>2, <2>3
<1>2. ASSUME attached, attached' = attached, NEW t \in Turns,
             \/ Send(t) \/ SendFails(t) \/ Accept(t) \/ Resolve(t)
             \/ Begin(t) \/ Skip(t) \/ ErrorPart(t) \/ Finish(t)
      PROVE  Shown'
  <2>1. CASE Send(t)
    BY <1>0, <1>2, <2>1, SendKeeps
  <2>2. CASE SendFails(t) \/ Resolve(t) \/ ErrorPart(t)
    BY <1>0, <1>2, <2>2, UserKeeps
  <2>3. CASE Accept(t) \/ Begin(t) \/ Skip(t) \/ Finish(t)
    BY <1>0, <1>2, <2>3, QueueKeeps
  <2> QED BY <1>2, <2>1, <2>2, <2>3
<1>3. ASSUME attached, attached' = attached,
             CtrlC \/ Clear \/ CompactNow \/ Decide \/ SwitchTo \/ Load \/ LoadOther \/ CompactEnds
      PROVE  Shown'
  <2>1. CASE Clear
    BY <1>0, <1>3, <2>1, Replaced DEF Clear, Focused, vars, hostVars
  <2>2. CASE Load
    <3>1. /\ Calm /\ UNCHANGED <<vars, line, ask, runId, subRuns, sending, here>>
          /\ \/ trace' \in {T!Empty, T!Loaded} /\ attended' = NoTurn
             \/ UNCHANGED <<trace, attended>>
      BY <2>2 DEF Load, hostVars, runVars
    <3>2. StaysTracked \/ attended' = NoTurn
      BY <3>1, TrackedOn DEF vars, turnVars
    <3> QED BY <1>0, <1>3, <3>1, <3>2, Replaced, Steady DEF vars
  <2>3. CASE LoadOther
    <3>1. attended = NoTurn
      BY <1>0, <2>3 DEF LoadOther, Sent
    <3> QED BY <1>0, <1>3, <2>3, <3>1, Replaced DEF LoadOther, hostVars, runVars, ghostVars
  <2>4. CASE Decide
    BY <1>0, <1>3, <2>4, DecideKeeps
  <2>5. CASE CtrlC \/ SwitchTo
    BY <1>0, <1>3, <2>5, UserKeeps
  <2>6. CASE CompactNow \/ CompactEnds
    BY <1>0, <1>3, <2>6, QueueKeeps
  <2> QED BY <1>3, <2>1, <2>2, <2>3, <2>4, <2>5, <2>6
<1>4. ASSUME attached, attached' = attached, NEW d \in Delegations,
             \/ Call(d) \/ CallSeen(d) \/ Started(d) \/ Speaks(d) \/ Asks(d)
             \/ ResultSeen(d) \/ TimerFires(d) \/ Ends(d)
      PROVE  Shown'
  <2>1. CASE Call(d) \/ TimerFires(d) \/ Ends(d)
    BY <1>0, <1>4, <2>1, WorkKeeps
  <2> QED BY <1>0, <1>4, <2>1, CallSeenKeeps, StartedKeeps, SpeaksKeeps, AsksKeeps, ResultSeenKeeps
<1>5. CASE UNCHANGED allVars
  BY <1>1, <1>5 DEF allVars
<1>6. CASE TuiNext
  <2>1. attached' = attached /\ ((attached /\ Screen) \/ (~attached /\ UNCHANGED tuiVars))
    BY <1>6, Zenon DEF TuiNext
  <2>2. CASE attached /\ Screen
    BY <1>2, <1>3, <1>4, <2>1, <2>2 DEF Screen
  <2>3. CASE ~attached /\ UNCHANGED tuiVars
    BY <1>1, <2>1, <2>3
  <2> QED BY <2>1, <2>2, <2>3
<1> QED BY <1>5, <1>6

\* The turns and delegations keep their invariants below the interface.
LEMMA HostStep ==
  ASSUME SlotInv, \A d \in Delegations : OutcomeOf(d), TurnsLead, Moves
  PROVE  /\ SlotInv' /\ (\A d \in Delegations : OutcomeOf(d)') /\ TurnsLead'
         /\ [Pool!PoolNext]_(Pool!poolVars)
<1>1. TurnsLead'
  BY TurnsLeadOn
<1>2. CASE [Next]_vars
  BY <1>1, <1>2, SlotsStep, OutcomesStep
<1>3. CASE Marks
  BY <1>1, <1>3, MarksKeep DEF Pool!poolVars
<1> QED BY <1>2, <1>3 DEF Moves

\* Every step keeps the invariant, and is one of the pool or leaves it alone.
LEMMA ScreenStep ==
  ASSUME ScreenInv, [TuiNext]_allVars
  PROVE  ScreenInv' /\ [Pool!PoolNext]_(Pool!poolVars)
<1>0. Moves /\ TuiTypeOK /\ TreeFits(trace)
  BY ScreenMoves DEF ScreenInv
<1>1. /\ SlotInv' /\ (\A d \in Delegations : OutcomeOf(d)') /\ TurnsLead'
      /\ [Pool!PoolNext]_(Pool!poolVars)
  BY <1>0, HostStep DEF ScreenInv
<1>2. Shown'
  BY ShownStep
<1>3. TuiTypeOK'
  BY <1>0, TuiTypesStep
<1> QED BY <1>1, <1>2, <1>3 DEF ScreenInv, Shown

\* The initial states satisfy it: nothing is known and nobody is attended.
LEMMA ScreenStart == TuiInit => ScreenInv /\ Pool!PoolInit
<1> SUFFICES ASSUME TuiInit PROVE ScreenInv /\ Pool!PoolInit
  OBVIOUS
<1> USE TuiAssumption, DelegationAssumption
<1>0. Init
  BY DEF TuiInit
<1>1. SlotInv /\ (\A d \in Delegations : OutcomeOf(d)) /\ Pool!PoolInit
  BY <1>0, SlotsStart, OutcomesStart, OutcomeByDelegation
<1>2. TurnsLead
  BY <1>0 DEF Init, TurnsLead
<1>3. TuiTypeOK
  <2>1. attached \in BOOLEAN /\ here \in BOOLEAN /\ pendingAbort \in BOOLEAN
    BY Zenon DEF TuiInit
  <2>2. line \in Seq(Turns \cup {Compact}) /\ ask \in [Gated -> {"none", "open", "answered", "over"}]
    BY DEF TuiInit
  <2>3. /\ seen \subseteq Delegations /\ loading \in Nat /\ detours \in Nat
        /\ runId \in Turns \cup {NoTurn} /\ clock \in {"off", "running", "stopped"}
        /\ subRuns \subseteq Delegations /\ sending \subseteq Turns /\ attended \in Turns \cup {NoTurn}
    BY DEF TuiInit
  <2> QED BY <2>1, <2>2, <2>3 DEF TuiTypeOK
<1>4. TreeFits(trace) /\ trace.pending = <<>> /\ trace.agents = {}
  BY FreshTrees DEF TuiInit
<1>5. Elems(trace.pending) = {} /\ Once(trace.pending)
  BY <1>4 DEF Elems, Once
<1>6. Follows
  BY <1>4, <1>5 DEF TuiInit, Follows
<1>7. Sent
  BY DEF TuiInit, Sent
<1>8. AllAttend
  <2>1. Of(attended) = {}
    BY DEF TuiInit, Of
  <2> QED BY <2>1 DEF AllAttend
<1> QED BY <1>1, <1>2, <1>3, <1>4, <1>6, <1>7, <1>8 DEF ScreenInv

\* A list without repetition is as long as the set of its elements.
LEMMA OnceCounts ==
  ASSUME NEW S, NEW s \in Seq(S), Once(s)
  PROVE  Cardinality(Elems(s)) = Len(s)
<1>1. Len(s) \in Nat /\ DOMAIN s = 1 .. Len(s)
  OBVIOUS
<1> DEFINE f == [i \in 1 .. Len(s) |-> s[i]]
<1>a. f \in [1 .. Len(s) -> Elems(s)]
  BY <1>1 DEF Elems
<1>b. \A i, j \in 1 .. Len(s) : f[i] = f[j] => i = j
  BY <1>1 DEF Once
<1>c. \A x \in Elems(s) : \E i \in 1 .. Len(s) : f[i] = x
  BY <1>1 DEF Elems
<1> HIDE DEF f
<1>2. f \in Bijection(1 .. Len(s), Elems(s))
  BY <1>a, <1>b, <1>c DEF Bijection, Injection, Surjection, IsInjective
<1> QED BY <1>1, <1>2, FS_CountingElements DEF ExistsBijection

\* What the invariant says of the screen.
LEMMA ScreenShows == ScreenInv => NodesHangOnce /\ PromptsOnScreen
<1> SUFFICES ASSUME ScreenInv PROVE NodesHangOnce /\ PromptsOnScreen
  OBVIOUS
<1> USE TuiAssumption
<1>0. /\ TreeFits(trace) /\ Follows /\ Sent /\ AllAttend /\ attended \in Turns \cup {NoTurn}
      /\ trace \in T!Traces
  BY DEF ScreenInv, TuiTypeOK, TreeFits
<1>1. NodesHangOnce
  <2> SUFFICES ASSUME NEW d \in trace.agents \ {Orchestrator}
               PROVE  LET places == T!Places(trace, d)
                      IN /\ Cardinality(places) <= 1
                         /\ d \in Of(attended) =>
                              /\ trace.root = Orchestrator
                              /\ places = {IF d \in trace.calls THEN d ELSE Orchestrator}
    BY DEF NodesHangOnce
  <2> DEFINE places == T!Places(trace, d)
  <2>1. d \in Delegations
    BY <1>0, TraceTypes DEF T!Agents
  <2>2. {c \in Delegations : d \in trace.under[c]} = IF d \in trace.under[d] THEN {d} ELSE {}
    BY <1>0, <2>1 DEF TreeFits
  <2>3. d \in trace.under[d] => d \notin trace.flat /\ d \in trace.calls
    BY <1>0, <2>1 DEF TreeFits
  <2>4. places = IF d \in trace.flat THEN {Orchestrator} ELSE IF d \in trace.under[d] THEN {d} ELSE {}
    BY <2>2, <2>3 DEF T!Places
  <2>5. Cardinality(places) <= 1
    <3>1. Cardinality({}) = 0 /\ Cardinality({d}) = 1 /\ Cardinality({Orchestrator}) = 1
      BY FS_EmptySet, FS_Singleton
    <3>2. places = {} \/ places = {d} \/ places = {Orchestrator}
      BY <2>4
    <3>3. Cardinality(places) \in {0, 1}
      BY <3>1, <3>2
    <3> HIDE DEF places
    <3> QED BY <3>3
  <2>6. ASSUME d \in Of(attended)
        PROVE  /\ trace.root = Orchestrator
               /\ places = {IF d \in trace.calls THEN d ELSE Orchestrator}
    <3>1. attended # NoTurn
      BY <2>6, DelegationAssumption DEF Of
    <3>2. Placed(trace, d)
      BY <1>0, <2>6 DEF AllAttend, Attends
    <3>3. (d \in trace.calls => d \in trace.under[d]) /\ (d \notin trace.calls => d \in trace.flat)
      BY <3>2 DEF Placed
    <3> QED BY <1>0, <2>3, <2>4, <3>1, <3>3 DEF Sent
  <2> QED BY <2>5, <2>6
<1>2. PromptsOnScreen
  <2>1. trace.pending \in Seq(Delegations)
    BY <1>0, TraceTypes
  <2>2. Cardinality(Elems(trace.pending)) = Len(trace.pending)
    BY <1>0, <2>1, OnceCounts DEF Follows
  <2>3. {d \in Gated \cap Of(attended) : ask[d] = "open"} \subseteq Elems(trace.pending)
    BY <1>0 DEF AllAttend, Attends
  <2>4. \A d \in Elems(trace.pending) : ask[d] \in {"open", "over"}
    BY <1>0 DEF Follows
  <2> QED BY <2>2, <2>3, <2>4 DEF PromptsOnScreen, Elems
<1> QED BY <1>1, <1>2

-----------------------------------------------------------------------------
(* Theorems *)

\* In every behaviour the counter of the semaphore counts the delegations between
\* acquire() and release(), and nobody queues beside a free slot.
THEOREM SlotsAreExact == Spec => []SlotsExact
<1>1. Init => SlotInv
  BY SlotsStart
<1>2. SlotInv /\ [Next]_vars => SlotInv'
  BY SlotsStep
<1>3. SlotInv => SlotsExact
  BY DEF SlotInv
<1> QED BY <1>1, <1>2, <1>3, PTL DEF Spec

\* The delegations' state is well typed in every behaviour.
THEOREM DelegationTypeCorrect == Spec => []DelegationTypeOK
<1>1. Init => SlotInv
  BY SlotsStart
<1>2. SlotInv /\ [Next]_vars => SlotInv'
  BY SlotsStep
<1>3. SlotInv => DelegationTypeOK
  BY DEF SlotInv
<1> QED BY <1>1, <1>2, <1>3, PTL DEF Spec

\* The semaphore is a bounded first-come pool for any number of delegations,
\* turns and slots, whatever ends a delegation.
THEOREM DelegationImplementsPool == Spec => ImplementsPool
<1>1. Init => SlotInv /\ Pool!PoolInit
  BY SlotsStart
<1>2. SlotInv /\ [Next]_vars => SlotInv' /\ [Pool!PoolNext]_(Pool!poolVars)
  BY SlotsStep
<1> QED BY <1>1, <1>2, PTL DEF Spec, ImplementsPool, Pool!PoolSpec

\* In every behaviour a delegation's run record and transcript tell how it ended.
THEOREM OutcomesAreTold == Spec => []OutcomeTold
<1> DEFINE Inv == SlotInv /\ (\A d \in Delegations : OutcomeOf(d))
<1>1. Init => Inv
  BY SlotsStart, OutcomesStart, OutcomeByDelegation
<1>2. Inv /\ [Next]_vars => Inv'
  BY SlotsStep, OutcomesStep
<1>3. Inv => OutcomeTold
  BY OutcomeByDelegation
<1> HIDE DEF Inv
<1> QED BY <1>1, <1>2, <1>3, PTL DEF Spec

\* In every behaviour of the interface a sub-agent's node hangs once, in its place.
THEOREM NodesHangInPlace == TuiSpec => []NodesHangOnce
<1>1. TuiInit => ScreenInv
  BY ScreenStart
<1>2. ScreenInv /\ [TuiNext]_allVars => ScreenInv'
  BY ScreenStep
<1>3. ScreenInv => NodesHangOnce
  BY ScreenShows
<1> QED BY <1>1, <1>2, <1>3, PTL DEF TuiSpec

\* In every behaviour the calls that wait for a human are on the attended screen.
THEOREM PromptsAreOnScreen == TuiSpec => []PromptsOnScreen
<1>1. TuiInit => ScreenInv
  BY ScreenStart
<1>2. ScreenInv /\ [TuiNext]_allVars => ScreenInv'
  BY ScreenStep
<1>3. ScreenInv => PromptsOnScreen
  BY ScreenShows
<1> QED BY <1>1, <1>2, <1>3, PTL DEF TuiSpec

\* The interface's state and the trace are well typed in every behaviour.
THEOREM TuiTypesCorrect == TuiSpec => [](DelegationTypeOK /\ TuiTypeOK /\ trace \in T!Traces)
<1>1. TuiInit => ScreenInv
  BY ScreenStart
<1>2. ScreenInv /\ [TuiNext]_allVars => ScreenInv'
  BY ScreenStep
<1>3. ScreenInv => DelegationTypeOK /\ TuiTypeOK /\ trace \in T!Traces
  BY DEF ScreenInv, SlotInv, TreeFits
<1> QED BY <1>1, <1>2, <1>3, PTL DEF TuiSpec

\* The outcomes are told also below the interface, which aborts and skips waiting turns.
THEOREM OutcomesAreToldBelow == TuiSpec => []OutcomeTold
<1>1. TuiInit => ScreenInv
  BY ScreenStart
<1>2. ScreenInv /\ [TuiNext]_allVars => ScreenInv'
  BY ScreenStep
<1>3. ScreenInv => OutcomeTold
  BY OutcomeByDelegation DEF ScreenInv
<1> QED BY <1>1, <1>2, <1>3, PTL DEF TuiSpec

\* The semaphore is a bounded first-come pool also below the interface.
THEOREM TuiImplementsPool == TuiSpec => ImplementsPool
<1>1. TuiInit => ScreenInv /\ Pool!PoolInit
  BY ScreenStart
<1>2. ScreenInv /\ [TuiNext]_allVars => ScreenInv' /\ [Pool!PoolNext]_(Pool!poolVars)
  BY ScreenStep
<1> QED BY <1>1, <1>2, PTL DEF TuiSpec, ImplementsPool, Pool!PoolSpec

-----------------------------------------------------------------------------
(* What an abort can count on                                              *)

\* A timer runs, or has fired, for the delegations that have a timeout, from their start to
\* their release: none is lost, and none outlives its delegation.
TimersRun ==
  \A d \in Delegations :
    timer[d] # "off" <=> d \in Timed /\ phase[d] \in {"streaming", "judging"}

\* Who queues waits for somebody that holds a slot.
WaitersHaveHolders == \A d \in Delegations : phase[d] = "queued" => Holders # {}

\* An aborted turn gets no new delegation, and one that has ended stays so.
OutstandingShrinks == \A t \in aborted : Outstanding(t)' \subseteq Outstanding(t)

\* Every step keeps the timers.
LEMMA TimersStep ==
  ASSUME SlotInv, TimersRun, Moves
  PROVE  TimersRun'
<1>t. /\ phase \in [Delegations -> Phases] /\ timer \in [Delegations -> {"off", "armed", "fired"}]
      /\ "judging" \in Phases /\ "streaming" \in Phases
  BY DEF SlotInv, DelegationTypeOK, Phases, Holding
<1>1. CASE phase' = phase /\ timer' = timer
  BY <1>1 DEF TimersRun
<1>2. ASSUME NEW t \in Turns, BeginTurn(t) \/ AbortTurn(t) \/ EndTurn(t) PROVE TimersRun'
  BY <1>1, <1>2 DEF BeginTurn, AbortTurn, EndTurn
<1>3. ASSUME NEW e \in Delegations, Delegate(e) PROVE TimersRun'
  <2>1. /\ phase[e] = "idle" /\ phase'[e] \in {"queued", "granted"} /\ timer' = timer
        /\ \A d \in Delegations \ {e} : phase'[d] = phase[d]
    BY <1>3, <1>t DEF Delegate
  <2> QED BY <2>1 DEF TimersRun
<1>4. ASSUME NEW e \in Delegations, Start(e) PROVE TimersRun'
  <2>1. /\ phase'[e] = "streaming" /\ timer'[e] = IF e \in Timed THEN "armed" ELSE "off"
        /\ \A d \in Delegations \ {e} : phase'[d] = phase[d] /\ timer'[d] = timer[d]
    BY <1>4, <1>t DEF Start
  <2> QED BY <2>1 DEF TimersRun
<1>5. ASSUME NEW e \in Delegations, Timeout(e) PROVE TimersRun'
  <2>1. /\ phase' = phase /\ timer[e] = "armed" /\ timer'[e] = "fired"
        /\ \A d \in Delegations \ {e} : timer'[d] = timer[d]
    BY <1>5, <1>t DEF Timeout
  <2> QED BY <2>1 DEF TimersRun
<1>6. ASSUME NEW e \in Delegations, phase[e] \in Holding, Release(e) PROVE TimersRun'
  <2>1. /\ phase'[e] = "over" /\ timer'[e] = "off"
        /\ \A d \in Delegations \ {e} :
             /\ timer'[d] = timer[d]
             /\ phase'[d] = phase[d] \/ (phase[d] = "queued" /\ phase'[d] = "granted")
    BY <1>6, ReleaseMoves DEF Holders
  <2> QED BY <2>1 DEF TimersRun
<1>7. ASSUME NEW e \in Delegations, StartFails(e) \/ Stops(e) \/ Fails(e) \/ JudgeEnds(e) PROVE TimersRun'
  BY <1>6, <1>7 DEF StartFails, Stops, EndsTimedOut, EndsAborted, Fails, JudgeEnds, Holding
<1>8. ASSUME NEW e \in Delegations, Completes(e) \/ EndsSilent(e) PROVE TimersRun'
  <2>1. /\ phase[e] = "streaming"
        /\ Release(e) \/ (phase' = [phase EXCEPT ![e] = "judging"] /\ timer' = timer)
    BY <1>8 DEF Completes, EndsSilent, Conclude
  <2>2. CASE phase' = [phase EXCEPT ![e] = "judging"] /\ timer' = timer
    <3>1. phase'[e] = "judging" /\ \A d \in Delegations \ {e} : phase'[d] = phase[d]
      BY <1>t, <2>2
    <3> QED BY <2>1, <2>2, <3>1 DEF TimersRun
  <2> QED BY <1>6, <2>1, <2>2 DEF Holding
<1>9. CASE UNCHANGED vars \/ Marks
  BY <1>1, <1>9 DEF vars, Marks
<1> QED BY <1>2, <1>3, <1>4, <1>5, <1>7, <1>8, <1>9 DEF Moves, Next

\* No delegation is made for an aborted turn.
LEMMA NoneBegins ==
  ASSUME SlotInv, Moves, NEW d \in Delegations, Aborted(d), phase[d] = "idle"
  PROVE  phase'[d] = "idle"
<1>t. phase \in [Delegations -> Phases]
  BY DEF SlotInv, DelegationTypeOK
<1>1. CASE phase' = phase
  BY <1>1
<1>2. ASSUME NEW e \in Delegations, Delegate(e) PROVE phase'[d] = "idle"
  <2>1. d # e
    BY <1>2 DEF Delegate
  <2> QED BY <1>2, <1>t, <2>1 DEF Delegate
<1>3. ASSUME NEW e \in Delegations, Start(e) \/ Timeout(e) PROVE phase'[d] = "idle"
  BY <1>3, <1>t DEF Start, Timeout
<1>4. ASSUME NEW e \in Delegations, phase[e] \in Holding, Release(e) PROVE phase'[d] = "idle"
  <2>1. /\ phase'[e] = "over"
        /\ \A x \in Delegations \ {e} :
             phase'[x] = phase[x] \/ (phase[x] = "queued" /\ phase'[x] = "granted")
    BY <1>4, ReleaseMoves DEF Holders
  <2> QED BY <1>4, <2>1 DEF Holding
<1>5. ASSUME NEW e \in Delegations, StartFails(e) \/ Stops(e) \/ Fails(e) \/ JudgeEnds(e)
      PROVE  phase'[d] = "idle"
  BY <1>4, <1>5 DEF StartFails, Stops, EndsTimedOut, EndsAborted, Fails, JudgeEnds, Holding
<1>6. ASSUME NEW e \in Delegations, Completes(e) \/ EndsSilent(e) PROVE phase'[d] = "idle"
  <2>1. phase[e] = "streaming" /\ (Release(e) \/ phase' = [phase EXCEPT ![e] = "judging"])
    BY <1>6 DEF Completes, EndsSilent, Conclude
  <2>2. CASE phase' = [phase EXCEPT ![e] = "judging"]
    BY <1>t, <2>1, <2>2
  <2> QED BY <1>4, <2>1, <2>2 DEF Holding
<1>7. ASSUME NEW t \in Turns, BeginTurn(t) \/ AbortTurn(t) \/ EndTurn(t) PROVE phase'[d] = "idle"
  BY <1>7 DEF BeginTurn, AbortTurn, EndTurn
<1>8. CASE UNCHANGED vars \/ Marks
  BY <1>1, <1>8 DEF vars, Marks
<1> QED BY <1>2, <1>3, <1>5, <1>6, <1>7, <1>8 DEF Moves, Next

\* What an aborted turn still has to await only shrinks.
LEMMA ShrinksStep ==
  ASSUME SlotInv, Moves
  PROVE  OutstandingShrinks
<1> SUFFICES ASSUME NEW t \in aborted, NEW d \in Delegations, TurnOf[d] = t,
                    phase'[d] \notin {"idle", "over"}
             PROVE  phase[d] \notin {"idle", "over"}
  BY DEF OutstandingShrinks, Outstanding, Of
<1>1. phase[d] = "idle" => phase'[d] = "idle"
  BY NoneBegins DEF Aborted
<1>2. phase[d] = "over" => phase'[d] = "over"
  BY PhasesAdvance DEF Advances
<1> QED BY <1>1, <1>2

\* The exact slots say that somebody holds one.
LEMMA SlotsAwaited == SlotInv => WaitersHaveHolders
<1> SUFFICES ASSUME SlotInv, NEW d \in Delegations, phase[d] = "queued" PROVE Holders # {}
  BY DEF WaitersHaveHolders
<1>1. d \in Queued
  BY DEF SlotInv, SlotsExact
<1>2. queue # <<>>
  BY <1>1 DEF Queued
<1>3. Cardinality(Holders) = MaxConcurrency /\ MaxConcurrency \in Nat \ {0}
  BY <1>2, DelegationAssumption DEF SlotInv, SlotsExact
<1> QED BY <1>3, FS_EmptySet

\* What drives is the head of the turn queue.
HeadDrives ==
  attached => \A t \in Turns : turn[t] = "driving" => line # <<>> /\ Head(line) = t

\* A turn whose send is awaited has neither been aborted nor ended, so that its send
\* resolves; one that is aborted or tracked was accepted before.
SendersFresh ==
  attached =>
    /\ \A t \in sending : t \notin aborted /\ turn[t] # "over"
    /\ \A t \in Turns : t \in aborted \/ t = runId => Accepted(t)

\* The end of the turn on screen is heard: it is tracked, or will be when its send resolves.
EndIsHeard ==
  \A t \in Turns :
    turn[t] = "driving" /\ t \in {runId, attended} => runId = t \/ t \in sending

\* Inductive: what the screen shows, the queue and the sends.
HeardInv == ScreenInv /\ HeadDrives /\ SendersFresh

\* Who stays in the queue when its head leaves.
LEMMA TailKeepsOthers ==
  ASSUME TuiTypeOK, line # <<>>
  PROVE  \A u \in Elems(line) : u # Head(line) => u \in Elems(Tail(line))
<1> SUFFICES ASSUME NEW i \in DOMAIN line, line[i] # Head(line)
             PROVE  line[i] \in Elems(Tail(line))
  BY DEF Elems
<1>1. line \in Seq(Turns \cup {Compact})
  BY DEF TuiTypeOK
<1>2. /\ Len(Tail(line)) = Len(line) - 1 /\ Len(line) \in Nat \ {0} /\ Head(line) = line[1]
      /\ \A j \in 1 .. Len(Tail(line)) : Tail(line)[j] = line[j + 1]
      /\ DOMAIN line = 1 .. Len(line) /\ DOMAIN Tail(line) = 1 .. Len(Tail(line))
  BY <1>1, HeadTailProperties
<1>3. i # 1 /\ i - 1 \in DOMAIN Tail(line) /\ Tail(line)[i - 1] = line[i]
  BY <1>2
<1> QED BY <1>3 DEF Elems

\* A step keeps the sends fresh when it sends only what is not accepted, aborts and tracks
\* only what is, and takes no acceptance back.
LEMMA FreshOn ==
  ASSUME SendersFresh, attached, sending' \subseteq Turns, sending \subseteq Turns,
         \A u \in sending' : /\ u \in sending \/ ~Accepted(u)
                             /\ u \in aborted' => u \in aborted
                             /\ turn'[u] = "over" => turn[u] = "over",
         \A u \in Turns : turn'[u] # "waiting" \/ u \in Elems(line') \/ ~Accepted(u),
         \A u \in Turns : u \in aborted' => u \in aborted \/ Accepted(u),
         \A u \in Turns : u = runId' => u = runId \/ Accepted(u)
  PROVE  SendersFresh'
<1>1. \A u \in Turns : Accepted(u)' <=> turn'[u] # "waiting" \/ u \in Elems(line')
  BY DEF Accepted, Elems
<1>2. \A u \in Turns : turn[u] = "over" => Accepted(u)
  BY DEF Accepted
<1> QED BY <1>1, <1>2 DEF SendersFresh

\* Steps that leave the turns and the queue alone.
LEMMA HeardOn ==
  ASSUME HeardInv, attached, UNCHANGED <<turnVars, line>>, sending' \subseteq sending,
         runId' \in {runId, NoTurn}
  PROVE  HeadDrives' /\ SendersFresh'
<1>1. sending \subseteq Turns /\ NoTurn \notin Turns /\ SendersFresh
  BY DelegationAssumption DEF HeardInv, ScreenInv, TuiTypeOK
<1>2. HeadDrives'
  BY DEF HeardInv, HeadDrives, turnVars
<1>3. SendersFresh'
  BY <1>1, FreshOn, AcceptedIf DEF turnVars
<1> QED BY <1>2, <1>3

\* The sends, their continuations and Ctrl-C.
LEMMA HeardByUser ==
  ASSUME HeardInv, attached,
         (\E t \in Turns : Send(t) \/ SendFails(t) \/ Resolve(t) \/ ErrorPart(t)) \/ CtrlC
  PROVE  HeadDrives' /\ SendersFresh'
<1>0. /\ TuiTypeOK /\ SendersFresh /\ HeadDrives /\ sending \subseteq Turns /\ NoTurn \notin Turns
      /\ runId \in Turns \cup {NoTurn}
  BY DelegationAssumption DEF HeardInv, ScreenInv, TuiTypeOK
<1>1. ASSUME NEW t \in Turns, Send(t) PROVE HeadDrives' /\ SendersFresh'
  <2>1. /\ UNCHANGED <<turn, aborted, line, runId>> /\ sending' = sending \cup {t} /\ ~Accepted(t)
    BY <1>1 DEF Send, vars, turnVars, hostVars
  <2>2. HeadDrives'
    BY <1>0, <2>1, <1>1 DEF HeadDrives, Send
  <2>3. SendersFresh'
    BY <1>0, <2>1, FreshOn, AcceptedIf
  <2> QED BY <2>2, <2>3
<1>2. ASSUME NEW t \in Turns, SendFails(t) \/ ErrorPart(t) PROVE HeadDrives' /\ SendersFresh'
  BY <1>2, HeardOn DEF SendFails, ErrorPart, vars, hostVars
<1>3. ASSUME NEW t \in Turns, AbortRun(t)
      PROVE  turn' = turn /\ aborted' = aborted \cup {t}
  BY <1>3 DEF AbortRun, AbortTurn
<1>4. ASSUME NEW t \in Turns, Resolve(t) PROVE HeadDrives' /\ SendersFresh'
  <2>1. /\ line' = line /\ sending' = sending \ {t} /\ runId' = t /\ Accepted(t)
        /\ turn' = turn /\ aborted' \subseteq aborted \cup {t}
    BY <1>3, <1>4 DEF Resolve, vars, turnVars
  <2>2. HeadDrives'
    BY <1>0, <2>1, <1>4 DEF HeadDrives
  <2>3. SendersFresh'
    BY <1>0, <2>1, FreshOn, AcceptedIf
  <2> QED BY <2>2, <2>3
<1>5. CASE CtrlC
  <2>1. Calm /\ UNCHANGED <<line, sending, runId>>
    BY <1>5 DEF CtrlC
  <2>2. turn' = turn /\ (aborted' = aborted \/ (runId \in Turns /\ aborted' = aborted \cup {runId}))
    <3>1. CASE runId \in Turns /\ AbortRun(runId)
      BY <1>3, <3>1
    <3>2. CASE UNCHANGED <<vars, ask>>
      BY <3>2 DEF vars, turnVars
    <3> QED BY <1>0, <1>5, <3>1, <3>2 DEF CtrlC
  <2>3. runId \in Turns => Accepted(runId) /\ runId \notin sending
    BY <1>0, <2>1 DEF SendersFresh, Calm
  <2>4. HeadDrives'
    BY <1>0, <2>1, <2>2 DEF HeadDrives
  <2>5. SendersFresh'
    BY <1>0, <2>1, <2>2, <2>3, FreshOn, AcceptedIf
  <2> QED BY <2>4, <2>5
<1> QED BY <1>1, <1>2, <1>4, <1>5

\* The queue: what joins it stands behind what drives, and its head leaves when it is over.
LEMMA HeardInQueue ==
  ASSUME HeardInv, attached,
         \/ \E t \in Turns : Accept(t) \/ Begin(t) \/ Skip(t) \/ Finish(t)
         \/ CompactNow \/ CompactEnds
  PROVE  HeadDrives' /\ SendersFresh'
<1>0. /\ TuiTypeOK /\ SendersFresh /\ HeadDrives /\ sending \subseteq Turns /\ NoTurn \notin Turns
      /\ turn \in [Turns -> {"waiting", "driving", "over"}] /\ Compact \notin Turns
      /\ line \in Seq(Turns \cup {Compact})
  BY DelegationAssumption, TuiAssumption
  DEF HeardInv, ScreenInv, TuiTypeOK, SlotInv, DelegationTypeOK
<1>1. ASSUME NEW x \in Turns \cup {Compact}, line' = Append(line, x)
      PROVE  /\ Elems(line') = Elems(line) \cup {x} /\ line' # <<>>
             /\ Head(line') = IF line = <<>> THEN x ELSE Head(line)
  BY <1>0, <1>1, LineSteps
<1>2. ASSUME NEW t \in Turns, Accept(t) PROVE HeadDrives' /\ SendersFresh'
  <2>1. /\ Calm /\ t \in sending /\ line' = Append(line, t)
        /\ UNCHANGED <<aborted, sending, runId>>
        /\ \/ turn' = turn /\ line # <<>>
           \/ /\ turn' = [turn EXCEPT ![t] = "driving"] /\ line = <<>>
              /\ \A u \in Turns : turn[u] # "driving"
    BY <1>2 DEF Accept, BeginTurn, vars, turnVars, runVars
  <2>2. HeadDrives'
    BY <1>0, <1>1, <2>1 DEF HeadDrives
  <2>3. \A u \in Turns : turn'[u] # "waiting" \/ u \in Elems(line') \/ ~Accepted(u)
    BY <1>0, <1>1, <2>1, AcceptedIf
  <2>4. SendersFresh'
    BY <1>0, <2>1, <2>3, FreshOn
  <2> QED BY <2>2, <2>4
<1>3. ASSUME NEW t \in Turns, Begin(t) PROVE HeadDrives' /\ SendersFresh'
  <2>1. /\ line # <<>> /\ Head(line) = t /\ turn' = [turn EXCEPT ![t] = "driving"]
        /\ UNCHANGED <<aborted, sending, runId, line>>
        /\ \A u \in Turns : turn[u] # "driving"
    BY <1>3 DEF Begin, Ready, BeginTurn, tuiVars, hostVars, runVars
  <2>2. HeadDrives'
    BY <1>0, <2>1 DEF HeadDrives
  <2>3. SendersFresh'
    BY <1>0, <2>1, FreshOn, AcceptedIf
  <2> QED BY <2>2, <2>3
<1>4. ASSUME NEW t \in Turns, Skip(t) \/ Finish(t) PROVE HeadDrives' /\ SendersFresh'
  <2>1. /\ Calm /\ line # <<>> /\ Head(line) = t /\ line' = Tail(line)
        /\ turn' = [turn EXCEPT ![t] = "over"]
        /\ UNCHANGED <<aborted, sending>> /\ runId' \in {runId, NoTurn}
    BY <1>4 DEF Skip, Finish, Ready, EndTurn, runVars
  <2>2. t \in Elems(line)
    BY <1>0, <2>1, LineSteps
  <2>3. t \notin sending
    BY <2>1, <2>2, AcceptedIf DEF Calm
  <2>4. HeadDrives'
    BY <1>0, <2>1 DEF HeadDrives
  <2>5. \A u \in Turns : turn'[u] # "waiting" \/ u \in Elems(line') \/ ~Accepted(u)
    BY <1>0, <2>1, AcceptedIf, TailKeepsOthers
  <2>6. SendersFresh'
    BY <1>0, <2>1, <2>3, <2>5, FreshOn
  <2> QED BY <2>4, <2>6
<1>5. CASE CompactNow
  <2>1. line' = Append(line, Compact) /\ UNCHANGED <<turn, aborted, sending, runId>>
    BY <1>5 DEF CompactNow, vars, turnVars, runVars
  <2>2. HeadDrives'
    BY <1>0, <1>1, <2>1 DEF HeadDrives
  <2>3. SendersFresh'
    BY <1>0, <1>1, <2>1, FreshOn, AcceptedIf
  <2> QED BY <2>2, <2>3
<1>6. CASE CompactEnds
  <2>1. /\ line # <<>> /\ Head(line) = Compact /\ line' = Tail(line)
        /\ UNCHANGED <<turn, aborted, sending, runId>>
    BY <1>6 DEF CompactEnds, Ready, vars, turnVars, runVars
  <2>2. HeadDrives'
    BY <1>0, <2>1 DEF HeadDrives
  <2>3. \A u \in Turns : turn'[u] # "waiting" \/ u \in Elems(line') \/ ~Accepted(u)
    BY <1>0, <2>1, AcceptedIf, TailKeepsOthers
  <2>4. SendersFresh'
    BY <1>0, <2>1, <2>3, FreshOn
  <2> QED BY <2>2, <2>4
<1> QED BY <1>2, <1>3, <1>4, <1>5, <1>6

\* Every step keeps the queue and the sends.
LEMMA HeardStep ==
  ASSUME HeardInv, [TuiNext]_allVars
  PROVE  HeardInv'
<1>0. ScreenInv'
  BY ScreenStep DEF HeardInv
<1>1. CASE ~attached'
  BY <1>0, <1>1 DEF HeardInv, HeadDrives, SendersFresh
<1>2. CASE UNCHANGED allVars
  BY <1>0, <1>2, AcceptedIf DEF allVars, vars, turnVars, tuiVars, hostVars, runVars, HeardInv, HeadDrives,
        SendersFresh, Accepted
<1>3. CASE attached' /\ TuiNext
  <2>0. attached /\ Screen
    BY <1>3, Zenon DEF TuiNext
  <2>1. CASE \E t \in Turns : \/ Send(t) \/ SendFails(t) \/ Accept(t) \/ Resolve(t)
                              \/ Begin(t) \/ Skip(t) \/ ErrorPart(t) \/ Finish(t)
    BY <1>0, <2>0, <2>1, HeardByUser, HeardInQueue DEF HeardInv
  <2>2. CASE CtrlC \/ CompactNow \/ CompactEnds
    BY <1>0, <2>0, <2>2, HeardByUser, HeardInQueue DEF HeardInv
  <2>3. CASE Clear \/ Decide \/ SwitchTo \/ Load \/ LoadOther
    <3>1. UNCHANGED <<turnVars, line>> /\ sending' = sending /\ runId' \in {runId, NoTurn}
      BY <2>3 DEF Clear, Decide, SwitchTo, Load, LoadOther, vars, hostVars, runVars
    <3> QED BY <1>0, <2>0, <3>1, HeardOn DEF HeardInv
  <2>4. ASSUME NEW d \in Delegations,
               \/ Call(d) \/ CallSeen(d) \/ Started(d) \/ Speaks(d) \/ Asks(d)
               \/ ResultSeen(d) \/ TimerFires(d) \/ Ends(d)
        PROVE  HeardInv'
    <3>1. UNCHANGED <<turnVars, line, sending, runId>>
      <4>1. CASE Call(d) \/ Started(d) \/ TimerFires(d)
        BY <4>1 DEF Call, Delegate, Started, Start, StartFails, TimerFires, Timeout, tuiVars, hostVars, runVars
      <4>2. CASE Ends(d)
        BY <4>2 DEF Ends, Stops, EndsTimedOut, EndsAborted, Completes, tuiVars, hostVars, runVars
      <4>3. CASE CallSeen(d) \/ Speaks(d) \/ Asks(d) \/ ResultSeen(d)
        BY <4>3 DEF CallSeen, Speaks, Asks, ResultSeen, vars, hostVars, runVars
      <4> QED BY <2>4, <4>1, <4>2, <4>3
    <3> QED BY <1>0, <2>0, <3>1, HeardOn DEF HeardInv
  <2> QED BY <2>0, <2>1, <2>2, <2>3, <2>4 DEF Screen
<1> QED BY <1>1, <1>2, <1>3

\* Aborting a turn drains it, alone and below the interface: it gets no delegation any more,
\* one that queues waits for somebody that holds a slot, and nobody that has a timeout holds
\* it without its timer (sub-agent.ts, semaphore.ts).  What AbortCascades says happens in the
\* end can always still happen.
THEOREM AbortedTurnsDrain ==
  /\ Spec => [][OutstandingShrinks]_vars /\ [](WaitersHaveHolders /\ TimersRun)
  /\ TuiSpec => [][OutstandingShrinks]_allVars /\ [](WaitersHaveHolders /\ TimersRun)
<1>1. Init => SlotInv /\ TimersRun
  BY SlotsStart DEF Init, TimersRun
<1>2. SlotInv /\ TimersRun /\ [Next]_vars => SlotInv' /\ TimersRun' /\ [OutstandingShrinks]_vars
  BY SlotsStep, TimersStep, ShrinksStep DEF Moves
<1>3. TuiInit => ScreenInv /\ TimersRun
  BY <1>1, ScreenStart DEF TuiInit
<1>4. ScreenInv /\ TimersRun /\ [TuiNext]_allVars => ScreenInv' /\ TimersRun' /\ [OutstandingShrinks]_allVars
  BY ScreenStep, ScreenMoves, TimersStep, ShrinksStep DEF ScreenInv
<1>5. ScreenInv => SlotInv
  BY DEF ScreenInv
<1>6. SlotInv => WaitersHaveHolders
  BY SlotsAwaited
<1> QED BY <1>1, <1>2, <1>3, <1>4, <1>5, <1>6, PTL DEF Spec, TuiSpec

\* The end of a turn that drives reaches the interface: it is the head of the turn queue, it
\* is tracked or its send is still to resolve, and no abort has come before that
\* (session.tsx send, abortRun, endRun).  What InterruptFrees says happens in the end can
\* always still happen.
THEOREM EndsAreHeardOnScreen == TuiSpec => [](HeadDrives /\ SendersFresh /\ EndIsHeard)
<1>1. TuiInit => HeardInv
  <2> SUFFICES ASSUME TuiInit PROVE HeardInv
    OBVIOUS
  <2>1. ScreenInv
    BY ScreenStart
  <2>2. /\ sending = {} /\ aborted = {} /\ runId = NoTurn /\ \A t \in Turns : turn[t] = "waiting"
    BY DEF TuiInit, Init
  <2>3. HeadDrives /\ SendersFresh
    BY <2>2, DelegationAssumption DEF HeadDrives, SendersFresh
  <2> QED BY <2>1, <2>3 DEF HeardInv
<1>2. HeardInv /\ [TuiNext]_allVars => HeardInv'
  BY HeardStep
<1>3. HeardInv => HeadDrives /\ SendersFresh /\ EndIsHeard
  <2> SUFFICES ASSUME HeardInv, NEW t \in Turns, turn[t] = "driving", t \in {runId, attended}
               PROVE  runId = t \/ t \in sending
    BY DEF HeardInv, EndIsHeard
  <2>1. NoTurn \notin Turns /\ Sent /\ Accepted(t)
    BY DelegationAssumption DEF HeardInv, ScreenInv, Accepted
  <2> QED BY <2>1 DEF Sent
<1> QED BY <1>1, <1>2, <1>3, PTL DEF TuiSpec
=============================================================================
