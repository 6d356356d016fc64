----------------------------- MODULE SessionProofs -----------------------------
(***************************************************************************)
(* The session over its log, for every number of entries, tasks, crashes   *)
(* and forks, as long as a crash leaves no half line behind (with Torn the *)
(* run session_torn shows how EntriesSurvive fails).                       *)
(*                                                                         *)
(* EntriesSurvive speaks of the moments when nothing is being written.  It *)
(* becomes inductive as LogInv: the entries in memory are those on file    *)
(* together with those whose lines still stand in the buffer, one entry    *)
(* for an id.  TurnIsOnePath needs where the head stands while a turn      *)
(* drives, and that what a reply hangs on is on file before the reply is,  *)
(* for a crash between the two.  ManualForgetsNothing needs what a         *)
(* compaction under way has read, where the messages it summarises end and *)
(* the entries it re-anchors begin, and induction over the tree: Path,     *)
(* Ancestors and Among are recursive functions, so the first lemmas show   *)
(* that they are defined and read the tree as written.  The last section   *)
(* is about the turn queue: that an abort reaches every send that is not   *)
(* over.                                                                   *)
(***************************************************************************)
EXTENDS Session, Recursions, SequenceTheorems

\* Parents come before their children.
Rooted == \A i \in Known : entries[i].parent \in 0 .. i - 1

\* The equation that defines the function in Ancestors.
AncestorsFrom(from) ==
  [i \in Ids \cup {NoId} |->
     IF i = NoId \/ i \notin Known THEN {} ELSE {i} \cup from[entries[i].parent]]

\* In a tree the equation of Ancestors has a solution.
LEMMA AncestorsDefined ==
  ASSUME MaxEntries \in Nat \ {0}, Rooted
  PROVE  \E from \in [Ids \cup {NoId} -> SUBSET Ids] : from = AncestorsFrom(from)
<1> DEFINE D == 0 .. MaxEntries
           V == SUBSET Ids
           step(n, f) == IF n = 0 \/ n \notin Known THEN {} ELSE {n} \cup f[entries[n].parent]
           G == [n \in D |-> [f \in [D -> V] |-> step(n, f)]]
<1>1. D = Ids \cup {NoId} /\ Known \subseteq Ids /\ MaxEntries \in Nat
  BY DEF Ids, NoId, Known
<1>e. {} \in V /\ V # {}
  <2>1. {} \in V
    OBVIOUS
  <2> QED BY <2>1
<1>p. \A n \in Known : n \in Ids /\ entries[n].parent \in D /\ entries[n].parent < n
  BY <1>1 DEF Rooted, Ids
<1>v. \A n \in Ids, S \in V : {n} \cup S \in V
  OBVIOUS
<1> HIDE DEF V
<1>g. \A n \in D, f \in [D -> V] : G[n][f] = step(n, f)
  OBVIOUS
<1> HIDE DEF D, G
<1>2. \A n \in D : \A f \in [D -> V] : G[n][f] \in V
  <2> SUFFICES ASSUME NEW n \in D, NEW f \in [D -> V] PROVE G[n][f] \in V
    OBVIOUS
  <2> SUFFICES step(n, f) \in V
    BY <1>g
  <2>1. CASE n = 0 \/ n \notin Known
    BY <1>e, <2>1
  <2>2. CASE ~(n = 0 \/ n \notin Known)
    <3>1. f[entries[n].parent] \in V
      BY <1>p, <2>2
    <3> QED BY <1>p, <1>v, <2>2, <3>1
  <2> QED BY <2>1, <2>2
<1>3. \A n \in D : \A f, g \in [D -> V] :
         (\A m \in D : m < n => f[m] = g[m]) => G[n][f] = G[n][g]
  <2> SUFFICES ASSUME NEW n \in D, NEW f \in [D -> V], NEW g \in [D -> V],
                      \A m \in D : m < n => f[m] = g[m]
               PROVE  G[n][f] = G[n][g]
    OBVIOUS
  <2>1. n \in Known => f[entries[n].parent] = g[entries[n].parent]
    BY <1>p
  <2>2. step(n, f) = step(n, g)
    BY <2>1
  <2> QED BY <1>g, <2>2
<1> HIDE DEF step
<1>4. PICK f \in [D -> V] : \A n \in D : f[n] = G[n][f]
  <2>1. RecursiveStep(G, MaxEntries, V)
    BY <1>e, <1>2, <1>3 DEF D, RecursiveStep
  <2> QED BY <1>1, <2>1, Recursion DEF D
<1>5. f = AncestorsFrom(f)
  <2>1. \A n \in D : f[n] = step(n, f)
    BY <1>g, <1>4
  <2>2. f = [n \in D |-> f[n]]
    OBVIOUS
  <2>3. \A n \in D : f[n] = IF n = NoId \/ n \notin Known THEN {} ELSE {n} \cup f[entries[n].parent]
    BY <2>1 DEF step, NoId
  <2> QED BY <1>1, <2>2, <2>3 DEF AncestorsFrom
<1> QED BY <1>1, <1>5 DEF V

\* An entry's ancestors are itself and its parent's.
LEMMA AncestorsUnfold ==
  ASSUME MaxEntries \in Nat \ {0}, Rooted, NEW h \in Ids \cup {NoId}
  PROVE  Ancestors(h) = IF h = NoId \/ h \notin Known THEN {} ELSE {h} \cup Ancestors(entries[h].parent)
<1> DEFINE from == CHOOSE f : f = AncestorsFrom(f)
<1>1. from = AncestorsFrom(from)
  BY AncestorsDefined
<1>2. ASSUME NEW i PROVE Ancestors(i) = from[i]
  BY DEF Ancestors, AncestorsFrom
<1> HIDE DEF from
<1>3. from[h] = IF h = NoId \/ h \notin Known THEN {} ELSE {h} \cup from[entries[h].parent]
  BY <1>1 DEF AncestorsFrom
<1> QED BY <1>2, <1>3

\* They are no younger than it.
LEMMA AncestorsOlder ==
  ASSUME MaxEntries \in Nat \ {0}, Rooted
  PROVE  \A h \in Ids \cup {NoId} : Ancestors(h) \subseteq 1 .. h
<1> DEFINE D == 0 .. MaxEntries
           Bad == {n \in D : ~(Ancestors(n) \subseteq 1 .. n)}
<1>1. D = Ids \cup {NoId}
  BY DEF Ids, NoId
<1>2. ASSUME Bad # {} PROVE FALSE
  <2>1. Bad \in SUBSET Nat
    OBVIOUS
  <2>2. PICK n \in Bad : \A k \in Bad : n <= k
    BY <1>2, <2>1, Least
  <2>3. n \in D /\ ~(Ancestors(n) \subseteq 1 .. n)
    OBVIOUS
  <2>u. Ancestors(n) = IF n = NoId \/ n \notin Known THEN {} ELSE {n} \cup Ancestors(entries[n].parent)
    <3>1. n \in Ids \cup {NoId}
      BY <1>1, <2>3
    <3> QED BY <3>1, AncestorsUnfold
  <2>4. n \in Known /\ n # 0 /\ Ancestors(n) = {n} \cup Ancestors(entries[n].parent)
    BY <2>3, <2>u DEF NoId
  <2>5. entries[n].parent \in D /\ entries[n].parent < n
    BY <2>3, <2>4 DEF Rooted
  <2>6. Ancestors(entries[n].parent) \subseteq 1 .. entries[n].parent
    BY <2>2, <2>5
  <2> QED BY <2>3, <2>4, <2>5, <2>6
<1> QED BY <1>1, <1>2

\* The equation that defines the function in Path.
PathFrom(to) ==
  [i \in Ids \cup {NoId} |->
     CASE i = NoId -> <<>>
       [] i # NoId /\ i \notin Known -> <<>>
       [] i \in Known /\ entries[i].kind = "summary" -> <<i>>
       [] OTHER -> Append(to[entries[i].parent], i)]

\* In a tree the equation of Path has a solution.
LEMMA PathDefined ==
  ASSUME MaxEntries \in Nat \ {0}, Rooted
  PROVE  \E to : to = PathFrom(to)
<1> DEFINE D == 0 .. MaxEntries
           V == Seq(Known)
           step(n, f) == IF n \notin Known THEN <<>>
                         ELSE IF entries[n].kind = "summary" THEN <<n>>
                         ELSE Append(f[entries[n].parent], n)
           G == [n \in D |-> [f \in [D -> V] |-> step(n, f)]]
<1>1. D = Ids \cup {NoId} /\ Known \subseteq Ids /\ MaxEntries \in Nat
  BY DEF Ids, NoId, Known
<1>e. <<>> \in V /\ V # {}
  <2>1. <<>> \in V
    OBVIOUS
  <2> QED BY <2>1
<1>p. \A n \in Known : n \in Ids /\ entries[n].parent \in D /\ entries[n].parent < n
  BY <1>1 DEF Rooted, Ids
<1>v. \A n \in Known, S \in V : <<n>> \in V /\ Append(S, n) \in V
  OBVIOUS
<1> HIDE DEF V
<1>g. \A n \in D, f \in [D -> V] : G[n][f] = step(n, f)
  OBVIOUS
<1> HIDE DEF D, G
<1>2. \A n \in D : \A f \in [D -> V] : G[n][f] \in V
  <2> SUFFICES ASSUME NEW n \in D, NEW f \in [D -> V] PROVE G[n][f] \in V
    OBVIOUS
  <2> SUFFICES step(n, f) \in V
    BY <1>g
  <2>1. CASE n \notin Known
    BY <1>e, <2>1
  <2>2. CASE n \in Known
    <3>1. f[entries[n].parent] \in V
      BY <1>p, <2>2
    <3> QED BY <1>v, <2>2, <3>1
  <2> QED BY <2>1, <2>2
<1>3. \A n \in D : \A f, g \in [D -> V] :
         (\A m \in D : m < n => f[m] = g[m]) => G[n][f] = G[n][g]
  <2> SUFFICES ASSUME NEW n \in D, NEW f \in [D -> V], NEW g \in [D -> V],
                      \A m \in D : m < n => f[m] = g[m]
               PROVE  G[n][f] = G[n][g]
    OBVIOUS
  <2>1. n \in Known => f[entries[n].parent] = g[entries[n].parent]
    BY <1>p
  <2>2. step(n, f) = step(n, g)
    BY <2>1
  <2> QED BY <1>g, <2>2
<1> HIDE DEF step
<1>4. PICK f \in [D -> V] : \A n \in D : f[n] = G[n][f]
  <2>1. RecursiveStep(G, MaxEntries, V)
    BY <1>e, <1>2, <1>3 DEF D, RecursiveStep
  <2> QED BY <1>1, <2>1, Recursion DEF D
<1>5. f = PathFrom(f)
  <2>1. \A n \in D : f[n] = step(n, f)
    BY <1>g, <1>4
  <2>2. NoId \notin Known
    BY DEF Known, Ids, NoId
  <2> DEFINE path(n) == CASE n = NoId -> <<>>
                          [] n # NoId /\ n \notin Known -> <<>>
                          [] n \in Known /\ entries[n].kind = "summary" -> <<n>>
                          [] OTHER -> Append(f[entries[n].parent], n)
  <2>3. ASSUME NEW n \in D PROVE step(n, f) = path(n)
    BY <2>2 DEF step
  <2> HIDE DEF path
  <2>4. f = [n \in D |-> path(n)]
    BY <2>1, <2>3
  <2> QED BY <1>1, <2>4 DEF PathFrom, path
<1> QED BY <1>5

\* The path to an entry goes on from its parent's, unless it is a summary.
LEMMA PathUnfold ==
  ASSUME MaxEntries \in Nat \ {0}, Rooted, NEW h \in Ids \cup {NoId}
  PROVE  Path(h) = IF h \notin Known THEN <<>>
                   ELSE IF entries[h].kind = "summary" THEN <<h>>
                   ELSE Append(Path(entries[h].parent), h)
<1> DEFINE to == CHOOSE f : f = PathFrom(f)
<1>1. to = PathFrom(to)
  BY PathDefined
<1>2. ASSUME NEW i PROVE Path(i) = to[i]
  BY DEF Path, PathFrom
<1> HIDE DEF to
<1>3. NoId \notin Known
  BY DEF Known, Ids, NoId
<1>4. to[h] = IF h \notin Known THEN <<>>
              ELSE IF entries[h].kind = "summary" THEN <<h>>
              ELSE Append(to[entries[h].parent], h)
  BY <1>1, <1>3 DEF PathFrom
<1> QED BY <1>2, <1>4

\* It consists of entries of the tree.
LEMMA PathKnown ==
  ASSUME MaxEntries \in Nat \ {0}, Rooted
  PROVE  \A h \in Ids \cup {NoId} : Path(h) \in Seq(Known)
<1> DEFINE D == 0 .. MaxEntries
           Bad == {n \in D : Path(n) \notin Seq(Known)}
<1>1. D = Ids \cup {NoId}
  BY DEF Ids, NoId
<1>2. ASSUME Bad # {} PROVE FALSE
  <2>1. Bad \in SUBSET Nat
    OBVIOUS
  <2>2. PICK n \in Bad : \A k \in Bad : n <= k
    BY <1>2, <2>1, Least
  <2>3. n \in D /\ Path(n) \notin Seq(Known)
    OBVIOUS
  <2>u. Path(n) = IF n \notin Known THEN <<>>
                  ELSE IF entries[n].kind = "summary" THEN <<n>>
                  ELSE Append(Path(entries[n].parent), n)
    <3>1. n \in Ids \cup {NoId}
      BY <1>1, <2>3
    <3> QED BY <3>1, PathUnfold
  <2>4. n \in Known /\ Path(n) = Append(Path(entries[n].parent), n)
    BY <2>3, <2>u
  <2>5. entries[n].parent \in D /\ entries[n].parent < n
    BY <2>3, <2>4 DEF Rooted
  <2>6. Path(entries[n].parent) \in Seq(Known)
    BY <2>2, <2>5
  <2> QED BY <2>3, <2>4, <2>6
<1> QED BY <1>1, <1>2

\* Only its first entry may be a summary.
LEMMA PathSaid ==
  ASSUME MaxEntries \in Nat \ {0}, Rooted
  PROVE  \A h \in Ids \cup {NoId} : \A j \in 2 .. Len(Path(h)) : entries[Path(h)[j]].kind # "summary"
<1> DEFINE D == 0 .. MaxEntries
           Good(n) == \A j \in 2 .. Len(Path(n)) : entries[Path(n)[j]].kind # "summary"
           Bad == {n \in D : ~Good(n)}
<1>1. D = Ids \cup {NoId}
  BY DEF Ids, NoId
<1>2. ASSUME Bad # {} PROVE FALSE
  <2>1. Bad \in SUBSET Nat
    OBVIOUS
  <2>2. PICK n \in Bad : \A k \in Bad : n <= k
    BY <1>2, <2>1, Least
  <2>3. n \in D /\ ~Good(n)
    OBVIOUS
  <2>u. Path(n) = IF n \notin Known THEN <<>>
                  ELSE IF entries[n].kind = "summary" THEN <<n>>
                  ELSE Append(Path(entries[n].parent), n)
    <3>1. n \in Ids \cup {NoId}
      BY <1>1, <2>3
    <3> QED BY <3>1, PathUnfold
  <2>4. n \in Known /\ entries[n].kind # "summary"
    BY <2>3, <2>u
  <2> DEFINE p == Path(entries[n].parent)
  <2>5. entries[n].parent \in D /\ entries[n].parent < n
    BY <2>3, <2>4 DEF Rooted
  <2>6. p \in Seq(Known) /\ Good(entries[n].parent)
    BY <1>1, <2>2, <2>5, PathKnown
  <2>7. \A j \in 2 .. Len(p) : entries[p[j]].kind # "summary"
    BY <2>6
  <2> HIDE DEF p
  <2>8. ASSUME NEW j \in 2 .. Len(Append(p, n)) PROVE entries[Append(p, n)[j]].kind # "summary"
    <3>1. CASE j = Len(p) + 1
      BY <2>4, <2>6, <3>1
    <3>2. CASE j # Len(p) + 1
      <4>1. j \in 2 .. Len(p) /\ Append(p, n)[j] = p[j]
        BY <2>6, <3>2
      <4> QED BY <2>7, <4>1
    <3> QED BY <3>1, <3>2
  <2> QED BY <2>3, <2>4, <2>u, <2>8 DEF p
<1> QED BY <1>1, <1>2

\* What reading a tree gives, in one state and in the next.
TreeReads ==
  Rooted =>
    /\ \A h \in Known, q \in Ids \cup {NoId} : q = entries[h].parent =>
         /\ Ancestors(h) = {h} \cup Ancestors(q)
         /\ Path(h) = IF entries[h].kind = "summary" THEN <<h>> ELSE Append(Path(q), h)
    /\ \A h \in Ids \cup {NoId} : h \notin Known => Ancestors(h) = {} /\ Path(h) = <<>>
    /\ \A h \in Ids \cup {NoId} : Ancestors(h) \subseteq 1 .. h /\ Path(h) \in Seq(Known)

\* Path and Ancestors read a tree as their definitions say.
LEMMA TreeReadsNow == TreeReads
<1>1. MaxEntries \in Nat \ {0}
  BY SessionLogAssumption DEF SessionLogAssumption
<1> SUFFICES ASSUME Rooted PROVE TreeReads
  BY DEF TreeReads
<1>2. NoId \notin Known /\ \A h \in Known : h \in Ids
  BY DEF Known, Ids, NoId
<1>3. ASSUME NEW h \in Known, NEW q \in Ids \cup {NoId}, q = entries[h].parent
      PROVE  /\ Ancestors(h) = {h} \cup Ancestors(q)
             /\ Path(h) = IF entries[h].kind = "summary" THEN <<h>> ELSE Append(Path(q), h)
  <2>1. h \in Ids \cup {NoId} /\ h # NoId
    BY <1>2
  <2> QED BY <1>1, <1>3, <2>1, AncestorsUnfold, PathUnfold
<1>4. ASSUME NEW h \in Ids \cup {NoId}, h \notin Known PROVE Ancestors(h) = {} /\ Path(h) = <<>>
  BY <1>1, <1>4, AncestorsUnfold, PathUnfold
<1> QED BY <1>1, <1>3, <1>4, AncestorsOlder, PathKnown DEF TreeReads

\* The same of the next state.
LEMMA TreeReadsNext == TreeReads'
BY TreeReadsNow, PTL

\* Entries that come after them change nothing about the path and the ancestors of
\* the first c.
LEMMA TreeSame ==
  ASSUME Rooted, Rooted', NEW c \in 0 .. MaxEntries, \A i \in 1 .. c : entries'[i] = entries[i]
  PROVE  \A h \in 0 .. c : Path(h)' = Path(h) /\ Ancestors(h)' = Ancestors(h)
<1>m. MaxEntries \in Nat
  BY SessionLogAssumption DEF SessionLogAssumption
<1> DEFINE Good(n) == Path(n)' = Path(n) /\ Ancestors(n)' = Ancestors(n)
           Bad == {n \in 0 .. c : ~Good(n)}
<1>1. ASSUME Bad # {} PROVE FALSE
  <2>1. Bad \in SUBSET Nat
    OBVIOUS
  <2>2. PICK n \in Bad : \A k \in Bad : n <= k
    BY <1>1, <2>1, Least
  <2>3. n \in 0 .. c /\ ~Good(n) /\ n \in Ids \cup {NoId}
    BY <1>m DEF Ids, NoId
  <2>4. n \in Known' <=> n \in Known
    BY <1>m, <2>3 DEF Known, Ids
  <2>5. n \in Known
    BY <2>3, <2>4, TreeReadsNow, TreeReadsNext DEF TreeReads
  <2>6. entries'[n] = entries[n]
    BY <2>3, <2>5 DEF Known, Ids
  <2>7. PICK q \in 0 .. c : q = entries[n].parent /\ q < n /\ q \in Ids \cup {NoId}
    BY <1>m, <2>3, <2>5 DEF Rooted, Ids, NoId
  <2>8. Good(q)
    BY <2>2, <2>7
  <2>9. /\ Ancestors(n) = {n} \cup Ancestors(q)
        /\ Path(n) = IF entries[n].kind = "summary" THEN <<n>> ELSE Append(Path(q), n)
    BY <2>5, <2>7, TreeReadsNow DEF TreeReads
  <2>10. /\ Ancestors(n)' = {n} \cup Ancestors(q)'
         /\ Path(n)' = IF entries'[n].kind = "summary" THEN <<n>> ELSE Append(Path(q)', n)
    BY <2>4, <2>5, <2>6, <2>7, TreeReadsNext DEF TreeReads
  <2> QED BY <2>3, <2>6, <2>8, <2>9, <2>10
<1> QED BY <1>1

\* The equation that defines the function in Among.
AmongFrom(path, S, upTo) ==
  [n \in 0 .. Len(path) |->
     IF n = 0 THEN <<>>
     ELSE IF path[n] \in S THEN Append(upTo[n - 1], path[n])
     ELSE upTo[n - 1]]

\* The entries of a path that are in S are those up to each of its entries, and of
\* the path.
LEMMA AmongUnfold ==
  ASSUME NEW path \in Seq(Known), NEW S
  PROVE  \E upTo \in [0 .. Len(path) -> Seq(Known \cap S)] :
           /\ Among(path, S) = upTo[Len(path)]
           /\ \A n \in 0 .. Len(path) :
                upTo[n] = IF n = 0 THEN <<>>
                          ELSE IF path[n] \in S THEN Append(upTo[n - 1], path[n])
                          ELSE upTo[n - 1]
<1> DEFINE N == Len(path)
           D == 0 .. N
           V == Seq(Known \cap S)
           step(n, f) == IF n = 0 THEN <<>>
                         ELSE IF path[n] \in S THEN Append(f[n - 1], path[n])
                         ELSE f[n - 1]
           G == [n \in D |-> [f \in [D -> V] |-> step(n, f)]]
<1>1. N \in Nat /\ \A n \in D : n # 0 => path[n] \in Known /\ n - 1 \in D /\ n - 1 < n
  OBVIOUS
<1>e. <<>> \in V /\ V # {}
  <2>1. <<>> \in V
    OBVIOUS
  <2> QED BY <2>1
<1>v. \A n \in Known \cap S, s \in V : Append(s, n) \in V
  OBVIOUS
<1> HIDE DEF V
<1>g. \A n \in D, f \in [D -> V] : G[n][f] = step(n, f)
  OBVIOUS
<1> HIDE DEF N, D, G
<1>s. ASSUME NEW n \in D, NEW f, n # 0 => f[n - 1] \in V PROVE step(n, f) \in V
  BY <1>1, <1>e, <1>v, <1>s
<1>2. \A n \in D : \A f \in [D -> V] : G[n][f] \in V
  BY <1>1, <1>g, <1>s
<1>3. \A n \in D : \A f, g \in [D -> V] :
         (\A m \in D : m < n => f[m] = g[m]) => G[n][f] = G[n][g]
  <2> SUFFICES ASSUME NEW n \in D, NEW f \in [D -> V], NEW g \in [D -> V],
                      \A m \in D : m < n => f[m] = g[m]
               PROVE  G[n][f] = G[n][g]
    OBVIOUS
  <2>1. n # 0 => f[n - 1] = g[n - 1]
    BY <1>1
  <2>2. step(n, f) = step(n, g)
    BY <2>1
  <2> QED BY <1>g, <2>2
<1>4. PICK f \in [D -> V] : \A n \in D : f[n] = G[n][f]
  <2>1. RecursiveStep(G, N, V)
    BY <1>e, <1>2, <1>3 DEF D, RecursiveStep
  <2> QED BY <1>1, <2>1, Recursion DEF D
<1>5. f = AmongFrom(path, S, f)
  <2>1. \A n \in D : f[n] = step(n, f)
    BY <1>g, <1>4
  <2> HIDE DEF step
  <2>2. f = [n \in D |-> step(n, f)]
    BY <2>1
  <2> QED BY <2>2 DEF AmongFrom, step, D, N
<1> DEFINE upTo == CHOOSE f0 : f0 = AmongFrom(path, S, f0)
<1>6. upTo = AmongFrom(path, S, upTo) /\ Among(path, S) = upTo[N]
  BY <1>5 DEF Among, AmongFrom, N
<1> HIDE DEF upTo
<1>7. \A n \in D : upTo[n] = step(n, upTo)
  BY <1>6 DEF AmongFrom, D, N
<1> HIDE DEF step
<1> DEFINE Bad == {n \in D : upTo[n] \notin V}
<1>8. ASSUME Bad # {} PROVE FALSE
  <2>1. Bad \in SUBSET Nat
    BY <1>1 DEF D
  <2>2. PICK n \in Bad : \A k \in Bad : n <= k
    BY <1>8, <2>1, Least
  <2>3. n \in D /\ upTo[n] \notin V
    OBVIOUS
  <2>4. n # 0 => upTo[n - 1] \in V
    BY <1>1, <2>2, <2>3 DEF D
  <2> QED BY <1>7, <1>s, <2>3, <2>4
<1>9. upTo = [n \in D |-> upTo[n]]
  BY <1>6 DEF AmongFrom, D, N
<1>10. upTo \in [D -> V]
  BY <1>8, <1>9
<1> QED BY <1>6, <1>7, <1>10 DEF V, D, N, step

\* What is chosen of a path of the tree is of the tree.
LEMMA AmongKnown ==
  ASSUME NEW path \in Seq(Known), NEW S
  PROVE  Among(path, S) \in Seq(Known \cap S) /\ Among(path, S) \in Seq(Known)
<1>1. Among(path, S) \in Seq(Known \cap S)
  BY AmongUnfold
<1> QED BY <1>1

\* What is chosen of a path up to its p-th entry stands in the first m places, and all the
\* rest of the path after it.
SplitAt(path, S, p, m) ==
  /\ Len(Among(path, S)) = m + Len(path) - p
  /\ \A j \in 1 .. p : path[j] \in S => \E k \in 1 .. m : Among(path, S)[k] = path[j]
  /\ \A j \in p + 1 .. Len(path) : Among(path, S)[m + j - p] = path[j]

\* Where everything after the p-th entry of a path is chosen it can be split there.
LEMMA AmongSplit ==
  ASSUME NEW path \in Seq(Known), NEW S, NEW p \in 0 .. Len(path),
         \A j \in p + 1 .. Len(path) : path[j] \in S
  PROVE  \E m \in 0 .. p : SplitAt(path, S, p, m)
<1> DEFINE N == Len(path)
           V == Seq(Known \cap S)
<1>1. N \in Nat /\ p \in Nat /\ p <= N /\ \A n \in 1 .. N : path[n] \in Known
  OBVIOUS
<1>2. PICK upTo \in [0 .. N -> V] :
        /\ Among(path, S) = upTo[N]
        /\ \A n \in 0 .. N :
             upTo[n] = IF n = 0 THEN <<>>
                       ELSE IF path[n] \in S THEN Append(upTo[n - 1], path[n])
                       ELSE upTo[n - 1]
  BY AmongUnfold
<1>3. \A j \in p + 1 .. N : path[j] \in S
  OBVIOUS
<1>t. \A n \in 0 .. N : upTo[n] \in V /\ Len(upTo[n]) \in Nat
  <2>1. \A s \in V : Len(s) \in Nat
    OBVIOUS
  <2> HIDE DEF V, N
  <2> QED BY <1>2, <2>1
\* A step of the walk.
<1>s. ASSUME NEW n \in 1 .. N
      PROVE  /\ path[n] \in S =>
                  /\ Len(upTo[n]) = Len(upTo[n - 1]) + 1
                  /\ upTo[n][Len(upTo[n - 1]) + 1] = path[n]
                  /\ \A k \in 1 .. Len(upTo[n - 1]) : upTo[n][k] = upTo[n - 1][k]
             /\ path[n] \notin S => upTo[n] = upTo[n - 1]
  <2>1. n \in 0 .. N /\ n - 1 \in 0 .. N /\ n # 0
    BY <1>1
  <2>2. upTo[n] = IF path[n] \in S THEN Append(upTo[n - 1], path[n]) ELSE upTo[n - 1]
    BY <1>2, <2>1
  <2>3. CASE path[n] \in S
    <3>1. PICK s \in V : s = upTo[n - 1]
      BY <1>t, <2>1
    <3>2. upTo[n] = Append(s, path[n]) /\ path[n] \in Known \cap S
      BY <1>1, <2>2, <2>3, <3>1
    <3> QED BY <2>3, <3>1, <3>2
  <2> QED BY <2>2, <2>3
<1> HIDE DEF N, V
\* Up to p.
<1> DEFINE Before(n) == /\ Len(upTo[n]) <= n
                        /\ \A j \in 1 .. n : path[j] \in S => \E k \in 1 .. Len(upTo[n]) : upTo[n][k] = path[j]
           Wrong == {n \in 0 .. p : ~Before(n)}
<1>4. ASSUME Wrong # {} PROVE FALSE
  <2>1. Wrong \in SUBSET Nat
    BY <1>1
  <2>2. PICK n \in Wrong : \A k \in Wrong : n <= k
    BY <1>4, <2>1, Least
  <2>3. n \in 0 .. p /\ ~Before(n) /\ n \in 0 .. N
    BY <1>1
  <2>4. CASE n = 0
    <3>1. upTo[0] = <<>>
      BY <1>2, <2>3, <2>4
    <3> QED BY <2>3, <2>4, <3>1
  <2>5. CASE n # 0
    <3>1. n \in 1 .. N /\ n - 1 \in 0 .. p /\ n - 1 < n /\ n - 1 \in 0 .. N
      BY <1>1, <2>3, <2>5
    <3>2. Before(n - 1)
      BY <2>2, <3>1
    <3> DEFINE a == Len(upTo[n - 1])
               b == Len(upTo[n])
    <3>3. a \in Nat /\ b \in Nat /\ a <= n - 1
      BY <1>t, <2>3, <3>1, <3>2
    <3>4. b \in {a, a + 1} /\ \A k \in 1 .. a : upTo[n][k] = upTo[n - 1][k]
      BY <1>s, <3>1
    <3>5. \A j \in 1 .. n - 1 : path[j] \in S => \E k \in 1 .. a : upTo[n - 1][k] = path[j]
      BY <3>2
    <3> HIDE DEF a, b, Wrong
    <3>6. ASSUME NEW j \in 1 .. n, path[j] \in S PROVE \E k \in 1 .. b : upTo[n][k] = path[j]
      <4>1. CASE j = n
        <5>1. b = a + 1 /\ upTo[n][a + 1] = path[n]
          BY <1>s, <3>1, <3>6, <4>1 DEF a, b
        <5> QED BY <3>3, <4>1, <5>1
      <4>2. CASE j # n
        <5>1. j \in 1 .. n - 1
          BY <3>1, <4>2
        <5>2. PICK k \in 1 .. a : upTo[n - 1][k] = path[j]
          BY <3>5, <3>6, <5>1
        <5>3. k \in 1 .. b /\ upTo[n][k] = path[j]
          BY <3>3, <3>4, <5>2
        <5> QED BY <5>3
      <4> QED BY <4>1, <4>2
    <3>7. b <= n
      BY <3>1, <3>3, <3>4
    <3> QED BY <2>3, <3>6, <3>7 DEF b
  <2> QED BY <2>4, <2>5
<1>5. Before(p) /\ p \in 0 .. N
  <2>1. p \in 0 .. p /\ p \in 0 .. N
    BY <1>1
  <2> QED BY <1>4, <2>1
<1> DEFINE m == Len(upTo[p])
<1>6. m \in 0 .. p
  BY <1>1, <1>5, <1>t
\* After p.
<1> DEFINE After(n) == /\ Len(upTo[n]) = m + n - p
                       /\ \A k \in 1 .. m : upTo[n][k] = upTo[p][k]
                       /\ \A j \in p + 1 .. n : upTo[n][m + j - p] = path[j]
           Amiss == {n \in p .. N : ~After(n)}
<1> HIDE DEF Before, Wrong, m
<1>7. ASSUME Amiss # {} PROVE FALSE
  <2>1. Amiss \in SUBSET Nat
    BY <1>1
  <2>2. PICK n \in Amiss : \A k \in Amiss : n <= k
    BY <1>7, <2>1, Least
  <2>3. n \in p .. N /\ ~After(n) /\ n \in 0 .. N
    BY <1>1
  <2>4. CASE n = p
    BY <1>1, <1>6, <2>3, <2>4 DEF m
  <2>5. CASE n # p
    <3>1. n \in 1 .. N /\ n - 1 \in p .. N /\ n - 1 < n /\ n \in p + 1 .. N
      BY <1>1, <2>3, <2>5
    <3>2. After(n - 1)
      BY <2>2, <3>1
    <3> DEFINE a == Len(upTo[n - 1])
    <3>3. a = m + (n - 1) - p /\ a + 1 = m + n - p /\ a \in Nat /\ m <= a
      BY <1>1, <1>6, <3>1, <3>2
    <3>4. /\ Len(upTo[n]) = a + 1 /\ upTo[n][a + 1] = path[n]
          /\ \A k \in 1 .. a : upTo[n][k] = upTo[n - 1][k]
      BY <1>3, <1>s, <3>1
    <3>5. /\ \A k \in 1 .. m : upTo[n - 1][k] = upTo[p][k]
          /\ \A j \in p + 1 .. n - 1 : upTo[n - 1][m + j - p] = path[j]
      BY <3>2
    <3> HIDE DEF a, Amiss
    <3>6. \A k \in 1 .. m : upTo[n][k] = upTo[p][k]
      <4> TAKE k \in 1 .. m
      <4>1. k \in 1 .. a
        BY <1>6, <3>3
      <4> QED BY <3>4, <3>5, <4>1
    <3>7. ASSUME NEW j \in p + 1 .. n PROVE upTo[n][m + j - p] = path[j]
      <4>1. CASE j = n
        BY <3>3, <3>4, <4>1
      <4>2. CASE j # n
        <5>1. j \in p + 1 .. n - 1 /\ m + j - p \in 1 .. a
          BY <1>1, <1>6, <3>1, <3>3, <4>2
        <5> QED BY <3>4, <3>5, <5>1
      <4> QED BY <4>1, <4>2
    <3> QED BY <2>3, <3>3, <3>4, <3>6, <3>7
  <2> QED BY <2>4, <2>5
<1>8. After(N)
  <2>1. N \in p .. N
    BY <1>1
  <2> QED BY <1>7, <2>1
<1>9. \A j \in 1 .. p : path[j] \in S => \E k \in 1 .. m : upTo[N][k] = path[j]
  BY <1>5, <1>8 DEF Before, m
<1> QED BY <1>2, <1>6, <1>8, <1>9 DEF N, SplitAt

------------------------------------------------------------------------------
(* The file and the buffer.                                                *)

\* The lines of session.jsonl and of runs.jsonl.
SessionLine == [type : {"entry"}, id : Ids, entry : Entry] \cup [type : {"head"}, id : Ids]
RunLine == [type : {"run"}, id : Tasks, status : {"running", "done", "error", "aborted"}]

\* Line l is among the lines s.
On(s, l) == \E n \in DOMAIN s : s[n] = l
\* Entry e has id i in the file, or in the lines still to be written to it.
OnFile(i, e)   == On(log, EntryLine(i, e))
Buffered(i, e) == On(buffer, EntryLine(i, e))
Recorded(i, e) == OnFile(i, e) \/ Buffered(i, e)

\* What the log consists of.
LogShape ==
  /\ log \in Seq(SessionLine) /\ fragment = FALSE
  /\ buffer \in Seq(SessionLine \cup RunLine)
  /\ entries \in [Ids -> Entry \cup {NoEntry}]
  /\ created \in 0 .. MaxEntries /\ head \in 0 .. created /\ up \in BOOLEAN

\* An entry is older than its id's successor, and its parent and content no younger
\* than itself.
Ordered ==
  /\ \A i \in Ids, e \in Entry : Recorded(i, e) => i <= created /\ e.parent < i /\ e.msg <= i
  /\ \A i \in Ids : On(log, HeadLine(i)) \/ On(buffer, HeadLine(i)) => i <= created

\* No two lines of the file give one id to two entries.
OneLine == \A i \in Ids, e \in Entry, f \in Entry : OnFile(i, e) /\ OnFile(i, f) => e = f

\* The entries in memory are those on file or about to be.
Mirrored ==
  /\ up => \A i \in Ids, e \in Entry : entries[i] = e <=> Recorded(i, e)
  /\ ~up => buffer = <<>> /\ \A i \in Ids : entries[i] = NoEntry

\* The inductive invariant of the log.
LogInv == LogShape /\ Ordered /\ OneLine /\ Mirrored

\* The empty slot is no entry.
LEMMA NoEntryIsNone == NoEntry \notin Entry
BY DEF NoEntry, Entry, Kinds

\* A line is among those with one appended if it was, or is that one.
LEMMA OnAppend ==
  ASSUME NEW S, NEW s \in Seq(S), NEW x \in S, NEW l
  PROVE  On(Append(s, x), l) <=> On(s, l) \/ l = x
<1>1. /\ DOMAIN Append(s, x) = 1 .. Len(s) + 1 /\ DOMAIN s = 1 .. Len(s) /\ Len(s) \in Nat
      /\ \A n \in 1 .. Len(s) : Append(s, x)[n] = s[n]
      /\ Append(s, x)[Len(s) + 1] = x
  OBVIOUS
<1> QED BY <1>1 DEF On

\* A line is among some lines if it is the first or among the others.
LEMMA OnTail ==
  ASSUME NEW S, NEW s \in Seq(S), s # <<>>, NEW l
  PROVE  On(s, l) <=> On(Tail(s), l) \/ l = Head(s)
<1>1. /\ DOMAIN s = 1 .. Len(s) /\ DOMAIN Tail(s) = 1 .. Len(s) - 1 /\ Len(s) \in Nat \ {0}
      /\ \A n \in 1 .. Len(s) - 1 : Tail(s)[n] = s[n + 1]
      /\ Head(s) = s[1]
  OBVIOUS
<1>2. ASSUME On(s, l) PROVE On(Tail(s), l) \/ l = Head(s)
  <2>1. PICK n \in 1 .. Len(s) : s[n] = l
    BY <1>1, <1>2 DEF On
  <2>2. CASE n # 1
    <3>1. n - 1 \in 1 .. Len(s) - 1 /\ Tail(s)[n - 1] = l
      BY <1>1, <2>1, <2>2
    <3> QED BY <1>1, <3>1 DEF On
  <2> QED BY <1>1, <2>1, <2>2
<1>3. ASSUME On(Tail(s), l) \/ l = Head(s) PROVE On(s, l)
  <2>1. \A n \in 1 .. Len(s) - 1 : n + 1 \in 1 .. Len(s)
    BY <1>1
  <2> QED BY <1>1, <1>3, <2>1 DEF On
<1> QED BY <1>2, <1>3

\* No line is among none.
LEMMA OnNothing == ASSUME NEW l PROVE ~On(<<>>, l)
BY DEF On

\* A line goes to its file: nothing is recorded that was not, nothing is lost.
LEMMA FlushKeeps ==
  ASSUME LogInv, Flush \/ FlushRun
  PROVE  /\ LogInv'
         /\ \A i \in Ids, e \in Entry : Recorded(i, e)' <=> Recorded(i, e)
         /\ \A i \in Ids, e \in Entry : OnFile(i, e) => OnFile(i, e)'
<1> DEFINE l == Head(buffer)
<1>1. /\ up /\ buffer # <<>> /\ buffer' = Tail(buffer) /\ fragment' = fragment
      /\ IF l.type = "run" THEN log' = log ELSE log' = Append(log, l)
      /\ UNCHANGED <<entries, head, created, up>>
  BY DEF Flush, FlushRun, Written, LogInv, LogShape
<1>2. /\ l \in SessionLine \cup RunLine /\ buffer' \in Seq(SessionLine \cup RunLine)
      /\ l.type # "run" => l \in SessionLine
  <2>1. l \in SessionLine \cup RunLine /\ Tail(buffer) \in Seq(SessionLine \cup RunLine)
    BY <1>1 DEF LogInv, LogShape
  <2> QED BY <1>1, <2>1 DEF RunLine
<1>3. LogShape'
  BY <1>1, <1>2, SMTT(20) DEF LogInv, LogShape
<1>4. ASSUME NEW x PROVE On(buffer, x) <=> On(buffer', x) \/ x = l
  BY <1>1, OnTail DEF LogInv, LogShape
<1>5. ASSUME NEW x PROVE /\ l.type = "run" => (On(log', x) <=> On(log, x))
                         /\ l.type # "run" => (On(log', x) <=> On(log, x) \/ x = l)
  <2>1. CASE l.type = "run"
    BY <1>1, <2>1
  <2>2. CASE l.type # "run"
    <3>1. log' = Append(log, l) /\ l \in SessionLine /\ log \in Seq(SessionLine)
      BY <1>1, <1>2, <2>2 DEF LogInv, LogShape
    <3> QED BY <2>2, <3>1, OnAppend
  <2> QED BY <2>1, <2>2
<1>6. ASSUME NEW x, x.type # "run"
      PROVE  /\ On(log', x) \/ On(buffer', x) <=> On(log, x) \/ On(buffer, x)
             /\ On(log, x) => On(log', x)
  BY <1>4, <1>5, <1>6
<1>7. \A i, e : EntryLine(i, e).type # "run" /\ HeadLine(i).type # "run"
  BY DEF EntryLine, HeadLine
<1>8. /\ \A i \in Ids, e \in Entry : Recorded(i, e)' <=> Recorded(i, e)
      /\ \A i \in Ids, e \in Entry : OnFile(i, e) => OnFile(i, e)'
  BY <1>6, <1>7 DEF Recorded, OnFile, Buffered
<1>9. Ordered'
  <2>1. \A i \in Ids : On(log', HeadLine(i)) \/ On(buffer', HeadLine(i)) => i <= created
    BY <1>6, <1>7 DEF LogInv, Ordered
  <2> QED BY <1>1, <1>8, <2>1 DEF LogInv, Ordered, Recorded, OnFile, Buffered
<1>10. Mirrored'
  <2>1. up /\ up' /\ entries' = entries
    BY <1>1 DEF LogInv, LogShape
  <2>2. \A i \in Ids, e \in Entry : entries[i] = e <=> Recorded(i, e)
    BY <2>1 DEF LogInv, Mirrored
  <2>3. \A i \in Ids, e \in Entry : entries[i]' = e <=> Recorded(i, e)'
    BY <1>8, <2>1, <2>2
  <2> QED BY <2>1, <2>3 DEF Mirrored
<1>11. OneLine'
  <2> SUFFICES ASSUME NEW i \in Ids, NEW e \in Entry, NEW f \in Entry, OnFile(i, e)', OnFile(i, f)'
               PROVE  e = f
    BY DEF OneLine, OnFile
  <2>1. Recorded(i, e) /\ Recorded(i, f)
    BY <1>8 DEF Recorded, OnFile, Buffered
  <2> QED BY <1>1, <2>1 DEF LogInv, Mirrored
<1> QED BY <1>3, <1>8, <1>9, <1>10, <1>11 DEF LogInv

\* A line on file is that of an entry or that of a head.
LEMMA LineForm ==
  ASSUME LogInv, NEW n \in DOMAIN log
  PROVE  \/ log[n].type = "entry" /\ log[n].id \in Ids /\ log[n].entry \in Entry
            /\ log[n] = EntryLine(log[n].id, log[n].entry)
         \/ log[n].type = "head" /\ log[n].id \in Ids /\ log[n] = HeadLine(log[n].id)
<1>1. log[n] \in SessionLine
  BY DEF LogInv, LogShape
<1> QED BY <1>1 DEF SessionLine, EntryLine, HeadLine

\* What can be read from a line.
LEMMA LineParts ==
  ASSUME NEW i, NEW e
  PROVE  /\ EntryLine(i, e).type = "entry" /\ EntryLine(i, e).id = i /\ EntryLine(i, e).entry = e
         /\ HeadLine(i).type = "head" /\ HeadLine(i).id = i
BY DEF EntryLine, HeadLine

\* What fold makes of the file: its entries, one for each id.
LEMMA FoldIsFile ==
  ASSUME LogInv
  PROVE  /\ FoldEntries \in [Ids -> Entry \cup {NoEntry}]
         /\ \A i \in Ids, e \in Entry : FoldEntries[i] = e <=> OnFile(i, e)
<1> DEFINE L == LinesOf("entry")
           line(i) == CHOOSE n \in L : log[n].id = i
<1>1. \A n \in L : n \in DOMAIN log /\ log[n].type = "entry"
  BY DEF LinesOf
<1>2. ASSUME NEW i \in Ids, NEW e \in Entry
      PROVE  OnFile(i, e) <=> \E n \in L : log[n].id = i /\ log[n].entry = e
  <2>1. ASSUME OnFile(i, e) PROVE \E n \in L : log[n].id = i /\ log[n].entry = e
    <3>1. PICK n \in DOMAIN log : log[n] = EntryLine(i, e)
      BY <2>1 DEF OnFile, On
    <3> QED BY <3>1, LineParts DEF LinesOf
  <2>2. ASSUME NEW n \in L, log[n].id = i, log[n].entry = e PROVE OnFile(i, e)
    <3>1. log[n] = EntryLine(i, e)
      BY <1>1, <2>2, LineForm
    <3> QED BY <1>1, <3>1 DEF OnFile, On
  <2> QED BY <2>1, <2>2
<1>3. ASSUME NEW n \in L PROVE log[n].id \in Ids /\ log[n].entry \in Entry
  BY <1>1, LineForm
<1>4. ASSUME NEW i \in Ids
      PROVE  /\ FoldEntries[i] \in Entry \cup {NoEntry}
             /\ \A e \in Entry : FoldEntries[i] = e <=> OnFile(i, e)
  <2>1. FoldEntries[i] = IF \E n \in L : log[n].id = i THEN log[line(i)].entry ELSE NoEntry
    BY DEF FoldEntries
  <2>2. CASE \E n \in L : log[n].id = i
    <3>1. line(i) \in L /\ log[line(i)].id = i
      BY <2>2
    <3> DEFINE f == log[line(i)].entry
    <3>2. f \in Entry /\ FoldEntries[i] = f /\ OnFile(i, f)
      BY <1>2, <1>3, <2>1, <2>2, <3>1
    <3> HIDE DEF f, line
    <3> QED BY <3>2 DEF LogInv, OneLine
  <2>3. CASE ~\E n \in L : log[n].id = i
    BY <1>2, <2>1, <2>3, NoEntryIsNone
  <2> QED BY <2>2, <2>3
<1>5. FoldEntries = [i \in Ids |-> FoldEntries[i]]
  BY DEF FoldEntries
<1> QED BY <1>4, <1>5

\* The head it reads is an id handed out before.
LEMMA FoldHeadFits == ASSUME LogInv PROVE FoldHead \in 0 .. created
<1> DEFINE L == LinesOf("entry") \cup LinesOf("head")
           last == CHOOSE n \in L : \A m \in L : m <= n
<1>1. CASE L = {}
  BY <1>1 DEF FoldHead, NoId, LogInv, LogShape
<1>2. CASE L # {}
  <2>1. Len(log) \in Nat /\ DOMAIN log = 1 .. Len(log) /\ L \subseteq DOMAIN log
    BY DEF LogInv, LogShape, LinesOf
  <2> DEFINE R == {Len(log) - n : n \in L}
  <2>2. R \in SUBSET Nat /\ R # {}
    BY <1>2, <2>1
  <2>3. PICK r \in R : \A k \in R : r <= k
    BY <2>2, Least
  <2>4. PICK n \in L : r = Len(log) - n
    OBVIOUS
  <2>5. \A m \in L : m <= n
    <3> TAKE m \in L
    <3>1. r <= Len(log) - m
      BY <2>3
    <3> QED BY <2>1, <2>4, <3>1
  <2>6. last \in L
    BY <2>5
  <2> HIDE DEF last
  <2>7. log[last].id \in Ids /\ log[last].id <= created
    <3>1. last \in DOMAIN log
      BY <2>1, <2>6
    <3>2. CASE log[last].type = "entry"
      <4>1. Recorded(log[last].id, log[last].entry) /\ log[last].id \in Ids /\ log[last].entry \in Entry
        BY <3>1, <3>2, LineForm DEF Recorded, OnFile, On
      <4> QED BY <4>1 DEF LogInv, Ordered
    <3>3. CASE log[last].type # "entry"
      <4>1. log[last].id \in Ids /\ On(log, HeadLine(log[last].id))
        BY <3>1, <3>3, LineForm DEF On
      <4> QED BY <4>1 DEF LogInv, Ordered
    <3> QED BY <3>2, <3>3
  <2>8. FoldHead = log[last].id
    BY <1>2 DEF FoldHead, last
  <2> QED BY <2>7, <2>8 DEF Ids, LogInv, LogShape
<1> QED BY <1>1, <1>2

\* With nothing left to write, memory and file agree.
LEMMA LogSurvives == ASSUME LogInv PROVE EntriesSurvive
<1> SUFFICES ASSUME Ready PROVE entries = FoldEntries
  BY DEF EntriesSurvive
<1>1. up /\ \A l : ~On(buffer, l)
  BY OnNothing DEF Ready
<1>2. \A i \in Ids, e \in Entry : entries[i] = e <=> FoldEntries[i] = e
  BY <1>1, FoldIsFile DEF LogInv, Mirrored, Recorded, Buffered
<1>3. \A i \in Ids : entries[i] = FoldEntries[i]
  BY <1>2, FoldIsFile DEF LogInv, LogShape
<1>4. entries = [i \in Ids |-> entries[i]]
  BY DEF LogInv, LogShape
<1>5. FoldEntries = [i \in Ids |-> FoldEntries[i]]
  BY FoldIsFile
<1> HIDE DEF EntriesSurvive
<1>6. [i \in Ids |-> entries[i]] = [i \in Ids |-> FoldEntries[i]]
  BY <1>3
<1> QED BY <1>4, <1>5, <1>6

\* A line is among two lots of lines if it is in one of them.
LEMMA OnConcat ==
  ASSUME NEW S, NEW s \in Seq(S), NEW t \in Seq(S), NEW l
  PROVE  On(s \o t, l) <=> On(s, l) \/ On(t, l)
<1>1. /\ DOMAIN s = 1 .. Len(s) /\ DOMAIN t = 1 .. Len(t) /\ Len(s) \in Nat /\ Len(t) \in Nat
      /\ DOMAIN (s \o t) = 1 .. Len(s) + Len(t)
      /\ \A n \in 1 .. Len(s) : (s \o t)[n] = s[n]
      /\ \A n \in 1 .. Len(t) : (s \o t)[Len(s) + n] = t[n]
  OBVIOUS
<1>2. \A n \in 1 .. Len(s) + Len(t) : n \in 1 .. Len(s) \/ \E m \in 1 .. Len(t) : n = Len(s) + m
  <2> TAKE n \in 1 .. Len(s) + Len(t)
  <2>1. CASE n > Len(s)
    <3>1. n - Len(s) \in 1 .. Len(t) /\ n = Len(s) + (n - Len(s))
      BY <1>1, <2>1
    <3> QED BY <3>1
  <2> QED BY <1>1, <2>1
<1>3. ASSUME On(s \o t, l) PROVE On(s, l) \/ On(t, l)
  BY <1>1, <1>2, <1>3, SMTT(20) DEF On
<1>4. ASSUME On(s, l) \/ On(t, l) PROVE On(s \o t, l)
  <2>1. \A n \in 1 .. Len(t) : Len(s) + n \in 1 .. Len(s) + Len(t)
    BY <1>1
  <2>2. \A n \in 1 .. Len(s) : n \in 1 .. Len(s) + Len(t)
    BY <1>1
  <2> QED BY <1>1, <1>4, <2>1, <2>2 DEF On
<1> QED BY <1>3, <1>4

\* What AppendAll writes: an entry line and a head line for each new entry.
LEMMA AppendKeeps ==
  ASSUME LogInv, MaxEntries \in Nat \ {0}, NEW es \in Seq(Entry), NEW after \in Seq(RunLine),
         AppendAll(es, after), \A k \in 1 .. Len(es) : es[k].msg <= created + k
  PROVE  /\ LogInv'
         /\ \A i \in Ids, e \in Entry :
              Recorded(i, e)' <=> (Recorded(i, e) \/ (i \in created + 1 .. created + Len(es) /\ e = Placed(es)[i - created]))
         /\ \A i \in Ids, e \in Entry : OnFile(i, e)' <=> OnFile(i, e)
<1> DEFINE n == Len(es)
           p == Placed(es)
           line(k) == IF k % 2 = 1 THEN EntryLine(created + (k + 1) \div 2, p[(k + 1) \div 2])
                      ELSE HeadLine(created + k \div 2)
           B == [k \in 1 .. 2 * n |-> line(k)]
<1>1. /\ n \in Nat /\ created \in Nat /\ created + n <= MaxEntries /\ head \in 0 .. created
      /\ up /\ up' /\ buffer = <<>> /\ buffer' = B \o after
      /\ created' = created + n /\ UNCHANGED <<log, fragment, up>>
      /\ head' = IF n = 0 THEN head ELSE created + n
      /\ entries' = [i \in Ids |-> IF i \in created + 1 .. created + n THEN p[i - created] ELSE entries[i]]
  BY DEF AppendAll, Room, Ready, LogInv, LogShape
<1>2. ASSUME NEW k \in 1 .. n
      PROVE  p[k] \in Entry /\ p[k].parent < created + k /\ p[k].msg <= created + k
  <2>1. k \in DOMAIN es /\ es[k] \in Entry /\ es[k].msg <= created + k
    BY <1>1
  <2> DEFINE d == IF k = 1 THEN head ELSE created + k - 1
  <2>2. p[k] = [es[k] EXCEPT !.parent = d]
    BY <2>1 DEF Placed
  <2>3. d \in Ids \cup {NoId} /\ d < created + k
    BY <1>1 DEF Ids, NoId
  <2> HIDE DEF d
  <2> QED BY <2>1, <2>2, <2>3 DEF Entry
<1> HIDE DEF p
<1>3. ASSUME NEW j \in 1 .. n
      PROVE  /\ 2 * j - 1 \in 1 .. 2 * n /\ (2 * j - 1) % 2 = 1 /\ (2 * j - 1 + 1) \div 2 = j
             /\ 2 * j \in 1 .. 2 * n /\ (2 * j) % 2 # 1 /\ (2 * j) \div 2 = j
  BY <1>1
<1>4. ASSUME NEW k \in 1 .. 2 * n
      PROVE  /\ k % 2 = 1 => (k + 1) \div 2 \in 1 .. n
             /\ k % 2 # 1 => k \div 2 \in 1 .. n
  BY <1>1
<1>5. ASSUME NEW j \in 1 .. n
      PROVE  /\ created + j \in Ids
             /\ EntryLine(created + j, p[j]) \in SessionLine /\ HeadLine(created + j) \in SessionLine
  <2>1. created + j \in Ids
    BY <1>1 DEF Ids
  <2> QED BY <1>2, <2>1 DEF EntryLine, HeadLine, SessionLine
<1>6. \A k \in 1 .. 2 * n : line(k) \in SessionLine
  BY <1>4, <1>5
<1>7. ASSUME NEW l PROVE On(B, l) <=> \E j \in 1 .. n : l = EntryLine(created + j, p[j]) \/ l = HeadLine(created + j)
  <2>0. DOMAIN B = 1 .. 2 * n /\ \A k \in 1 .. 2 * n : B[k] = line(k)
    OBVIOUS
  <2>1. ASSUME NEW k \in 1 .. 2 * n PROVE \E j \in 1 .. n : line(k) = EntryLine(created + j, p[j]) \/ line(k) = HeadLine(created + j)
    BY <1>4
  <2>2. ASSUME NEW j \in 1 .. n PROVE On(B, EntryLine(created + j, p[j])) /\ On(B, HeadLine(created + j))
    <3>1. B[2 * j - 1] = EntryLine(created + j, p[j]) /\ B[2 * j] = HeadLine(created + j)
      BY <1>3, <2>0
    <3> HIDE DEF B
    <3> QED BY <1>3, <2>0, <3>1 DEF On
  <2> HIDE DEF B, line
  <2>3. ASSUME On(B, l) PROVE \E j \in 1 .. n : l = EntryLine(created + j, p[j]) \/ l = HeadLine(created + j)
    BY <2>0, <2>1, <2>3 DEF On
  <2> QED BY <2>2, <2>3
<1>8. B \in Seq(SessionLine) /\ 2 * n \in Nat
  BY <1>1, <1>6
<1>9. ASSUME NEW l PROVE On(buffer', l) <=> On(B, l) \/ On(after, l)
  <2>1. B \in Seq(SessionLine \cup RunLine) /\ after \in Seq(SessionLine \cup RunLine)
    BY <1>8
  <2> HIDE DEF B
  <2> QED BY <1>1, <2>1, OnConcat
<1>10. LogShape'
  <2>1. buffer' \in Seq(SessionLine \cup RunLine)
    <3>1. B \in Seq(SessionLine \cup RunLine) /\ after \in Seq(SessionLine \cup RunLine)
      BY <1>8
    <3> HIDE DEF B
    <3> QED BY <1>1, <3>1
  <2>2. entries' \in [Ids -> Entry \cup {NoEntry}]
    <3>1. \A i \in created + 1 .. created + n : p[i - created] \in Entry
      BY <1>1, <1>2
    <3>2. \A i \in Ids : entries[i] \in Entry \cup {NoEntry}
      BY DEF LogInv, LogShape
    <3> QED BY <1>1, <3>1, <3>2
  <2>3. created' \in 0 .. MaxEntries /\ head' \in 0 .. created'
    BY <1>1
  <2> QED BY <1>1, <2>1, <2>2, <2>3 DEF LogInv, LogShape
<1> HIDE DEF B, line
<1>11. ASSUME NEW l, On(after, l) PROVE l.type = "run"
  <2>1. PICK k \in DOMAIN after : after[k] = l
    BY <1>11 DEF On
  <2>2. l \in RunLine
    BY <2>1
  <2> QED BY <2>2 DEF RunLine
<1>12. ASSUME NEW i \in Ids, NEW e \in Entry
       PROVE  Buffered(i, e)' <=> i \in created + 1 .. created + n /\ e = p[i - created]
  <2>1. Buffered(i, e)' <=> \E j \in 1 .. n : EntryLine(i, e) = EntryLine(created + j, p[j]) \/ EntryLine(i, e) = HeadLine(created + j)
    BY <1>7, <1>9, <1>11, LineParts DEF Buffered
  <2>2. \A j \in 1 .. n : EntryLine(i, e) # HeadLine(created + j)
    BY DEF EntryLine, HeadLine
  <2>3. \A j \in 1 .. n : EntryLine(i, e) = EntryLine(created + j, p[j]) <=> i = created + j /\ e = p[j]
    BY LineParts
  <2>4. Buffered(i, e)' <=> \E j \in 1 .. n : i = created + j /\ e = p[j]
    BY <2>1, <2>2, <2>3
  <2>5. i \in created + 1 .. created + n => i - created \in 1 .. n /\ i = created + (i - created)
    BY <1>1 DEF Ids
  <2>6. \A j \in 1 .. n : i = created + j => i \in created + 1 .. created + n /\ i - created = j
    BY <1>1 DEF Ids
  <2> QED BY <2>4, <2>5, <2>6
<1>13. ASSUME NEW i \in Ids, NEW e \in Entry PROVE OnFile(i, e)' <=> OnFile(i, e)
  BY <1>1 DEF OnFile
<1>14. ASSUME NEW i \in Ids, NEW e \in Entry PROVE ~Buffered(i, e) /\ (Recorded(i, e) => OnFile(i, e))
  BY <1>1, OnNothing DEF Buffered, Recorded
<1>15. ASSUME NEW i \in Ids, NEW e \in Entry
       PROVE  Recorded(i, e)' <=> Recorded(i, e) \/ (i \in created + 1 .. created + n /\ e = p[i - created])
  BY <1>12, <1>13, <1>14 DEF Recorded
<1>16. Ordered'
  <2>1. ASSUME NEW i \in Ids, NEW e \in Entry, Recorded(i, e)' PROVE i <= created' /\ e.parent < i /\ e.msg <= i
    <3>1. CASE Recorded(i, e)
      BY <1>1, <3>1 DEF LogInv, Ordered, Ids
    <3>2. CASE i \in created + 1 .. created + n /\ e = p[i - created]
      <4>1. i - created \in 1 .. n /\ created + (i - created) = i
        BY <1>1, <3>2
      <4>2. p[i - created].parent < created + (i - created) /\ p[i - created].msg <= created + (i - created)
        BY <1>2, <4>1
      <4>3. i <= created'
        BY <1>1, <3>2
      <4> QED BY <3>2, <4>1, <4>2, <4>3
    <3> QED BY <1>15, <2>1, <3>1, <3>2
  <2>2. ASSUME NEW i \in Ids, On(log', HeadLine(i)) \/ On(buffer', HeadLine(i)) PROVE i <= created'
    <3>1. CASE On(log, HeadLine(i))
      BY <1>1, <3>1 DEF LogInv, Ordered, Ids
    <3>2. CASE On(buffer', HeadLine(i))
      <4>1. PICK j \in 1 .. n : HeadLine(i) = EntryLine(created + j, p[j]) \/ HeadLine(i) = HeadLine(created + j)
        BY <1>7, <1>9, <1>11, <3>2, LineParts
      <4>2. i = created + j
        BY <4>1, LineParts
      <4> QED BY <1>1, <4>2
    <3> QED BY <1>1, <2>2, <3>1, <3>2
  <2> QED BY <2>1, <2>2 DEF Ordered
<1>17. OneLine'
  BY <1>13 DEF LogInv, OneLine
<1>18. Mirrored'
  <2>1. ASSUME NEW i \in Ids, NEW e \in Entry PROVE entries'[i] = e <=> Recorded(i, e)'
    <3>1. entries[i] = e <=> Recorded(i, e)
      BY <1>1 DEF LogInv, Mirrored
    <3>2. Recorded(i, e) => i <= created
      BY DEF LogInv, Ordered
    <3>3. CASE i \in created + 1 .. created + n
      <4>1. entries'[i] = p[i - created] /\ ~(i <= created)
        BY <1>1, <3>3
      <4> QED BY <1>15, <3>2, <3>3, <4>1
    <3>4. CASE i \notin created + 1 .. created + n
      <4>1. entries'[i] = entries[i]
        BY <1>1, <3>4
      <4> QED BY <1>15, <3>1, <3>4, <4>1
    <3> QED BY <3>3, <3>4
  <2> QED BY <1>1, <2>1 DEF Mirrored
<1>19. LogInv'
  BY <1>10, <1>16, <1>17, <1>18 DEF LogInv
<1>20. \A i \in Ids, e \in Entry :
         Recorded(i, e)' <=> (Recorded(i, e) \/ (i \in created + 1 .. created + Len(es) /\ e = Placed(es)[i - created]))
  BY <1>15 DEF p
<1> QED BY <1>13, <1>19, <1>20

\* An entry set aside is recorded, and the head stays.
LEMMA AsideKeeps ==
  ASSUME LogInv, MaxEntries \in Nat \ {0}, NEW e0 \in Entry, AppendAside(e0),
         e0.parent <= created, e0.msg <= created + 1
  PROVE  /\ LogInv'
         /\ \A i \in Ids, e \in Entry : Recorded(i, e)' <=> (Recorded(i, e) \/ (i = created + 1 /\ e = e0))
         /\ \A i \in Ids, e \in Entry : OnFile(i, e)' <=> OnFile(i, e)
<1> DEFINE c == created + 1
<1>1. /\ created \in Nat /\ c <= MaxEntries /\ head \in 0 .. created
      /\ up /\ up' /\ buffer = <<>> /\ buffer' = <<EntryLine(c, e0)>>
      /\ created' = c /\ UNCHANGED <<log, fragment, head, up>>
      /\ entries' = [entries EXCEPT ![c] = e0]
  BY DEF AppendAside, Room, Ready, LogInv, LogShape
<1>2. c \in Ids /\ EntryLine(c, e0) \in SessionLine
  <2>1. c \in Ids
    BY <1>1 DEF Ids
  <2> QED BY <2>1 DEF EntryLine, SessionLine
<1>3. ASSUME NEW l PROVE On(buffer', l) <=> l = EntryLine(c, e0)
  <2>1. On(<<EntryLine(c, e0)>>, l) <=> l = EntryLine(c, e0)
    BY DEF On
  <2> QED BY <1>1, <2>1
<1>4. LogShape'
  <2>1. buffer' \in Seq(SessionLine \cup RunLine)
    BY <1>1, <1>2
  <2>2. entries' \in [Ids -> Entry \cup {NoEntry}]
    BY <1>1, <1>2 DEF LogInv, LogShape
  <2>3. created' \in 0 .. MaxEntries /\ head' \in 0 .. created'
    BY <1>1
  <2> QED BY <1>1, <2>1, <2>2, <2>3 DEF LogInv, LogShape
<1>5. ASSUME NEW i \in Ids, NEW e \in Entry
      PROVE  /\ OnFile(i, e)' <=> OnFile(i, e)
             /\ Recorded(i, e) <=> OnFile(i, e)
             /\ Recorded(i, e)' <=> (Recorded(i, e) \/ (i = c /\ e = e0))
  <2>1. Buffered(i, e)' <=> (i = c /\ e = e0)
    BY <1>3, LineParts DEF Buffered
  <2>2. ~Buffered(i, e)
    BY <1>1, OnNothing DEF Buffered
  <2>3. OnFile(i, e)' <=> OnFile(i, e)
    BY <1>1 DEF OnFile
  <2> QED BY <2>1, <2>2, <2>3 DEF Recorded
<1>6. Ordered'
  <2>1. ASSUME NEW i \in Ids, NEW e \in Entry, Recorded(i, e)' PROVE i <= created' /\ e.parent < i /\ e.msg <= i
    <3>1. CASE Recorded(i, e)
      BY <1>1, <3>1 DEF LogInv, Ordered, Ids
    <3>2. CASE i = c /\ e = e0
      <4>1. e0.parent \in Nat
        BY DEF Entry, Ids, NoId
      <4> QED BY <1>1, <3>2, <4>1
    <3> QED BY <1>5, <2>1, <3>1, <3>2
  <2>2. ASSUME NEW i \in Ids, On(log', HeadLine(i)) \/ On(buffer', HeadLine(i)) PROVE i <= created'
    <3>1. HeadLine(i) # EntryLine(c, e0)
      BY DEF HeadLine, EntryLine
    <3>2. On(log, HeadLine(i))
      BY <1>1, <1>3, <2>2, <3>1
    <3> QED BY <1>1, <3>2 DEF LogInv, Ordered, Ids
  <2> QED BY <2>1, <2>2 DEF Ordered
<1>7. OneLine'
  BY <1>5 DEF LogInv, OneLine
<1>8. Mirrored'
  <2>1. ASSUME NEW i \in Ids, NEW e \in Entry PROVE entries'[i] = e <=> Recorded(i, e)'
    <3>1. entries[i] = e <=> Recorded(i, e)
      BY <1>1 DEF LogInv, Mirrored
    <3>2. Recorded(i, e) => i <= created
      BY DEF LogInv, Ordered
    <3>3. entries'[i] = IF i = c THEN e0 ELSE entries[i]
      BY <1>1, <1>2 DEF LogInv, LogShape
    <3>4. CASE i = c
      BY <1>1, <1>5, <3>2, <3>3, <3>4
    <3>5. CASE i # c
      BY <1>5, <3>1, <3>3, <3>5
    <3> QED BY <3>4, <3>5
  <2> QED BY <1>1, <2>1 DEF Mirrored
<1>9. LogInv'
  BY <1>4, <1>6, <1>7, <1>8 DEF LogInv
<1> QED BY <1>5, <1>9

\* Moving the head records no entry.
LEMMA MoveKeeps ==
  ASSUME LogInv, NEW h \in Ids, MoveHead(h)
  PROVE  /\ LogInv'
         /\ \A i \in Ids, e \in Entry : Recorded(i, e)' <=> Recorded(i, e)
         /\ \A i \in Ids, e \in Entry : OnFile(i, e)' <=> OnFile(i, e)
<1>1. /\ up /\ up' /\ buffer = <<>> /\ buffer' = <<HeadLine(h)>> /\ head' = h /\ h \in Known
      /\ UNCHANGED <<log, fragment, entries, created, up>>
  BY DEF MoveHead, Ready, LogInv, LogShape
<1>2. h \in Nat /\ h <= created
  <2>1. entries[h] \in Entry
    BY <1>1 DEF LogInv, LogShape, Known
  <2>2. Recorded(h, entries[h])
    BY <1>1, <2>1 DEF LogInv, Mirrored
  <2> QED BY <2>1, <2>2 DEF LogInv, Ordered, Ids
<1>3. ASSUME NEW l PROVE On(buffer', l) <=> l = HeadLine(h)
  <2>1. On(<<HeadLine(h)>>, l) <=> l = HeadLine(h)
    BY DEF On
  <2> QED BY <1>1, <2>1
<1>4. LogShape'
  <2>1. HeadLine(h) \in SessionLine
    BY DEF HeadLine, SessionLine
  <2>2. buffer' \in Seq(SessionLine \cup RunLine)
    BY <1>1, <2>1
  <2>3. head' \in 0 .. created'
    BY <1>1, <1>2 DEF LogInv, LogShape
  <2> QED BY <1>1, <2>2, <2>3 DEF LogInv, LogShape
<1>5. ASSUME NEW i \in Ids, NEW e \in Entry
      PROVE  (OnFile(i, e)' <=> OnFile(i, e)) /\ (Recorded(i, e)' <=> Recorded(i, e))
  <2>1. HeadLine(h) # EntryLine(i, e)
    BY DEF HeadLine, EntryLine
  <2> QED BY <1>1, <1>3, <2>1, OnNothing DEF Recorded, OnFile, Buffered
<1>6. Ordered'
  <2>1. ASSUME NEW i \in Ids, On(log', HeadLine(i)) \/ On(buffer', HeadLine(i)) PROVE i <= created'
    <3>1. CASE On(log, HeadLine(i))
      BY <1>1, <3>1 DEF LogInv, Ordered
    <3>2. CASE HeadLine(i) = HeadLine(h)
      BY <1>1, <1>2, <3>2, LineParts
    <3> QED BY <1>1, <1>3, <2>1, <3>1, <3>2
  <2> QED BY <1>1, <1>5, <2>1 DEF LogInv, Ordered
<1>7. OneLine'
  BY <1>5 DEF LogInv, OneLine
<1>8. Mirrored'
  <2>1. ASSUME NEW i \in Ids, NEW e \in Entry PROVE entries'[i] = e <=> Recorded(i, e)'
    BY <1>1, <1>5 DEF LogInv, Mirrored
  <2> QED BY <1>1, <2>1 DEF Mirrored
<1>9. LogInv'
  BY <1>4, <1>6, <1>7, <1>8 DEF LogInv
<1> QED BY <1>5, <1>9

\* Without torn lines a crash loses what was not yet written, and nothing else.
LEMMA CrashKeeps ==
  ASSUME LogInv, Torn = FALSE, Crash
  PROVE  /\ LogInv'
         /\ \A i \in Ids, e \in Entry : Recorded(i, e)' => Recorded(i, e)
         /\ \A i \in Ids, e \in Entry : OnFile(i, e)' <=> OnFile(i, e)
<1>1. /\ up' = FALSE /\ buffer' = <<>> /\ fragment' = fragment /\ UNCHANGED <<log, created>>
      /\ entries' = [i \in Ids |-> NoEntry] /\ head' = NoId
  BY DEF Crash
<1>2. ASSUME NEW l PROVE ~On(buffer', l)
  BY <1>1, OnNothing
<1>3. LogShape'
  <2>1. head' \in 0 .. created' /\ created' \in 0 .. MaxEntries
    BY <1>1 DEF NoId, LogInv, LogShape
  <2>2. entries' \in [Ids -> Entry \cup {NoEntry}]
    BY <1>1
  <2>3. buffer' \in Seq(SessionLine \cup RunLine)
    BY <1>1
  <2>4. log' \in Seq(SessionLine) /\ fragment' = FALSE /\ up' \in BOOLEAN
    BY <1>1 DEF LogInv, LogShape
  <2> QED BY <2>1, <2>2, <2>3, <2>4 DEF LogShape
<1>4. ASSUME NEW i \in Ids, NEW e \in Entry
      PROVE  (OnFile(i, e)' <=> OnFile(i, e)) /\ (Recorded(i, e)' => Recorded(i, e))
  BY <1>1, <1>2 DEF Recorded, OnFile, Buffered
<1>5. Ordered'
  BY <1>1, <1>2, <1>4 DEF LogInv, Ordered
<1>6. OneLine'
  BY <1>4 DEF LogInv, OneLine
<1>7. Mirrored'
  BY <1>1 DEF Mirrored
<1>8. LogInv'
  BY <1>3, <1>5, <1>6, <1>7 DEF LogInv
<1> QED BY <1>4, <1>8

\* A new process reads back what is on file.
LEMMA ReopenKeeps ==
  ASSUME LogInv, Reopen
  PROVE  /\ LogInv'
         /\ \A i \in Ids, e \in Entry : Recorded(i, e)' <=> Recorded(i, e)
         /\ \A i \in Ids, e \in Entry : OnFile(i, e)' <=> OnFile(i, e)
<1>1. /\ ~up /\ up' = TRUE /\ entries' = FoldEntries /\ head' = FoldHead
      /\ UNCHANGED <<log, fragment, buffer, created>>
  BY DEF Reopen
<1>2. buffer = <<>>
  BY <1>1 DEF LogInv, Mirrored
<1>3. ASSUME NEW i \in Ids, NEW e \in Entry
      PROVE  /\ OnFile(i, e)' <=> OnFile(i, e)
             /\ Recorded(i, e)' <=> Recorded(i, e)
             /\ Recorded(i, e) <=> OnFile(i, e)
  BY <1>1, <1>2, OnNothing DEF Recorded, OnFile, Buffered
<1>4. LogShape'
  <2>1. FoldHead \in 0 .. created /\ FoldEntries \in [Ids -> Entry \cup {NoEntry}]
    BY FoldHeadFits, FoldIsFile
  <2> QED BY <1>1, <2>1 DEF LogInv, LogShape
<1>5. Ordered'
  BY <1>1, <1>3 DEF LogInv, Ordered
<1>6. OneLine'
  BY <1>3 DEF LogInv, OneLine
<1>7. Mirrored'
  BY <1>1, <1>3, FoldIsFile DEF Mirrored
<1>8. LogInv'
  BY <1>4, <1>5, <1>6, <1>7 DEF LogInv
<1> QED BY <1>3, <1>8

\* In a running process the tree is a tree, and its entries stay what they are.
LEMMA TreeGrows ==
  ASSUME LogInv
  PROVE  /\ Rooted
         /\ Known \subseteq 1 .. created
         /\ \A i \in Known : entries[i] \in Entry /\ entries[i].msg <= i
         /\ up => \A i \in Known : Recorded(i, entries[i])
<1>1. ASSUME NEW i \in Known
      PROVE  /\ entries[i] \in Entry /\ up /\ Recorded(i, entries[i])
             /\ i \in 1 .. created /\ entries[i].parent \in 0 .. i - 1 /\ entries[i].msg <= i
  <2>1. i \in Ids /\ entries[i] \in Entry
    BY DEF LogInv, LogShape, Known
  <2>2. up
    BY <2>1, NoEntryIsNone DEF LogInv, LogShape, Mirrored
  <2>3. Recorded(i, entries[i])
    BY <2>1, <2>2 DEF LogInv, Mirrored
  <2>4. i <= created /\ entries[i].parent < i /\ entries[i].msg <= i
    BY <2>1, <2>3 DEF LogInv, Ordered
  <2>5. entries[i].parent \in Nat /\ i \in Nat /\ i >= 1
    BY <2>1 DEF Entry, Ids, NoId
  <2> QED BY <2>1, <2>2, <2>3, <2>4, <2>5 DEF LogInv, LogShape
<1> QED BY <1>1 DEF Rooted

\* While the process runs no entry is lost or changed.
LEMMA TreeKeeps ==
  ASSUME LogInv, LogInv', up', \A i \in Ids, e \in Entry : Recorded(i, e) => Recorded(i, e)'
  PROVE  Known \subseteq Known' /\ \A i \in Known : entries'[i] = entries[i]
<1>1. ASSUME NEW i \in Known PROVE i \in Known' /\ entries'[i] = entries[i]
  <2>1. i \in Ids /\ entries[i] \in Entry
    BY TreeGrows DEF Known
  <2>2. up
    BY <2>1, NoEntryIsNone DEF LogInv, LogShape, Mirrored
  <2>3. PICK e \in Entry : e = entries[i]
    BY <2>1
  <2>4. Recorded(i, e)'
    BY <2>1, <2>2, <2>3, TreeGrows
  <2>5. \A j \in Ids, f \in Entry : entries'[j] = f <=> Recorded(j, f)'
    BY DEF LogInv, Mirrored
  <2>6. entries'[i] = e /\ e # NoEntry
    BY <2>1, <2>4, <2>5, NoEntryIsNone
  <2> QED BY <2>1, <2>3, <2>6 DEF Known
<1> QED BY <1>1

------------------------------------------------------------------------------
(* The tasks.                                                              *)

\* The phases in which a task drives.
Working == {"stream", "compacting", "compacted", "summarise"}

\* What the variables of the tasks range over.
TaskShape ==
  /\ queue \in Seq(Tasks)
  /\ phase \in [Tasks -> {"new", "queued", "stream", "compacting", "compacted", "summarise", "over", "lost"}]
  /\ aborted \subseteq Tasks /\ controllers \subseteq Tasks
  /\ activeRun \in Turns \cup {NoTask}
  /\ runs \in [Tasks -> {"none", "running", "done", "error", "aborted"}]
  /\ prompt \in [Tasks -> 0 .. created]
  /\ context \in [Tasks -> Seq(Known)]
  /\ forks \in 0 .. MaxUpsets /\ crashes \in 0 .. MaxCrashes

\* Only the task at the head of the queue works.
OneWorks ==
  \A t \in Tasks : phase[t] \in Working => up /\ queue # <<>> /\ Head(queue) = t

\* The inductive invariant of the session.
SessionShape == LogInv /\ TaskShape /\ OneWorks

\* What a task appends is an entry.
LEMMA MessageFits ==
  ASSUME SessionAssumption, NEW kind \in Kinds, NEW t \in Tasks, created + 1 \in Ids
  PROVE  /\ Message(kind, t) \in Entry /\ Message(kind, t).msg = created + 1
         /\ Message(kind, t).kind = kind /\ Message(kind, t).turn = t
         /\ Message(kind, t).parent = NoId
<1>1. t \in Authors
  BY DEF SessionAssumption
<1> QED BY <1>1 DEF Message, Entry, NoId

\* The reply of a turn is an entry, if there is one.
LEMMA ReplyFits ==
  ASSUME SessionAssumption, created \in Nat, NEW t \in Tasks, NEW parts \in Parts, NEW after,
         AppendAll(Reply(t, parts), after)
  PROVE  \/ parts = "none" /\ Reply(t, parts) = <<>>
         \/ \E e \in Entry : /\ Reply(t, parts) = <<e>> /\ created + 1 \in Ids
                             /\ e.msg = created + 1 /\ e.kind = "assistant" /\ e.turn = t
<1>1. CASE parts = "none"
  BY <1>1 DEF Reply
<1>2. CASE parts # "none"
  <2> DEFINE m == Message("assistant", t)
  <2>1. PICK e : e = [m EXCEPT !.text = (parts = "text")]
    OBVIOUS
  <2>2. Reply(t, parts) = <<e>>
    BY <1>2, <2>1 DEF Reply
  <2>3. created + 1 \in Ids /\ "assistant" \in Kinds
    <3>1. created + Len(<<e>>) <= MaxEntries
      BY <2>2 DEF AppendAll, Room
    <3>2. MaxEntries \in Nat
      BY SessionLogAssumption DEF SessionLogAssumption
    <3>3. Len(<<e>>) = 1
      OBVIOUS
    <3> QED BY <3>1, <3>2, <3>3 DEF Ids, Kinds
  <2>4. m \in Entry /\ m.msg = created + 1 /\ m.kind = "assistant" /\ m.turn = t
    BY <2>3, MessageFits
  <2> HIDE DEF m
  <2>5. (parts = "text") \in BOOLEAN
    OBVIOUS
  <2>6. e \in Entry /\ e.msg = created + 1 /\ e.kind = "assistant" /\ e.turn = t
    BY <2>1, <2>4, <2>5 DEF Entry
  <2> QED BY <2>2, <2>3, <2>6
<1> QED BY <1>1, <1>2

\* A summary of entries of the tree is an entry.
LEMMA SummaryFits ==
  ASSUME SessionAssumption, LogInv, NEW t \in Tasks, NEW S \in SUBSET Known, NEW auto \in BOOLEAN,
         created + 1 \in Ids
  PROVE  /\ Summary(t, S, auto) \in Entry /\ Summary(t, S, auto).msg = created + 1
         /\ Summary(t, S, auto).kind = "summary" /\ Summary(t, S, auto).turn = t
<1>1. Remembered(S) \subseteq Ids
  <2>1. \A i \in S : entries[i].msg \in Ids /\ entries[i].covers \subseteq Ids
    BY TreeGrows DEF Entry
  <2> QED BY <2>1 DEF Remembered
<1>2. "summary" \in Kinds
  BY DEF Kinds
<1> DEFINE m == Message("summary", t)
<1>4. m \in Entry /\ m.msg = created + 1 /\ m.kind = "summary" /\ m.turn = t
  BY <1>2, MessageFits
<1>5. Summary(t, S, auto) = [m EXCEPT !.covers = Remembered(S), !.auto = auto]
  BY DEF Summary
<1> HIDE DEF m
<1> QED BY <1>1, <1>4, <1>5 DEF Entry

\* A summary makes a message.
LEMMA SummaryVoiced ==
  ASSUME NEW t, NEW S, NEW auto, Message("summary", t) \in Entry
  PROVE  Summary(t, S, auto).text = TRUE
<1>1. Message("summary", t).text = TRUE
  BY DEF Message
<1> QED BY <1>1 DEF Summary, Entry

\* What is summarised of a path is of the tree.
LEMMA SummarisedKnown ==
  ASSUME NEW path \in Seq(Known), NEW n
  PROVE  Summarised(path, n) \subseteq Known
<1> DEFINE m == Messages(path)
<1>1. m \in Seq(Known)
  BY AmongKnown DEF Messages
<1>2. \A k \in DOMAIN m : m[k] \in Known
  BY <1>1
<1> HIDE DEF m
<1> QED BY <1>2 DEF Summarised, m

\* The tail a compaction re-anchors consists of entries older than their copies.
LEMMA CopiesFit ==
  ASSUME SessionAssumption, LogInv, NEW t, context[t] \in Seq(Known)
  PROVE  /\ Copies(t) \in Seq(Entry) /\ KeptTail(t) \in Seq(Known)
         /\ Len(Copies(t)) = Len(KeptTail(t))
         /\ \A k \in 1 .. Len(Copies(t)) :
              Copies(t)[k] = entries[KeptTail(t)[k]] /\ Copies(t)[k].msg <= created
<1> DEFINE s == Spoken(context[t])
           m == (IF Len(s) > RecentTail THEN Len(s) - RecentTail ELSE 0) + 1
           K == KeptTail(t)
<1>1. s \in Seq(Known)
  BY AmongKnown DEF Spoken
<1>2. Len(s) \in Nat /\ m \in 1 .. Len(s) + 1 /\ K = SubSeq(s, m, Len(s))
  BY <1>1 DEF KeptTail, Last, SessionAssumption
<1> HIDE DEF s, m
<1>3. K \in Seq(Known)
  BY <1>1, <1>2
<1>4. Copies(t) = [k \in DOMAIN K |-> entries[K[k]]]
  BY DEF Copies
<1> HIDE DEF K
<1>5. Len(K) \in Nat /\ DOMAIN K = 1 .. Len(K)
  BY <1>3
<1>6. \A k \in 1 .. Len(K) : K[k] \in Known
  BY <1>3
<1>7. \A i \in Known : entries[i] \in Entry /\ entries[i].msg \in Ids /\ entries[i].msg <= i /\ i <= created /\ i \in Nat
  <2> TAKE i \in Known
  <2>1. entries[i] \in Entry /\ entries[i].msg <= i /\ i \in 1 .. created /\ i \in Nat
    BY TreeGrows DEF Known, Ids
  <2>2. i <= created
    BY <2>1
  <2> QED BY <2>1, <2>2 DEF Entry
<1>8. \A k \in 1 .. Len(K) : entries[K[k]] \in Entry /\ entries[K[k]].msg <= created
  BY <1>6, <1>7 DEF Ids, LogInv, LogShape
<1>9. Copies(t) \in Seq(Entry) /\ Len(Copies(t)) = Len(K)
  BY <1>4, <1>5, <1>8
<1> QED BY <1>3, <1>4, <1>5, <1>8, <1>9 DEF K

\* Nothing a task has read disappears while the process runs.
LEMMA ContextStays ==
  ASSUME SessionShape, LogInv', up', created <= created',
         \A i \in Ids, e \in Entry : Recorded(i, e) => Recorded(i, e)'
  PROVE  /\ context \in [Tasks -> Seq(Known')] /\ prompt \in [Tasks -> 0 .. created']
         /\ Known \subseteq Known' /\ \A i \in Known : entries'[i] = entries[i]
<1>1. Known \subseteq Known' /\ \A i \in Known : entries'[i] = entries[i]
  BY TreeKeeps DEF SessionShape
<1>2. \A s \in Seq(Known) : s \in Seq(Known')
  BY <1>1
<1>3. created \in Nat /\ created' \in Nat
  BY DEF SessionShape, LogInv, LogShape
<1> QED BY <1>1, <1>2, <1>3 DEF SessionShape, TaskShape

\* The same of a step of the host or of a task that appends es.
LEMMA TaskAppends ==
  ASSUME SessionShape, MaxEntries \in Nat \ {0}, NEW es \in Seq(Entry), NEW after \in Seq(RunLine),
         AppendAll(es, after), \A k \in 1 .. Len(es) : es[k].msg <= created + k
  PROVE  /\ LogInv' /\ up' /\ created' = created + Len(es) /\ crashes' = crashes
         /\ context \in [Tasks -> Seq(Known')] /\ prompt \in [Tasks -> 0 .. created']
         /\ Known \subseteq Known' /\ \A i \in Known : entries'[i] = entries[i]
         /\ \A k \in 1 .. Len(es) : created + k \in Known' /\ entries'[created + k] = Placed(es)[k]
<1>1. LogInv' /\ \A i \in Ids, e \in Entry : Recorded(i, e) => Recorded(i, e)'
  BY AppendKeeps DEF SessionShape
<1>2. up /\ up' /\ created' = created + Len(es) /\ crashes' = crashes /\ Len(es) \in Nat /\ created \in Nat
  BY DEF AppendAll, Ready, SessionShape, LogInv, LogShape
<1>3. created <= created'
  BY <1>2
<1>4. /\ context \in [Tasks -> Seq(Known')] /\ prompt \in [Tasks -> 0 .. created']
      /\ Known \subseteq Known' /\ \A i \in Known : entries'[i] = entries[i]
  BY <1>1, <1>2, <1>3, ContextStays
<1>5. ASSUME NEW k \in 1 .. Len(es) PROVE created + k \in Known' /\ entries'[created + k] = Placed(es)[k]
  <2>1. created + k \in Ids /\ created + k \in created + 1 .. created + Len(es) /\ created + k - created = k
    BY <1>2 DEF AppendAll, Room, Ids
  <2> DEFINE p == Placed(es)
  <2>p. entries' = [i \in Ids |-> IF i \in created + 1 .. created + Len(es) THEN p[i - created] ELSE entries[i]]
    BY DEF AppendAll
  <2> HIDE DEF p
  <2>2. entries'[created + k] = p[k]
    <3>1. PICK i \in Ids : i = created + k
      BY <2>1
    <3>2. i \in created + 1 .. created + Len(es) /\ i - created = k
      BY <1>2, <3>1
    <3>3. entries'[i] = p[i - created]
      BY <2>p, <3>2
    <3> QED BY <3>1, <3>2, <3>3
  <2>3. k \in DOMAIN es /\ es[k] \in Entry
    BY <1>2
  <2>6. p[k] = [es[k] EXCEPT !.parent = IF k = 1 THEN head ELSE created + k - 1]
    BY <2>3 DEF Placed, p
  <2>4. p[k].kind = es[k].kind /\ es[k] \in Entry
    BY <2>3, <2>6 DEF Entry
  <2>5. entries'[created + k] # NoEntry
    BY <2>2, <2>4 DEF NoEntry, Entry, Kinds
  <2> QED BY <2>1, <2>2, <2>5 DEF Known, p
<1> QED BY <1>1, <1>2, <1>4, <1>5

\* After a task is over none works.
LEMMA Dequeued ==
  ASSUME SessionShape, NEW t \in Tasks, Driving(t), Dequeue(t)
  PROVE  /\ queue' \in Seq(Tasks)
         /\ \A u \in Tasks : phase'[u] \notin Working
         /\ phase' = [phase EXCEPT ![t] = "over"]
         /\ phase' \in [Tasks -> {"new", "queued", "stream", "compacting", "compacted", "summarise", "over", "lost"}]
         /\ controllers' \subseteq Tasks /\ activeRun' = NoTask
         /\ context' = [context EXCEPT ![t] = <<>>]
<1>1. queue \in Seq(Tasks) /\ queue # <<>> /\ Head(queue) = t
  BY DEF Driving, SessionShape, TaskShape
<1>2. queue' \in Seq(Tasks)
  BY <1>1 DEF Dequeue
<1>3. \A u \in Tasks : u # t => phase[u] \notin Working
  BY <1>1 DEF SessionShape, OneWorks
<1> QED BY <1>1, <1>2, <1>3 DEF Dequeue, Enter, SessionShape, TaskShape, Working

\* Every step keeps the shape.
LEMMA ShapeInductive ==
  ASSUME SessionAssumption, MaxEntries \in Nat \ {0}, Torn = FALSE, SessionShape,
         [SessionNext]_sessionVars
  PROVE  SessionShape'
<1> USE DEF SessionShape
<1>0. ASSUME UNCHANGED logVars, TaskShape', OneWorks'
      PROVE  SessionShape'
  <2>1. LogInv'
    BY <1>0 DEF logVars, LogInv, LogShape, Ordered, OneLine, Mirrored, Recorded, OnFile, Buffered
  <2> QED BY <1>0, <2>1
<1>k. UNCHANGED logVars => Known' = Known
  BY DEF logVars, Known
<1>w. Working \subseteq {"new", "queued", "stream", "compacting", "compacted", "summarise", "over", "lost"}
  BY DEF Working
<1>n. NoTask \notin Tasks /\ Turns \subseteq Tasks /\ Reports \subseteq Tasks /\ Compactions \subseteq Tasks
  BY DEF SessionAssumption, Tasks
<1>c. created \in Nat /\ NoId = 0 /\ \A i \in 1 .. MaxEntries : i \in Ids
  BY DEF LogInv, LogShape, NoId, Ids
<1>1. ASSUME NEW t \in Tasks, Accept(t) PROVE SessionShape'
  <2>1. /\ UNCHANGED logVars /\ queue' = Append(queue, t) /\ phase' = [phase EXCEPT ![t] = "queued"]
        /\ UNCHANGED <<aborted, activeRun, runs, prompt, context, forks>>
        /\ controllers' \subseteq Tasks /\ up' = up
    BY <1>1 DEF Accept, Enter, TaskShape, logVars
  <2>2. TaskShape'
    BY <1>k, <2>1 DEF TaskShape, logVars
  <2>3. OneWorks'
    <3> SUFFICES ASSUME NEW u \in Tasks, phase'[u] \in Working PROVE up' /\ queue' # <<>> /\ Head(queue') = u
      BY DEF OneWorks
    <3>1. phase[u] \in Working
      BY <2>1 DEF TaskShape, Working
    <3>2. up /\ queue # <<>> /\ Head(queue) = u
      BY <3>1 DEF OneWorks
    <3>3. queue \in Seq(Tasks)
      BY DEF TaskShape
    <3>4. Append(queue, t) # <<>> /\ Head(Append(queue, t)) = Head(queue)
      BY <3>2, <3>3
    <3> QED BY <2>1, <3>2, <3>4
  <2> QED BY <1>0, <2>1, <2>2, <2>3
<1>2. ASSUME NEW t \in Tasks, Abort(t) PROVE SessionShape'
  <2>1. UNCHANGED logVars /\ aborted' \subseteq Tasks
        /\ UNCHANGED <<queue, phase, controllers, activeRun, runs, prompt, context, forks>>
    BY <1>2 DEF Abort, TaskShape
  <2>2. TaskShape' /\ OneWorks'
    BY <1>k, <2>1 DEF TaskShape, OneWorks, logVars
  <2> QED BY <1>0, <2>1, <2>2
<1>3. ASSUME NEW i \in Ids, Fork(i) PROVE SessionShape'
  <2>1. /\ MoveHead(i) /\ forks' = forks + 1 /\ forks + crashes < MaxUpsets
        /\ UNCHANGED <<queue, phase, aborted, controllers, activeRun, runs, prompt, context>>
        /\ UNCHANGED <<entries, created, up, crashes>>
    BY <1>3 DEF Fork, MoveHead
  <2>2. LogInv' /\ Known' = Known
    BY <2>1, MoveKeeps DEF Known
  <2>3. forks' \in 0 .. MaxUpsets
    BY <2>1 DEF TaskShape, SessionAssumption
  <2>4. TaskShape' /\ OneWorks'
    BY <2>1, <2>2, <2>3 DEF TaskShape, OneWorks
  <2> QED BY <2>2, <2>4
\* A task that leaves the log alone and is over.
<1>4. ASSUME NEW t \in Tasks, Driving(t), Dequeue(t), UNCHANGED <<logVars, aborted, runs, prompt, forks>>
      PROVE  SessionShape'
  <2>1. TaskShape'
    <3>1. context' \in [Tasks -> Seq(Known')]
      <4>1. context' = [context EXCEPT ![t] = <<>>] /\ <<>> \in Seq(Known) /\ Known' = Known
        BY <1>4, <1>k, Dequeued
      <4> QED BY <4>1 DEF TaskShape
    <3> QED BY <1>4, <3>1, Dequeued DEF TaskShape, logVars
  <2>2. OneWorks'
    BY <1>4, Dequeued DEF OneWorks
  <2> QED BY <1>0, <1>4, <2>1, <2>2
<1>5. ASSUME NEW t \in Tasks, Skip(t) PROVE SessionShape'
  BY <1>4, <1>5 DEF Skip
<1>6. ASSUME NEW t \in Tasks, CompactFails(t) PROVE SessionShape'
  BY <1>4, <1>6 DEF CompactFails
\* A task that appends and is over.
<1>7. ASSUME NEW t \in Tasks, Driving(t), NEW es \in Seq(Entry), NEW after \in Seq(RunLine),
             AppendAll(es, after), \A k \in 1 .. Len(es) : es[k].msg <= created + k,
             Dequeue(t), UNCHANGED <<aborted, runs, prompt, forks>>
      PROVE  SessionShape'
  <2>1. LogInv' /\ context \in [Tasks -> Seq(Known')] /\ prompt \in [Tasks -> 0 .. created'] /\ crashes' = crashes
    BY <1>7, TaskAppends
  <2>2. TaskShape'
    <3>1. context' \in [Tasks -> Seq(Known')]
      <4>1. context' = [context EXCEPT ![t] = <<>>] /\ <<>> \in Seq(Known')
        BY <1>7, Dequeued
      <4> QED BY <2>1, <4>1
    <3> QED BY <1>7, <2>1, <3>1, Dequeued DEF TaskShape
  <2>3. OneWorks'
    BY <1>7, Dequeued DEF OneWorks
  <2> QED BY <2>1, <2>2, <2>3
\* A task that appends and goes on.
<1>8. ASSUME NEW t \in Tasks, Driving(t), NEW es \in Seq(Entry), NEW after \in Seq(RunLine),
             AppendAll(es, after), \A k \in 1 .. Len(es) : es[k].msg <= created + k,
             NEW p \in Working, Enter(t, p), controllers' \subseteq Tasks,
             activeRun' \in Turns \cup {NoTask},
             context' \in [Tasks -> Seq(Known')], prompt' \in [Tasks -> 0 .. created'],
             UNCHANGED <<queue, aborted, runs, forks>>
      PROVE  SessionShape'
  <2>1. LogInv' /\ up' /\ crashes' = crashes
    BY <1>8, TaskAppends
  <2>2. TaskShape'
    BY <1>8, <1>w, <2>1 DEF TaskShape, Enter
  <2>3. OneWorks'
    <3> SUFFICES ASSUME NEW u \in Tasks, phase'[u] \in Working PROVE queue # <<>> /\ Head(queue) = u
      BY <1>8, <2>1 DEF OneWorks
    <3>1. CASE u = t
      BY <1>8, <3>1 DEF Driving
    <3>2. CASE u # t
      BY <1>8, <3>2 DEF OneWorks, Enter, TaskShape
    <3> QED BY <3>1, <3>2
  <2> QED BY <2>1, <2>2, <2>3
<1>9. ASSUME NEW t \in Tasks, NEW status \in {"running", "done", "error", "aborted"}
      PROVE  RunWrite(t, status) \in Seq(RunLine)
  BY DEF RunWrite, RunLine
<1>10. ASSUME NEW t \in Tasks, NEW kind \in Kinds, NEW after, AppendAll(<<Message(kind, t)>>, after)
       PROVE  /\ <<Message(kind, t)>> \in Seq(Entry)
              /\ \A k \in 1 .. Len(<<Message(kind, t)>>) : <<Message(kind, t)>>[k].msg <= created + k
  <2>1. created + 1 \in Ids
    BY <1>10, <1>c DEF AppendAll, Room
  <2>2. Message(kind, t) \in Entry /\ Message(kind, t).msg = created + 1
    BY <2>1, MessageFits
  <2> QED BY <1>c, <2>2
<1> DEFINE nothing == <<>>
<1>11. /\ nothing \in Seq(Entry) /\ nothing \in Seq(RunLine) /\ Len(nothing) = 0
       /\ \A k \in 1 .. Len(nothing) : nothing[k].msg <= created + k
  OBVIOUS
<1>e. nothing = <<>>
  OBVIOUS
<1> HIDE DEF nothing
<1>12. ASSUME NEW t \in Tasks, Begin(t) PROVE SessionShape'
  <2> DEFINE es == <<Message("user", t)>>
  <2>1. /\ t \in Turns /\ Driving(t) /\ AppendAll(es, RunWrite(t, "running")) /\ Enter(t, "stream")
        /\ prompt' = [prompt EXCEPT ![t] = created + 1]
        /\ activeRun' = t
        /\ context' = [context EXCEPT ![t] = Append(Path(head), created + 1)]
        /\ UNCHANGED <<queue, aborted, controllers, runs, forks>>
    BY <1>12 DEF Begin
  <2>2. es \in Seq(Entry) /\ \A k \in 1 .. Len(es) : es[k].msg <= created + k
    BY <1>10, <2>1 DEF Kinds
  <2>3. RunWrite(t, "running") \in Seq(RunLine) /\ "stream" \in Working
    BY <1>9 DEF Working
  <2>l. Len(es) = 1
    OBVIOUS
  <2> HIDE DEF es
  <2>4. /\ context \in [Tasks -> Seq(Known')] /\ prompt \in [Tasks -> 0 .. created'] /\ Known \subseteq Known'
        /\ created' = created + 1 /\ created + 1 \in Known'
    <3>1. 1 \in 1 .. Len(es)
      BY <2>l
    <3> QED BY <2>1, <2>2, <2>3, <2>l, <3>1, TaskAppends
  <2>5. Path(head) \in Seq(Known)
    <3>1. head \in Ids \cup {NoId}
      BY <1>c DEF LogInv, LogShape
    <3> QED BY <3>1, TreeGrows, PathKnown
  <2>6. Append(Path(head), created + 1) \in Seq(Known')
    BY <2>4, <2>5
  <2>7. context' \in [Tasks -> Seq(Known')] /\ prompt' \in [Tasks -> 0 .. created']
    BY <1>c, <2>1, <2>4, <2>6
  <2>8. controllers' \subseteq Tasks /\ activeRun' \in Turns \cup {NoTask}
    BY <2>1 DEF TaskShape
  <2> QED BY <1>8, <2>1, <2>2, <2>3, <2>7, <2>8
<1>13. ASSUME NEW t \in Tasks, BeginReport(t) PROVE SessionShape'
  <2>1. /\ Driving(t) /\ AppendAll(<<>>, RunWrite(t, "running")) /\ Enter(t, "stream")
        /\ controllers' = controllers \cup {t}
        /\ UNCHANGED <<queue, aborted, activeRun, runs, prompt, context, forks>>
    BY <1>13 DEF BeginReport
  <2>2. RunWrite(t, "running") \in Seq(RunLine) /\ "stream" \in Working
    BY <1>9 DEF Working
  <2>3. context \in [Tasks -> Seq(Known')] /\ prompt \in [Tasks -> 0 .. created']
    BY <1>11, <1>e, <2>1, <2>2, TaskAppends
  <2>4. controllers' \subseteq Tasks /\ activeRun' \in Turns \cup {NoTask}
    BY <2>1 DEF TaskShape
  <2> QED BY <1>8, <1>11, <1>e, <2>1, <2>2, <2>3, <2>4
<1>14. ASSUME NEW t \in Tasks, BeginCompact(t) PROVE SessionShape'
  <2>1. CASE Len(Path(head)) < 2
    BY <1>4, <1>14, <2>1 DEF BeginCompact
  <2>2. CASE ~(Len(Path(head)) < 2)
    <3>1. /\ Driving(t) /\ UNCHANGED logVars /\ phase' = [phase EXCEPT ![t] = "summarise"]
          /\ context' = [context EXCEPT ![t] = Path(head)]
          /\ UNCHANGED <<queue, controllers, activeRun, aborted, runs, prompt, forks>>
      BY <1>14, <2>2 DEF BeginCompact, Enter
    <3>2. Path(head) \in Seq(Known)
      <4>1. head \in Ids \cup {NoId}
        BY <1>c DEF LogInv, LogShape
      <4> QED BY <4>1, TreeGrows, PathKnown
    <3>3. TaskShape'
      <4>1. context' \in [Tasks -> Seq(Known')]
        BY <1>k, <3>1, <3>2 DEF TaskShape
      <4> QED BY <3>1, <4>1 DEF TaskShape, logVars
    <3>4. OneWorks'
      <4> SUFFICES ASSUME NEW u \in Tasks, phase'[u] \in Working PROVE up /\ queue # <<>> /\ Head(queue) = u
        BY <3>1 DEF OneWorks, logVars
      <4>1. CASE u = t
        BY <3>1, <4>1 DEF Driving
      <4>2. CASE u # t
        BY <3>1, <4>2 DEF OneWorks, TaskShape
      <4> QED BY <4>1, <4>2
    <3> QED BY <1>0, <3>1, <3>3, <3>4
  <2> QED BY <2>1, <2>2
<1>15. ASSUME NEW t \in Tasks, SubTranscript(t) PROVE SessionShape'
  <2> DEFINE e == [Message("sub", t) EXCEPT !.parent = IF t \in Turns THEN prompt[t] ELSE head]
  <2>1. Driving(t) /\ AppendAside(e) /\ UNCHANGED taskVars
    BY <1>15 DEF SubTranscript
  <2>2. created + 1 \in Ids /\ up /\ up' /\ created' = created + 1 /\ crashes' = crashes
    BY <1>c, <2>1 DEF AppendAside, Room, Ready
  <2>3. Message("sub", t) \in Entry /\ Message("sub", t).msg = created + 1
    <3>1. "sub" \in Kinds
      BY DEF Kinds
    <3> QED BY <2>2, <3>1, MessageFits
  <2>4. \A i \in 0 .. created : i \in Ids \cup {NoId} /\ i <= created
    BY <1>c DEF LogInv, LogShape
  <2>5. (IF t \in Turns THEN prompt[t] ELSE head) \in 0 .. created
    BY DEF TaskShape, LogInv, LogShape
  <2>6. e \in Entry /\ e.parent <= created /\ e.msg <= created + 1
    BY <1>c, <2>3, <2>4, <2>5 DEF Entry
  <2> HIDE DEF e
  <2>7. LogInv' /\ \A i \in Ids, f \in Entry : Recorded(i, f) => Recorded(i, f)'
    BY <2>1, <2>6, AsideKeeps
  <2>8. context \in [Tasks -> Seq(Known')] /\ prompt \in [Tasks -> 0 .. created']
    BY <1>c, <2>2, <2>7, ContextStays
  <2>9. TaskShape' /\ OneWorks'
    BY <2>1, <2>2, <2>8 DEF TaskShape, OneWorks, taskVars
  <2> QED BY <2>7, <2>9
<1>16. ASSUME NEW t \in Tasks, NEW S \in SUBSET Known, NEW auto \in BOOLEAN, Ready, Room(1)
       PROVE  Summary(t, S, auto) \in Entry /\ Summary(t, S, auto).msg = created + 1
  <2>1. created + 1 \in Ids
    BY <1>16, <1>c DEF Room
  <2> QED BY <2>1, SummaryFits
\* A turn that goes on without touching the log.
<1>b. ASSUME NEW t \in Tasks, BeginSummary(t) PROVE SessionShape'
  <2>1. /\ Driving(t) /\ UNCHANGED logVars /\ phase' = [phase EXCEPT ![t] = "compacting"]
        /\ UNCHANGED <<queue, aborted, controllers, activeRun, runs, prompt, context, forks>>
    BY <1>b DEF BeginSummary, Enter
  <2>2. TaskShape'
    BY <1>k, <2>1 DEF TaskShape, logVars
  <2>3. OneWorks'
    <3> SUFFICES ASSUME NEW u \in Tasks, phase'[u] \in Working PROVE up /\ queue # <<>> /\ Head(queue) = u
      BY <2>1 DEF OneWorks, logVars
    <3>1. CASE u = t
      BY <2>1, <3>1 DEF Driving
    <3>2. CASE u # t
      BY <2>1, <3>2 DEF OneWorks, TaskShape
    <3> QED BY <3>1, <3>2
  <2> QED BY <1>0, <2>1, <2>2, <2>3
<1>17. ASSUME NEW t \in Tasks, NEW n \in Steps, EndSummary(t, n) PROVE SessionShape'
  <2> DEFINE s == Summary(t, Summarised(context[t], n), TRUE)
  <2>1. /\ Driving(t) /\ AppendAll(<<s>>, <<>>) /\ Enter(t, "compacted")
        /\ UNCHANGED <<queue, aborted, controllers, activeRun, runs, prompt, context, forks>>
    BY <1>17 DEF EndSummary
  <2>2. s \in Entry /\ s.msg = created + 1
    <3>1. context[t] \in Seq(Known)
      BY DEF TaskShape
    <3>2. Summarised(context[t], n) \in SUBSET Known
      BY <3>1, SummarisedKnown
    <3>3. Ready /\ Room(1)
      BY <2>1 DEF AppendAll
    <3> QED BY <1>16, <3>2, <3>3
  <2> HIDE DEF s
  <2>3. <<s>> \in Seq(Entry) /\ \A k \in 1 .. Len(<<s>>) : <<s>>[k].msg <= created + k
    BY <1>c, <2>2
  <2> DEFINE es == <<s>>
  <2> HIDE DEF es
  <2>4. es \in Seq(Entry) /\ (\A k \in 1 .. Len(es) : es[k].msg <= created + k) /\ AppendAll(es, <<>>)
    BY <2>1, <2>3 DEF es
  <2>5. context \in [Tasks -> Seq(Known')] /\ prompt \in [Tasks -> 0 .. created']
    BY <1>11, <1>e, <2>4, TaskAppends
  <2>6. controllers' \subseteq Tasks /\ activeRun' \in Turns \cup {NoTask} /\ "compacted" \in Working
    BY <2>1 DEF TaskShape, Working
  <2> QED BY <1>8, <1>11, <1>e, <2>1, <2>4, <2>5, <2>6
<1>18. ASSUME NEW t \in Tasks, NEW how \in {"done", "error", "aborted"}, NEW parts \in Parts,
              EndTurn(t, how, parts) \/ SummaryThrows(t, how, parts)
       PROVE  SessionShape'
  <2>1. /\ Driving(t) /\ AppendAll(Reply(t, parts), RunWrite(t, how)) /\ Dequeue(t)
        /\ UNCHANGED <<aborted, runs, prompt, forks>>
    BY <1>18 DEF EndTurn, SummaryThrows, Streams, Close
  <2>2. RunWrite(t, how) \in Seq(RunLine)
    BY <1>9
  <2>3. Reply(t, parts) \in Seq(Entry) /\ \A k \in 1 .. Len(Reply(t, parts)) : Reply(t, parts)[k].msg <= created + k
    <3>1. CASE Reply(t, parts) = <<>>
      BY <3>1
    <3>2. CASE \E e \in Entry : Reply(t, parts) = <<e>> /\ e.msg = created + 1
      BY <1>c, <3>2
    <3> QED BY <1>c, <2>1, <3>1, <3>2, ReplyFits
  <2> QED BY <1>7, <2>1, <2>2, <2>3
<1>19. ASSUME NEW t \in Tasks, NEW how \in {"done", "error"}, EndReport(t, how) PROVE SessionShape'
  <2>1. /\ Driving(t) /\ AppendAll(<<>>, RunWrite(t, how)) /\ Dequeue(t)
        /\ UNCHANGED <<aborted, runs, prompt, forks>>
    BY <1>19 DEF EndReport
  <2>2. RunWrite(t, how) \in Seq(RunLine)
    BY <1>9
  <2> QED BY <1>7, <1>11, <1>e, <2>1, <2>2
<1>20. ASSUME NEW t \in Tasks, EndCompact(t) PROVE SessionShape'
  <2> DEFINE s == Summary(t, Summarised(context[t], 0), FALSE)
             es == <<s>> \o Copies(t)
  <2>1. /\ Driving(t) /\ AppendAll(es, <<>>) /\ Dequeue(t)
        /\ UNCHANGED <<aborted, runs, prompt, forks>>
    BY <1>20 DEF EndCompact
  <2>2. context[t] \in Seq(Known)
    BY DEF TaskShape
  <2>3. Copies(t) \in Seq(Entry) /\ \A k \in 1 .. Len(Copies(t)) : Copies(t)[k].msg <= created
    BY <2>2, CopiesFit
  <2>4. Ready /\ Room(Len(es))
    BY <2>1 DEF AppendAll
  <2>5. Len(es) = 1 + Len(Copies(t)) /\ Len(Copies(t)) \in Nat
    <3> HIDE DEF s
    <3> QED BY <2>3
  <2>6. s \in Entry /\ s.msg = created + 1
    <3>1. Summarised(context[t], 0) \in SUBSET Known
      BY <2>2, SummarisedKnown
    <3>2. Room(1)
      <4>1. created + Len(es) <= MaxEntries
        BY <2>4 DEF Room
      <4> HIDE DEF es
      <4> QED BY <1>c, <2>5, <4>1 DEF Room
    <3> QED BY <1>16, <2>4, <3>1, <3>2
  <2> HIDE DEF s
  <2>7. es \in Seq(Entry)
    BY <2>3, <2>6
  <2>8. ASSUME NEW k \in 1 .. Len(es) PROVE es[k].msg <= created + k
    <3>1. CASE k = 1
      BY <1>c, <2>3, <2>6, <3>1
    <3>2. CASE k # 1
      <4>1. k - 1 \in 1 .. Len(Copies(t))
        BY <2>5, <3>2
      <4>2. es[k] = Copies(t)[k - 1]
        BY <2>3, <2>5, <3>2
      <4>3. Copies(t)[k - 1] \in Entry
        BY <2>3, <4>1
      <4>4. es[k].msg \in Nat /\ es[k].msg <= created
        BY <2>3, <4>1, <4>2, <4>3 DEF Entry, Ids
      <4> QED BY <1>c, <4>4
    <3> QED BY <3>1, <3>2
  <2> HIDE DEF es
  <2> QED BY <1>7, <1>11, <1>e, <2>1, <2>7, <2>8
<1>21. ASSUME HostCrash PROVE SessionShape'
  <2>1. /\ Crash /\ queue' = <<>> /\ controllers' = {} /\ activeRun' = NoTask
        /\ phase' = [t \in Tasks |-> IF phase[t] \in {"new", "over"} THEN phase[t] ELSE "lost"]
        /\ context' = [t \in Tasks |-> <<>>]
        /\ UNCHANGED <<aborted, runs, prompt, forks>>
    BY <1>21 DEF HostCrash
  <2>2. LogInv' /\ created' = created /\ crashes' \in 0 .. MaxCrashes
    <3>1. crashes' = crashes + 1 /\ crashes < MaxCrashes /\ created' = created
      BY <2>1 DEF Crash
    <3>2. MaxCrashes \in Nat
      BY SessionLogAssumption
    <3>3. crashes' \in 0 .. MaxCrashes
      BY <3>1, <3>2 DEF TaskShape
    <3>4. LogInv'
      BY <2>1, CrashKeeps
    <3> QED BY <3>1, <3>3, <3>4
  <2>3. TaskShape'
    BY <2>1, <2>2 DEF TaskShape
  <2>4. OneWorks'
    BY <2>1 DEF OneWorks, Working
  <2> QED BY <2>2, <2>3, <2>4
<1>22. ASSUME FlushRun \/ (Flush /\ UNCHANGED taskVars) PROVE SessionShape'
  <2>1. LogInv'
    BY <1>22, FlushKeeps
  <2>2. /\ UNCHANGED <<entries, created, up, crashes, queue, phase, aborted, controllers, activeRun, prompt, context, forks>>
        /\ up /\ buffer # <<>>
    BY <1>22 DEF Flush, FlushRun, taskVars
  <2>3. runs' \in [Tasks -> {"none", "running", "done", "error", "aborted"}]
    <3>1. CASE UNCHANGED runs
      BY <3>1 DEF TaskShape
    <3>2. CASE FlushRun
      <4>1. Head(buffer) \in SessionLine \cup RunLine /\ Head(buffer).type = "run"
        BY <2>2, <3>2 DEF LogInv, LogShape, FlushRun
      <4>2. Head(buffer) \in RunLine
        BY <4>1 DEF SessionLine
      <4>3. Head(buffer).status \in {"running", "done", "error", "aborted"}
        BY <4>2 DEF RunLine
      <4> QED BY <3>2, <4>3 DEF FlushRun, TaskShape
    <3> QED BY <1>22, <3>1, <3>2 DEF taskVars
  <2>4. Known' = Known
    BY <2>2 DEF Known
  <2>5. TaskShape' /\ OneWorks'
    BY <2>2, <2>3, <2>4 DEF TaskShape, OneWorks
  <2> QED BY <2>1, <2>5
<1>23. ASSUME Reopen, UNCHANGED taskVars PROVE SessionShape'
  <2>1. LogInv' /\ \A i \in Ids, e \in Entry : Recorded(i, e) => Recorded(i, e)'
    BY <1>23, ReopenKeeps
  <2>2. ~up /\ up' /\ UNCHANGED <<created, crashes>> /\ created <= created'
    BY <1>23, <1>c DEF Reopen
  <2>3. context \in [Tasks -> Seq(Known')] /\ prompt \in [Tasks -> 0 .. created']
    BY <2>1, <2>2, ContextStays
  <2>4. TaskShape' /\ OneWorks'
    BY <1>23, <2>2, <2>3 DEF TaskShape, OneWorks, taskVars
  <2> QED BY <2>1, <2>4
<1>24. ASSUME UNCHANGED sessionVars PROVE SessionShape'
  <2>1. TaskShape' /\ OneWorks'
    BY <1>24, <1>k DEF TaskShape, OneWorks, sessionVars, taskVars, logVars
  <2> QED BY <1>0, <1>24, <2>1 DEF sessionVars
<1> HIDE DEF SessionShape
<1>25. CASE SessionNext
  BY <1>25, <1>1, <1>2, <1>3, <1>5, <1>6, <1>b, <1>12, <1>13, <1>14, <1>15, <1>17, <1>18, <1>19, <1>20,
     <1>21, <1>22, <1>23 DEF SessionNext, EndOf, LogStep
<1> QED BY <1>24, <1>25

\* A new session has the shape.
LEMMA ShapeInit ==
  ASSUME SessionAssumption, MaxEntries \in Nat \ {0}, SessionInit
  PROVE  SessionShape
<1> USE DEF SessionInit, LogInit
<1>1. LogInv
  <2>1. LogShape
    BY DEF LogShape, NoId
  <2>2. \A l : ~On(log, l) /\ ~On(buffer, l)
    BY OnNothing
  <2>3. \A i \in Ids : entries[i] \notin Entry
    BY NoEntryIsNone
  <2> QED BY <2>1, <2>2, <2>3 DEF LogInv, Ordered, OneLine, Mirrored, Recorded, OnFile, Buffered
<1>2. TaskShape
  <2>1. forks \in 0 .. MaxUpsets /\ crashes \in 0 .. MaxCrashes /\ prompt \in [Tasks -> 0 .. created]
    BY SessionLogAssumption DEF SessionLogAssumption, SessionAssumption, NoId
  <2>2. context \in [Tasks -> Seq(Known)] /\ queue \in Seq(Tasks)
    OBVIOUS
  <2> QED BY <2>1, <2>2 DEF TaskShape
<1>3. OneWorks
  BY DEF OneWorks, Working
<1> QED BY <1>1, <1>2, <1>3 DEF SessionShape

\* Without torn lines a session always has the shape.
LEMMA ShapeAlways ==
  ASSUME Torn = FALSE
  PROVE  SessionSpec => []SessionShape
<1>a. SessionAssumption /\ MaxEntries \in Nat \ {0}
  BY SessionAssumption, SessionLogAssumption DEF SessionLogAssumption
<1>1. SessionInit => SessionShape
  BY <1>a, ShapeInit
<1>2. SessionShape /\ [SessionNext]_sessionVars => SessionShape'
  BY <1>a, ShapeInductive
<1> QED BY <1>1, <1>2, PTL DEF SessionSpec

\* The variables of the session and its log have the types the code gives them.
THEOREM SessionTypes == Torn = FALSE => (SessionSpec => []SessionTypeOK)
<1> SUFFICES ASSUME Torn = FALSE PROVE SessionSpec => []SessionTypeOK
  OBVIOUS
<1>1. SessionShape => SessionTypeOK
  <2> SUFFICES ASSUME SessionShape PROVE SessionTypeOK
    OBVIOUS
  <2>1. MaxEntries \in Nat
    BY SessionLogAssumption DEF SessionLogAssumption
  <2>2. \A i \in 0 .. created : i \in Ids \cup {NoId}
    BY <2>1 DEF SessionShape, LogInv, LogShape, Ids, NoId
  <2>3. LogTypeOK
    BY <2>2 DEF SessionShape, LogInv, LogShape, TaskShape, LogTypeOK
  <2>4. prompt \in [Tasks -> Ids \cup {NoId}]
    BY <2>2 DEF SessionShape, TaskShape
  <2> QED BY <2>3, <2>4 DEF SessionShape, TaskShape, SessionTypeOK
<1> QED BY <1>1, ShapeAlways, PTL

\* What has been appended is on file whenever no append is under way.
THEOREM EntriesAlwaysSurvive == Torn = FALSE => (SessionSpec => []EntriesSurvive)
<1> SUFFICES ASSUME Torn = FALSE PROVE SessionSpec => []EntriesSurvive
  OBVIOUS
<1>1. SessionShape => EntriesSurvive
  BY LogSurvives DEF SessionShape
<1> QED BY <1>1, ShapeAlways, PTL

------------------------------------------------------------------------------
(* A turn is one path.                                                     *)

\* The head while a turn drives: its prompt, or the summary made under it.
TurnAtHead ==
  \A t \in Turns :
    /\ phase[t] \in {"stream", "compacting"} => prompt[t] \in Known /\ head = prompt[t]
    /\ phase[t] = "compacted" =>
         /\ prompt[t] \in Known /\ head \in Known
         /\ entries[head].turn = t /\ entries[head].parent = prompt[t]

\* A reply hangs under its turn's prompt, or under the turn's own summary that does,
\* and both are on file before it is.
Hangs(e) ==
  /\ e.turn \in Turns /\ phase[e.turn] \notin {"new", "queued"}
  /\ prompt[e.turn] \in Ids /\ \E f \in Entry : OnFile(prompt[e.turn], f)
  /\ \/ e.parent = prompt[e.turn]
     \/ /\ e.parent \in Ids
        /\ \E g \in Entry : OnFile(e.parent, g) /\ g.turn = e.turn /\ g.parent = prompt[e.turn]

\* Entry e of id i is a reply, and not the copy of one.
IsReply(i, e) == e.kind = "assistant" /\ e.msg = i

\* Every reply hangs as it should, before it is written and after.
RepliesHang == \A i \in Ids, e \in Entry : Recorded(i, e) /\ IsReply(i, e) => Hangs(e)

\* The inductive invariant of the turns.
TurnShape == TurnAtHead /\ RepliesHang

\* Nothing on file moves from under a reply, and no begun turn gets another prompt.
LEMMA HangsStays ==
  ASSUME NEW e \in Entry, Hangs(e),
         \A i \in Ids, f \in Entry : OnFile(i, f) => OnFile(i, f)',
         \A t \in Turns : phase[t] \notin {"new", "queued"} =>
           phase'[t] \notin {"new", "queued"} /\ prompt'[t] = prompt[t]
  PROVE  Hangs(e)'
<1>1. Hangs(e)
  OBVIOUS
<1>2. prompt'[e.turn] = prompt[e.turn] /\ phase'[e.turn] \notin {"new", "queued"} /\ e.turn \in Turns
  BY <1>1 DEF Hangs
<1>3. PICK f \in Entry : OnFile(prompt[e.turn], f)
  BY <1>1 DEF Hangs
<1> DEFINE q == prompt[e.turn]
<1>4. q \in Ids /\ OnFile(q, f)'
  <2>1. \A j \in Ids : OnFile(j, f) => OnFile(j, f)'
    OBVIOUS
  <2>2. PICK j \in Ids : j = q
    BY <1>1 DEF Hangs
  <2>3. OnFile(j, f)'
    BY <1>3, <2>1, <2>2
  <2>4. q' = q
    BY <1>2
  <2> QED BY <2>2, <2>3, <2>4
<1>5. ASSUME e.parent # q
      PROVE  e.parent \in Ids /\ \E g \in Entry : OnFile(e.parent, g)' /\ g.turn = e.turn /\ g.parent = q
  BY <1>1, <1>5 DEF Hangs
<1>6. q' = q
  BY <1>2
<1> QED BY <1>2, <1>4, <1>5, <1>6 DEF Hangs

\* A step that writes no reply and gives no begun turn another prompt.
LEMMA RepliesStay ==
  ASSUME RepliesHang,
         \A i \in Ids, e \in Entry : Recorded(i, e)' /\ IsReply(i, e) => Recorded(i, e),
         \A i \in Ids, e \in Entry : OnFile(i, e) => OnFile(i, e)',
         \A t \in Turns : phase[t] \notin {"new", "queued"} =>
           phase'[t] \notin {"new", "queued"} /\ prompt'[t] = prompt[t]
  PROVE  RepliesHang'
<1> SUFFICES ASSUME NEW i \in Ids, NEW e \in Entry, Recorded(i, e)', IsReply(i, e) PROVE Hangs(e)'
  BY DEF RepliesHang, IsReply
<1>1. Hangs(e)
  BY DEF RepliesHang
<1> QED BY <1>1, HangsStays

\* Every step keeps the turns in shape, as long as the host forks between tasks only.
LEMMA TurnInductive ==
  ASSUME SessionAssumption, MaxEntries \in Nat \ {0}, Torn = FALSE, ForkMidTask = FALSE,
         SessionShape, SessionShape', TurnShape, [SessionNext]_sessionVars
  PROVE  TurnShape'
<1>n. NoTask \notin Tasks /\ Turns \subseteq Tasks /\ Reports \subseteq Tasks /\ Compactions \subseteq Tasks
  BY DEF SessionAssumption, Tasks
<1>d. Turns \cap Reports = {} /\ Turns \cap Compactions = {}
  BY DEF SessionAssumption
<1>c. /\ created \in Nat /\ NoId = 0 /\ (\A i \in 1 .. MaxEntries : i \in Ids) /\ LogInv /\ LogInv'
      /\ phase \in [Tasks -> {"new", "queued", "stream", "compacting", "compacted", "summarise", "over", "lost"}]
      /\ prompt \in [Tasks -> 0 .. created]
  BY DEF SessionShape, LogInv, LogShape, TaskShape, NoId, Ids
\* No turn drives afterwards.
<1>1. (\A t \in Turns : phase'[t] \notin {"stream", "compacting", "compacted"}) => TurnAtHead'
  BY DEF TurnAtHead
\* No turn moves and the head stays.
<1>2. ASSUME \A t \in Turns : phase'[t] \in {"stream", "compacting", "compacted"} => phase'[t] = phase[t] /\ prompt'[t] = prompt[t],
             head' = head, Known \subseteq Known', \A i \in Known : entries'[i] = entries[i]
      PROVE  TurnAtHead'
  BY <1>2 DEF TurnAtHead, TurnShape
\* The one task that works afterwards is t.
<1>3. ASSUME NEW t \in Tasks, Driving(t), queue' = queue
      PROVE  \A u \in Turns : u # t => phase'[u] \notin {"stream", "compacting", "compacted"}
  BY <1>3, <1>n DEF Driving, SessionShape, OneWorks, Working
<1>4. ASSUME UNCHANGED logVars, \A t \in Turns : phase[t] \notin {"new", "queued"} =>
                                   phase'[t] \notin {"new", "queued"} /\ prompt'[t] = prompt[t]
      PROVE  RepliesHang'
  <2>1. \A i \in Ids, e \in Entry : (Recorded(i, e)' <=> Recorded(i, e)) /\ (OnFile(i, e)' <=> OnFile(i, e))
    BY <1>4 DEF logVars, Recorded, OnFile, Buffered
  <2> QED BY <1>4, <2>1, RepliesStay DEF TurnShape
\* Appending no reply.
<1>5. ASSUME NEW es \in Seq(Entry), NEW after \in Seq(RunLine), AppendAll(es, after),
             \A k \in 1 .. Len(es) : es[k].msg <= created + k,
             \A k \in 1 .. Len(es) : es[k].kind # "assistant" \/ es[k].msg <= created,
             \A t \in Turns : phase[t] \notin {"new", "queued"} =>
               phase'[t] \notin {"new", "queued"} /\ prompt'[t] = prompt[t]
      PROVE  RepliesHang'
  <2>1. /\ \A i \in Ids, e \in Entry :
             Recorded(i, e)' <=> (Recorded(i, e) \/ (i \in created + 1 .. created + Len(es) /\ e = Placed(es)[i - created]))
        /\ \A i \in Ids, e \in Entry : OnFile(i, e)' <=> OnFile(i, e)
    BY <1>5, <1>c, AppendKeeps
  <2>2. ASSUME NEW i \in Ids, NEW e \in Entry, Recorded(i, e)', IsReply(i, e) PROVE Recorded(i, e)
    <3>1. SUFFICES ASSUME i \in created + 1 .. created + Len(es), e = Placed(es)[i - created] PROVE FALSE
      BY <2>1, <2>2
    <3>2. PICK k \in 1 .. Len(es) : i = created + k /\ k = i - created
      <4>1. i - created \in 1 .. Len(es) /\ i = created + (i - created)
        BY <1>c, <3>1
      <4> QED BY <4>1
    <3>3. es[k] \in Entry /\ k \in DOMAIN es
      BY <3>2
    <3>4. e = [es[k] EXCEPT !.parent = IF k = 1 THEN head ELSE created + k - 1]
      BY <3>1, <3>2, <3>3 DEF Placed
    <3>5. e.kind = es[k].kind /\ e.msg = es[k].msg
      BY <3>3, <3>4 DEF Entry
    <3> QED BY <1>5, <1>c, <2>2, <3>2, <3>5 DEF IsReply
  <2> QED BY <1>5, <2>1, <2>2, RepliesStay DEF TurnShape
<1> DEFINE Same == \A t \in Turns : phase[t] \notin {"new", "queued"} =>
                     phase'[t] \notin {"new", "queued"} /\ prompt'[t] = prompt[t]
<1>6. ASSUME NEW t \in Tasks, Driving(t), Dequeue(t), prompt' = prompt
      PROVE  Same /\ TurnAtHead'
  <2>1. (\A u \in Tasks : phase'[u] \notin Working) /\ phase' = [phase EXCEPT ![t] = "over"]
    BY <1>6, Dequeued
  <2> QED BY <1>1, <1>6, <1>c, <1>n, <2>1 DEF Working
<1>7. ASSUME NEW t \in Tasks, Accept(t) PROVE TurnShape'
  <2>1. /\ UNCHANGED logVars /\ prompt' = prompt /\ phase' = [phase EXCEPT ![t] = "queued"] /\ phase[t] = "new"
    BY <1>7 DEF Accept, Enter
  <2>2. Same
    BY <1>c, <1>n, <2>1
  <2>3. TurnAtHead'
    <3>1. Known' = Known /\ head' = head /\ entries' = entries
      BY <2>1 DEF logVars, Known
    <3> QED BY <1>2, <1>c, <1>n, <2>1, <3>1
  <2> QED BY <1>4, <2>1, <2>2, <2>3 DEF TurnShape
<1>8. ASSUME UNCHANGED <<logVars, phase, prompt>> PROVE TurnShape'
  <2>1. Known' = Known /\ head' = head /\ entries' = entries
    BY <1>8 DEF logVars, Known
  <2>2. TurnAtHead' /\ Same
    BY <1>2, <1>8, <2>1
  <2> QED BY <1>4, <1>8, <2>2 DEF TurnShape
<1>9. ASSUME NEW t \in Tasks, Abort(t) PROVE TurnShape'
  BY <1>8, <1>9 DEF Abort
<1>10. ASSUME NEW i \in Ids, Fork(i) PROVE TurnShape'
  <2>1. /\ MoveHead(i) /\ UNCHANGED <<phase, prompt>>
        /\ \A t \in Tasks : phase[t] \in {"new", "queued", "over", "lost"}
    BY <1>10 DEF Fork
  <2>2. TurnAtHead' /\ Same
    BY <1>1, <1>n, <2>1
  <2>3. RepliesHang'
    BY <1>c, <2>1, <2>2, MoveKeeps, RepliesStay DEF TurnShape
  <2> QED BY <2>2, <2>3 DEF TurnShape
<1>11. ASSUME NEW t \in Tasks, Skip(t) \/ CompactFails(t) PROVE TurnShape'
  <2>1. Driving(t) /\ Dequeue(t) /\ UNCHANGED <<logVars, prompt>>
    BY <1>11 DEF Skip, CompactFails
  <2> QED BY <1>4, <1>6, <2>1 DEF TurnShape
<1>12. ASSUME NEW t \in Tasks, NEW status \in {"running", "done", "error", "aborted"}
       PROVE  RunWrite(t, status) \in Seq(RunLine)
  BY DEF RunWrite, RunLine
<1>13. ASSUME NEW t \in Tasks, NEW kind \in Kinds, NEW after, AppendAll(<<Message(kind, t)>>, after)
       PROVE  /\ <<Message(kind, t)>> \in Seq(Entry) /\ Len(<<Message(kind, t)>>) = 1
              /\ \A k \in 1 .. Len(<<Message(kind, t)>>) :
                   <<Message(kind, t)>>[k].msg <= created + k /\ <<Message(kind, t)>>[k].kind = kind
              /\ head' = created + 1 /\ created + 1 \in Ids
              /\ Placed(<<Message(kind, t)>>)[1] = [Message(kind, t) EXCEPT !.parent = head]
  <2>1. created + 1 \in Ids
    BY <1>13, <1>c DEF AppendAll, Room
  <2>2. Message(kind, t) \in Entry /\ Message(kind, t).msg = created + 1 /\ Message(kind, t).kind = kind
    BY <2>1, MessageFits
  <2>3. Placed(<<Message(kind, t)>>)[1] = [Message(kind, t) EXCEPT !.parent = head]
    BY DEF Placed
  <2>4. head' = created + 1
    BY <1>13 DEF AppendAll
  <2> QED BY <1>c, <2>1, <2>2, <2>3, <2>4
<1> DEFINE nothing == <<>>
<1>e. /\ nothing = <<>> /\ nothing \in Seq(Entry) /\ nothing \in Seq(RunLine) /\ Len(nothing) = 0
      /\ (\A k \in 1 .. Len(nothing) : nothing[k].msg <= created + k)
      /\ (\A k \in 1 .. Len(nothing) : nothing[k].kind # "assistant" \/ nothing[k].msg <= created)
  OBVIOUS
<1> HIDE DEF nothing
<1>14. ASSUME NEW t \in Tasks, Begin(t) PROVE TurnShape'
  <2> DEFINE es == <<Message("user", t)>>
  <2>1. /\ t \in Turns /\ Driving(t) /\ AppendAll(es, RunWrite(t, "running"))
        /\ phase' = [phase EXCEPT ![t] = "stream"] /\ phase[t] = "queued"
        /\ prompt' = [prompt EXCEPT ![t] = created + 1] /\ queue' = queue
    BY <1>14 DEF Begin, Enter
  <2>2. /\ es \in Seq(Entry) /\ Len(es) = 1
        /\ \A k \in 1 .. Len(es) : es[k].msg <= created + k /\ es[k].kind = "user"
        /\ head' = created + 1
    BY <1>13, <2>1 DEF Kinds
  <2>3. RunWrite(t, "running") \in Seq(RunLine)
    BY <1>12
  <2> HIDE DEF es
  <2>4. Same
    BY <1>c, <1>n, <2>1
  <2>5. RepliesHang'
    BY <1>5, <2>1, <2>2, <2>3, <2>4
  <2>6. created + 1 \in Known'
    <3>1. 1 \in 1 .. Len(es)
      BY <2>2
    <3> QED BY <2>1, <2>2, <2>3, <3>1, TaskAppends
  <2>7. TurnAtHead'
    <3>1. phase'[t] = "stream" /\ prompt'[t] = created + 1
      BY <1>c, <2>1
    <3>2. \A u \in Turns : u # t => phase'[u] \notin {"stream", "compacting", "compacted"}
      BY <1>3, <2>1
    <3> QED BY <2>2, <2>6, <3>1, <3>2 DEF TurnAtHead
  <2> QED BY <2>5, <2>7 DEF TurnShape
<1>15. ASSUME NEW t \in Tasks, BeginReport(t) PROVE TurnShape'
  <2>1. /\ t \in Reports /\ Driving(t) /\ AppendAll(nothing, RunWrite(t, "running"))
        /\ phase' = [phase EXCEPT ![t] = "stream"] /\ UNCHANGED <<prompt, queue>>
    BY <1>15, <1>e DEF BeginReport, Enter
  <2>2. Same
    BY <1>c, <1>d, <1>n, <2>1
  <2>3. RepliesHang'
    BY <1>5, <1>12, <1>e, <2>1, <2>2
  <2>4. TurnAtHead'
    BY <1>1, <1>3, <1>d, <2>1
  <2> QED BY <2>3, <2>4 DEF TurnShape
<1>16. ASSUME NEW t \in Tasks, BeginCompact(t) PROVE TurnShape'
  <2>1. Driving(t) /\ UNCHANGED <<logVars, prompt>> /\ t \in Compactions
    BY <1>16 DEF BeginCompact
  <2>2. CASE Dequeue(t)
    BY <1>4, <1>6, <2>1, <2>2 DEF TurnShape
  <2>3. CASE phase' = [phase EXCEPT ![t] = "summarise"] /\ queue' = queue
    <3>1. Same
      BY <1>c, <1>d, <1>n, <2>1, <2>3
    <3>2. TurnAtHead'
      BY <1>1, <1>3, <1>d, <2>1, <2>3
    <3> QED BY <1>4, <2>1, <3>1, <3>2 DEF TurnShape
  <2> QED BY <1>16, <2>2, <2>3 DEF BeginCompact, Enter
<1>17. ASSUME NEW t \in Tasks, SubTranscript(t) PROVE TurnShape'
  <2> DEFINE e == [Message("sub", t) EXCEPT !.parent = IF t \in Turns THEN prompt[t] ELSE head]
  <2>1. AppendAside(e) /\ UNCHANGED taskVars
    BY <1>17 DEF SubTranscript
  <2>2. created + 1 \in Ids /\ up' /\ head' = head
    BY <1>c, <2>1 DEF AppendAside, Room, Ready, SessionShape, LogInv, LogShape
  <2>3. Message("sub", t) \in Entry /\ Message("sub", t).msg = created + 1 /\ Message("sub", t).kind = "sub"
    <3>1. "sub" \in Kinds
      BY DEF Kinds
    <3> QED BY <2>2, <3>1, MessageFits
  <2>4. \A i \in 0 .. created : i \in Ids \cup {NoId} /\ i <= created
    BY <1>c DEF LogInv, LogShape
  <2>5. (IF t \in Turns THEN prompt[t] ELSE head) \in 0 .. created
    BY <1>c DEF LogInv, LogShape
  <2>6. e \in Entry /\ e.parent <= created /\ e.msg <= created + 1 /\ e.kind = "sub"
    BY <1>c, <2>3, <2>4, <2>5 DEF Entry
  <2> HIDE DEF e
  <2>7. /\ \A i \in Ids, f \in Entry : Recorded(i, f)' <=> (Recorded(i, f) \/ (i = created + 1 /\ f = e))
        /\ \A i \in Ids, f \in Entry : OnFile(i, f)' <=> OnFile(i, f)
    BY <1>c, <2>1, <2>6, AsideKeeps
  <2>8. RepliesHang'
    <3>1. \A i \in Ids, f \in Entry : Recorded(i, f)' /\ IsReply(i, f) => Recorded(i, f)
      BY <2>6, <2>7 DEF IsReply
    <3>2. UNCHANGED <<phase, prompt>>
      BY <2>1 DEF taskVars
    <3> QED BY <2>7, <3>1, <3>2, RepliesStay DEF TurnShape
  <2>9. TurnAtHead'
    <3>1. Known \subseteq Known' /\ \A i \in Known : entries'[i] = entries[i]
      BY <1>c, <2>2, <2>7, TreeKeeps
    <3> QED BY <1>2, <2>1, <2>2, <3>1 DEF taskVars
  <2> QED BY <2>8, <2>9 DEF TurnShape
<1>b. ASSUME NEW t \in Tasks, BeginSummary(t) PROVE TurnShape'
  <2>1. /\ t \in Turns /\ Driving(t) /\ UNCHANGED <<logVars, queue, prompt>> /\ phase[t] = "stream"
        /\ phase' = [phase EXCEPT ![t] = "compacting"]
    BY <1>b DEF BeginSummary, Enter
  <2>2. Same
    BY <1>c, <1>n, <2>1
  <2>3. TurnAtHead'
    <3>1. \A u \in Turns : u # t => phase'[u] \notin {"stream", "compacting", "compacted"}
      BY <1>3, <2>1
    <3>2. prompt[t] \in Known /\ head = prompt[t]
      BY <2>1 DEF TurnShape, TurnAtHead
    <3>3. phase'[t] = "compacting" /\ prompt' = prompt /\ head' = head /\ Known' = Known
      BY <1>c, <2>1 DEF logVars, Known
    <3> QED BY <3>1, <3>2, <3>3 DEF TurnAtHead
  <2> QED BY <1>4, <2>1, <2>2, <2>3 DEF TurnShape
<1>18. ASSUME NEW t \in Tasks, NEW n \in Steps, EndSummary(t, n) PROVE TurnShape'
  <2> DEFINE s == Summary(t, Summarised(context[t], n), TRUE)
             es == <<s>>
  <2>1. /\ t \in Turns /\ Driving(t) /\ AppendAll(es, nothing) /\ phase[t] = "compacting"
        /\ phase' = [phase EXCEPT ![t] = "compacted"] /\ UNCHANGED <<queue, prompt>>
    BY <1>18, <1>e DEF EndSummary, Enter
  <2>2. s \in Entry /\ s.msg = created + 1 /\ s.kind = "summary" /\ s.turn = t
    <3>1. context[t] \in Seq(Known)
      BY DEF SessionShape, TaskShape
    <3>2. Summarised(context[t], n) \in SUBSET Known
      BY <3>1, SummarisedKnown
    <3>3. created + 1 \in Ids
      BY <1>c, <2>1 DEF AppendAll, Room
    <3> QED BY <1>c, <3>2, <3>3, SummaryFits
  <2> HIDE DEF s
  <2>3. /\ es \in Seq(Entry) /\ Len(es) = 1 /\ 1 \in 1 .. Len(es)
        /\ (\A k \in 1 .. Len(es) : es[k].msg <= created + k)
        /\ (\A k \in 1 .. Len(es) : es[k].kind # "assistant" \/ es[k].msg <= created)
    BY <1>c, <2>2
  <2>4. Placed(es)[1] = [s EXCEPT !.parent = head] /\ head' = created + 1
    BY <2>1 DEF Placed, AppendAll
  <2> HIDE DEF es
  <2>5. Same
    BY <1>c, <1>n, <2>1
  <2>6. RepliesHang'
    BY <1>5, <1>e, <2>1, <2>3, <2>5
  <2>7. /\ created + 1 \in Known' /\ entries'[created + 1] = Placed(es)[1]
        /\ Known \subseteq Known'
    BY <1>e, <2>1, <2>3, TaskAppends
  <2>8. TurnAtHead'
    <3>1. \A u \in Turns : u # t => phase'[u] \notin {"stream", "compacting", "compacted"}
      BY <1>3, <2>1
    <3>2. prompt[t] \in Known /\ head = prompt[t]
      BY <2>1 DEF TurnShape, TurnAtHead
    <3>3. entries'[head'] = [s EXCEPT !.parent = head] /\ head' \in Known'
      BY <2>4, <2>7
    <3>4. entries'[head'].turn = t /\ entries'[head'].parent = prompt'[t]
      BY <2>1, <2>2, <3>2, <3>3 DEF Entry
    <3>5. phase'[t] = "compacted" /\ prompt'[t] \in Known'
      BY <1>c, <2>1, <2>7, <3>2
    <3> QED BY <3>1, <3>3, <3>4, <3>5 DEF TurnAtHead
  <2> QED BY <2>6, <2>8 DEF TurnShape
<1>19. ASSUME NEW t \in Tasks, NEW how \in {"done", "error", "aborted"}, NEW parts \in Parts,
              EndTurn(t, how, parts) \/ SummaryThrows(t, how, parts)
       PROVE  TurnShape'
  <2>1. /\ t \in Turns /\ Driving(t) /\ phase[t] \in {"stream", "compacting", "compacted"}
        /\ AppendAll(Reply(t, parts), RunWrite(t, how)) /\ Dequeue(t)
        /\ UNCHANGED <<aborted, runs, prompt, forks>>
    BY <1>19 DEF EndTurn, SummaryThrows, Streams, Close
  <2>2. RunWrite(t, how) \in Seq(RunLine)
    BY <1>12
  <2>3. Same /\ TurnAtHead'
    BY <1>6, <2>1
  <2>4. CASE Reply(t, parts) = <<>>
    <3>1. AppendAll(nothing, RunWrite(t, how))
      BY <1>e, <2>1, <2>4
    <3>2. RepliesHang'
      BY <1>5, <1>e, <2>2, <2>3, <3>1
    <3> QED BY <2>3, <3>2 DEF TurnShape
  <2>5. ASSUME NEW r \in Entry, Reply(t, parts) = <<r>>, created + 1 \in Ids, r.msg = created + 1, r.turn = t
        PROVE  TurnShape'
    <3> DEFINE es == <<r>>
    <3>1. AppendAll(es, RunWrite(t, how))
      BY <2>1, <2>5
    <3>2. /\ es \in Seq(Entry) /\ Len(es) = 1 /\ 1 \in 1 .. Len(es)
          /\ (\A k \in 1 .. Len(es) : es[k].msg <= created + k)
      BY <1>c, <2>5
    <3>r. Placed(es)[1] = [r EXCEPT !.parent = head]
      BY DEF Placed
    <3> HIDE DEF es
    <3>3. /\ \A i \in Ids, e \in Entry :
               Recorded(i, e)' <=> (Recorded(i, e) \/ (i \in created + 1 .. created + Len(es) /\ e = Placed(es)[i - created]))
          /\ \A i \in Ids, e \in Entry : OnFile(i, e)' <=> OnFile(i, e)
      BY <1>c, <2>2, <3>1, <3>2, AppendKeeps
    <3>p. PICK e0 \in Entry : e0 = [r EXCEPT !.parent = head]
      <4>1. head \in Ids \cup {NoId}
        BY <1>c DEF LogInv, LogShape
      <4> QED BY <4>1 DEF Entry
    <3>4. ASSUME NEW i \in Ids, NEW e \in Entry, Recorded(i, e)' PROVE Recorded(i, e) \/ e = e0
      <4>1. SUFFICES ASSUME i \in created + 1 .. created + Len(es), e = Placed(es)[i - created] PROVE e = e0
        BY <3>3, <3>4
      <4>2. i - created = 1
        BY <1>c, <3>2, <4>1 DEF Ids
      <4> QED BY <3>r, <3>p, <4>1, <4>2
    <3>5. ASSUME NEW i \in Known PROVE i \in Ids /\ \E f \in Entry : f = entries[i] /\ OnFile(i, f)
      <4>1. PICK f \in Entry : f = entries[i]
        BY <1>c, TreeGrows
      <4>2. up /\ buffer = <<>> /\ i \in Ids
        BY <3>1 DEF AppendAll, Ready, Known
      <4>3. Recorded(i, f)
        BY <1>c, <4>1, <4>2, TreeGrows
      <4>4. OnFile(i, f)
        BY <4>2, <4>3, OnNothing DEF Recorded, Buffered
      <4> QED BY <4>1, <4>2, <4>4
    <3>6. e0.turn = t /\ e0.parent = head
      BY <2>5, <3>p DEF Entry
    <3>7. prompt[t] \in Ids /\ \E f \in Entry : OnFile(prompt[t], f)
      <4>1. prompt[t] \in Known
        BY <2>1 DEF TurnShape, TurnAtHead
      <4> QED BY <3>5, <4>1
    <3>8. \/ head = prompt[t]
          \/ head \in Ids /\ \E g \in Entry : OnFile(head, g) /\ g.turn = t /\ g.parent = prompt[t]
      <4>1. CASE phase[t] \in {"stream", "compacting"}
        BY <4>1, <2>1 DEF TurnShape, TurnAtHead
      <4>2. CASE phase[t] = "compacted"
        <5>1. head \in Known /\ entries[head].turn = t /\ entries[head].parent = prompt[t]
          BY <4>2, <2>1 DEF TurnShape, TurnAtHead
        <5> QED BY <3>5, <5>1
      <4> QED BY <2>1, <4>1, <4>2
    <3>9. phase'[t] = "over" /\ prompt' = prompt /\ log' = log
      BY <1>c, <2>1, Dequeued DEF AppendAll
    <3>10. Hangs(e0)'
      BY <2>1, <3>6, <3>7, <3>8, <3>9 DEF Hangs, OnFile
    <3>11. ASSUME NEW i \in Ids, NEW e \in Entry, Recorded(i, e)', IsReply(i, e) PROVE Hangs(e)'
      <4>1. CASE e = e0
        BY <3>10, <4>1 DEF Hangs
      <4>2. CASE Recorded(i, e)
        <5>1. Hangs(e)
          BY <3>11, <4>2 DEF TurnShape, RepliesHang
        <5> QED BY <2>3, <3>3, <5>1, HangsStays
      <4> QED BY <3>4, <3>11, <4>1, <4>2
    <3>12. RepliesHang'
      BY <3>11 DEF RepliesHang, IsReply
    <3> QED BY <2>3, <3>12 DEF TurnShape
  <2> QED BY <1>c, <1>n, <2>1, <2>4, <2>5, ReplyFits
<1>20. ASSUME NEW t \in Tasks, NEW how \in {"done", "error"}, EndReport(t, how) PROVE TurnShape'
  <2>1. Driving(t) /\ AppendAll(nothing, RunWrite(t, how)) /\ Dequeue(t) /\ prompt' = prompt
    BY <1>20, <1>e DEF EndReport
  <2>2. Same /\ TurnAtHead'
    BY <1>6, <2>1
  <2>3. RepliesHang'
    BY <1>5, <1>12, <1>e, <2>1, <2>2
  <2> QED BY <2>2, <2>3 DEF TurnShape
<1>21. ASSUME NEW t \in Tasks, EndCompact(t) PROVE TurnShape'
  <2> DEFINE s == Summary(t, Summarised(context[t], 0), FALSE)
             c == Copies(t)
             es == <<s>> \o c
  <2>1. Driving(t) /\ AppendAll(es, nothing) /\ Dequeue(t) /\ prompt' = prompt
    BY <1>21, <1>e DEF EndCompact
  <2>2. context[t] \in Seq(Known)
    BY DEF SessionShape, TaskShape
  <2>3. c \in Seq(Entry) /\ \A k \in 1 .. Len(c) : c[k].msg <= created
    BY <1>c, <2>2, CopiesFit
  <2>4. Len(es) = 1 + Len(c) /\ Len(c) \in Nat
    <3> HIDE DEF s, c
    <3> QED BY <2>3
  <2>5. s \in Entry /\ s.msg = created + 1 /\ s.kind = "summary"
    <3>1. Summarised(context[t], 0) \in SUBSET Known
      BY <2>2, SummarisedKnown
    <3>2. created + 1 \in Ids
      <4>1. created + Len(es) <= MaxEntries
        BY <2>1 DEF AppendAll, Room
      <4> HIDE DEF es
      <4>2. created + 1 \in 1 .. MaxEntries
        BY <1>c, <2>4, <4>1
      <4> QED BY <1>c, <4>2
    <3> QED BY <1>c, <3>1, <3>2, SummaryFits
  <2> HIDE DEF s, c
  <2>6. es \in Seq(Entry)
    BY <2>3, <2>5
  <2>7. ASSUME NEW k \in 1 .. Len(es)
        PROVE  es[k].msg <= created + k /\ (es[k].kind # "assistant" \/ es[k].msg <= created)
    <3>1. CASE k = 1
      BY <1>c, <2>3, <2>5, <3>1
    <3>2. CASE k # 1
      <4>1. k - 1 \in 1 .. Len(c)
        BY <2>4, <3>2
      <4>2. es[k] = c[k - 1]
        BY <2>3, <2>4, <3>2
      <4>3. c[k - 1] \in Entry
        BY <2>3, <4>1
      <4>4. es[k].msg \in Nat /\ es[k].msg <= created
        BY <2>3, <4>1, <4>2, <4>3 DEF Entry, Ids
      <4> QED BY <1>c, <4>4
    <3> QED BY <3>1, <3>2
  <2> HIDE DEF es
  <2>8. Same /\ TurnAtHead'
    BY <1>6, <2>1
  <2>9. RepliesHang'
    BY <1>5, <1>e, <2>1, <2>6, <2>7, <2>8
  <2> QED BY <2>8, <2>9 DEF TurnShape
<1>22. ASSUME HostCrash PROVE TurnShape'
  <2>1. /\ Crash /\ prompt' = prompt
        /\ phase' = [t \in Tasks |-> IF phase[t] \in {"new", "over"} THEN phase[t] ELSE "lost"]
    BY <1>22 DEF HostCrash
  <2>2. TurnAtHead'
    BY <1>1, <1>n, <2>1
  <2>3. Same
    BY <1>c, <1>n, <2>1
  <2>4. RepliesHang'
    BY <1>c, <2>1, <2>3, CrashKeeps, RepliesStay DEF TurnShape
  <2> QED BY <2>2, <2>4 DEF TurnShape
<1>23. ASSUME FlushRun \/ (Flush /\ UNCHANGED taskVars) PROVE TurnShape'
  <2>1. UNCHANGED <<phase, prompt, head, entries>>
    BY <1>23 DEF Flush, FlushRun, taskVars
  <2>2. TurnAtHead' /\ Same
    BY <1>2, <2>1 DEF Known
  <2>3. RepliesHang'
    BY <1>23, <1>c, <2>2, FlushKeeps, RepliesStay DEF TurnShape
  <2> QED BY <2>2, <2>3 DEF TurnShape
<1>24. ASSUME Reopen, UNCHANGED taskVars PROVE TurnShape'
  <2>1. UNCHANGED <<phase, prompt>> /\ ~up
    BY <1>24 DEF Reopen, taskVars
  <2>2. TurnAtHead'
    BY <1>1, <1>n, <2>1 DEF SessionShape, OneWorks, Working
  <2>3. RepliesHang'
    BY <1>24, <1>c, <2>1, ReopenKeeps, RepliesStay DEF TurnShape
  <2> QED BY <2>2, <2>3 DEF TurnShape
<1>25. ASSUME UNCHANGED sessionVars PROVE TurnShape'
  BY <1>8, <1>25 DEF sessionVars, taskVars
<1>26. CASE SessionNext
  BY <1>26, <1>7, <1>9, <1>10, <1>11, <1>b, <1>14, <1>15, <1>16, <1>17, <1>18, <1>19, <1>20, <1>21, <1>22,
     <1>23, <1>24 DEF SessionNext, EndOf, LogStep
<1> QED BY <1>25, <1>26

\* Where every reply hangs as it should, every turn is one path.
LEMMA HangsOnePath ==
  ASSUME SessionAssumption, MaxEntries \in Nat \ {0}, SessionShape, TurnShape
  PROVE  TurnIsOnePath
<1>l. LogInv /\ Rooted /\ NoId = 0
  BY TreeGrows DEF SessionShape, NoId
<1> SUFFICES ASSUME NEW i \in Known, entries[i].kind = "assistant", entries[i].msg = i
             PROVE  /\ prompt[entries[i].turn] \in Ancestors(i)
                    /\ \A j \in Ancestors(i) : j > prompt[entries[i].turn] => entries[j].turn = entries[i].turn
  BY DEF TurnIsOnePath, Original
<1>1. PICK e \in Entry : e = entries[i]
  BY <1>l, TreeGrows
<1>2. i \in Ids /\ up
  <2>1. i \in Ids /\ entries[i] # NoEntry
    BY DEF Known
  <2> QED BY <2>1, <1>l DEF LogInv, LogShape, Mirrored
<1>3. Recorded(i, e) /\ IsReply(i, e)
  BY <1>l, <1>1, <1>2, TreeGrows DEF IsReply
<1>4. Hangs(e)
  BY <1>2, <1>3 DEF TurnShape, RepliesHang
<1> DEFINE t == e.turn
           q == prompt[t]
\* What is on file is in memory.
<1>5. ASSUME NEW j \in Ids, NEW f \in Entry, OnFile(j, f) PROVE j \in Known /\ entries[j] = f /\ f # NoEntry
  <2>1. Recorded(j, f)
    BY <1>5 DEF Recorded
  <2> QED BY <1>l, <1>2, <2>1, NoEntryIsNone DEF LogInv, Mirrored, Known
<1>6. q \in Ids /\ q \in Known
  BY <1>4, <1>5 DEF Hangs
<1>7. /\ Ancestors(q) = {q} \cup Ancestors(entries[q].parent)
      /\ Ancestors(i) = {i} \cup Ancestors(entries[i].parent)
      /\ Ancestors(q) \subseteq 1 .. q
  <2>1. q # NoId /\ i # NoId
    BY <1>2, <1>6, <1>l DEF Ids
  <2> QED BY <1>l, <1>2, <1>6, <2>1, AncestorsUnfold, AncestorsOlder
<1>8. CASE e.parent = q
  BY <1>1, <1>6, <1>7, <1>8 DEF Ids
<1>9. CASE e.parent # q
  <2> DEFINE s == e.parent
  <2>1. PICK g \in Entry : s \in Ids /\ OnFile(s, g) /\ g.turn = t /\ g.parent = q
    BY <1>4, <1>9 DEF Hangs
  <2>2. s \in Known /\ entries[s] = g
    BY <1>5, <2>1
  <2>3. Ancestors(s) = {s} \cup Ancestors(q)
    <3>1. s # NoId
      BY <2>1, <1>l DEF Ids
    <3> QED BY <1>l, <2>1, <2>2, <3>1, AncestorsUnfold
  <2>4. Ancestors(i) = {i} \cup {s} \cup Ancestors(q)
    BY <1>1, <1>7, <2>3
  <2> QED BY <1>1, <1>6, <1>7, <2>1, <2>2, <2>4 DEF Ids
<1> QED BY <1>8, <1>9

\* From its reply back to its prompt a turn is one unbroken path: nothing of another
\* task stands between them, whatever is queued, aborted, compacted or restarted.
THEOREM TurnsAreOnePath ==
  Torn = FALSE /\ ForkMidTask = FALSE => (SessionSpec => []TurnIsOnePath)
<1> SUFFICES ASSUME Torn = FALSE, ForkMidTask = FALSE PROVE SessionSpec => []TurnIsOnePath
  OBVIOUS
<1>a. SessionAssumption /\ MaxEntries \in Nat \ {0}
  BY SessionAssumption, SessionLogAssumption DEF SessionLogAssumption
<1>1. SessionInit => TurnShape
  <2> SUFFICES ASSUME SessionInit PROVE TurnShape
    OBVIOUS
  <2>1. \A l : ~On(log, l) /\ ~On(buffer, l)
    BY OnNothing DEF SessionInit, LogInit
  <2>2. RepliesHang
    BY <2>1 DEF RepliesHang, Recorded, OnFile, Buffered
  <2>3. TurnAtHead
    BY <1>a DEF TurnAtHead, SessionInit, SessionAssumption, Tasks
  <2> QED BY <2>2, <2>3 DEF TurnShape
<1>2. TurnShape /\ SessionShape /\ SessionShape' /\ [SessionNext]_sessionVars => TurnShape'
  BY <1>a, TurnInductive
<1>3. TurnShape /\ SessionShape => TurnIsOnePath
  BY <1>a, HangsOnePath
<1> QED BY <1>1, <1>2, <1>3, ShapeAlways, PTL DEF SessionSpec

------------------------------------------------------------------------------
(* Nothing is forgotten.                                                   *)

\* Appending adds one element.
LEMMA ElementsAppend ==
  ASSUME NEW S, NEW s \in Seq(S), NEW x \in S
  PROVE  Elements(Append(s, x)) = Elements(s) \cup {x}
<1>1. /\ DOMAIN Append(s, x) = 1 .. Len(s) + 1 /\ DOMAIN s = 1 .. Len(s) /\ Len(s) \in Nat
      /\ \A n \in 1 .. Len(s) : Append(s, x)[n] = s[n]
      /\ Append(s, x)[Len(s) + 1] = x
  OBVIOUS
<1>2. ASSUME NEW y PROVE y \in Elements(Append(s, x)) <=> y \in Elements(s) \/ y = x
  BY <1>1 DEF Elements
<1> QED BY <1>2

\* The elements of a short sequence, and of one over S.
LEMMA ElementsOf ==
  ASSUME NEW S, NEW s \in Seq(S), NEW x
  PROVE  Elements(<<>>) = {} /\ Elements(<<x>>) = {x} /\ Elements(s) \subseteq S
BY DEF Elements

\* The tail keeps no summary.
LEMMA TailSaid ==
  ASSUME SessionAssumption, NEW t, context[t] \in Seq(Known)
  PROVE  \A k \in 1 .. Len(KeptTail(t)) : entries[KeptTail(t)[k]].kind # "summary"
<1> DEFINE F == Spoken(context[t])
           D == {i \in Known : entries[i].kind # "summary"}
           m == (IF Len(F) > RecentTail THEN Len(F) - RecentTail ELSE 0) + 1
<1>1. F \in Seq(Known \cap D)
  BY AmongKnown DEF Spoken
<1>2. KeptTail(t) = SubSeq(F, m, Len(F)) /\ m \in 1 .. Len(F) + 1 /\ Len(F) \in Nat
  BY <1>1 DEF KeptTail, Last, SessionAssumption
<1>3. \A i \in Known \cap D : entries[i].kind # "summary"
  OBVIOUS
<1> HIDE DEF F, D, m
<1>4. KeptTail(t) \in Seq(Known \cap D)
  BY <1>1, <1>2
<1> QED BY <1>3, <1>4

\* Compaction summarises an entry of the path or keeps it in the tail, as long as every
\* entry of that tail makes a message.
LEMMA TailKept ==
  ASSUME SessionAssumption, NEW t, context[t] \in Seq(Known), Len(context[t]) >= 1,
         \A j \in 2 .. Len(context[t]) : entries[context[t][j]].kind # "summary",
         \A k \in 1 .. Len(KeptTail(t)) : entries[KeptTail(t)[k]].text
  PROVE  \A x \in Elements(context[t]) : entries[x].text =>
           x \in Summarised(context[t], 0) \/ \E k \in 1 .. Len(KeptTail(t)) : KeptTail(t)[k] = x
<1> DEFINE path == context[t]
           N == Len(path)
           F == Spoken(path)
           M == Messages(path)
           R == RecentTail
           W == Voiced
           D == {i \in Known : entries[i].kind # "summary"}
           d == IF path[1] \in D THEN 0 ELSE 1
           p == IF N - R > d THEN N - R ELSE d
           b == (IF Len(F) > R THEN Len(F) - R ELSE 0) + 1
           cut == IF Len(M) > R THEN Len(M) - R ELSE 1
           K == KeptTail(t)
<1>1. N \in Nat /\ N >= 1 /\ DOMAIN path = 1 .. N /\ R \in Nat /\ R >= 1 /\ path \in Seq(Known)
      /\ \A j \in 1 .. N : path[j] \in Known
  BY DEF SessionAssumption
<1>2. \A j \in d + 1 .. N : path[j] \in D
  <2> TAKE j \in d + 1 .. N
  <2>1. (j = 1 /\ d = 0) \/ j \in 2 .. N
    BY <1>1
  <2> QED BY <1>1, <2>1
<1>3. d \in 0 .. N /\ d \in {0, 1} /\ p \in 0 .. N /\ p \in Nat /\ d <= p
  BY <1>1
<1>4. F = Among(path, D) /\ M = Among(path, W)
  BY DEF Spoken, Messages
<1>5. F \in Seq(Known) /\ M \in Seq(Known)
  BY <1>1, <1>4, AmongKnown
<1>6. K = SubSeq(F, b, Len(F))
  BY DEF KeptTail, Last
<1>7. Summarised(path, 0) = {M[k] : k \in {j \in DOMAIN M : j <= cut}}
  BY <1>5 DEF Summarised
<1>8. \A x \in Known : x \in W <=> entries[x].text
  BY DEF Voiced
<1>9. p = N - R \/ (p = d /\ N - R <= d)
  BY <1>1, <1>3
<1> HIDE DEF D, W, d, p, F, M, R
<1>10. PICK n \in 0 .. d : /\ Len(F) = n + N - d
                           /\ \A j \in d + 1 .. N : F[n + j - d] = path[j]
  <2>1. path \in Seq(Known) /\ d \in 0 .. Len(path) /\ \A j \in d + 1 .. Len(path) : path[j] \in D
    BY <1>1, <1>2, <1>3
  <2> HIDE DEF path
  <2>2. PICK s, S, e : s = path /\ S = D /\ e = d
    OBVIOUS
  <2>3. \E m \in 0 .. e : SplitAt(s, S, e, m)
    <3>1. s \in Seq(Known) /\ e \in 0 .. Len(s) /\ \A j \in e + 1 .. Len(s) : s[j] \in S
      BY <2>1, <2>2
    <3> QED BY <3>1, AmongSplit
  <2> QED BY <1>4, <2>2, <2>3 DEF SplitAt
<1> HIDE DEF path, N
<1>11. Len(F) \in Nat /\ Len(M) \in Nat /\ b \in 1 .. Len(F) + 1 /\ DOMAIN M = 1 .. Len(M)
  BY <1>1, <1>5
<1>12. Len(K) = Len(F) - b + 1 /\ \A k \in 1 .. Len(F) - b + 1 : K[k] = F[b + k - 1]
  <2> HIDE DEF b, K
  <2>1. /\ Len(SubSeq(F, b, Len(F))) = Len(F) - b + 1
        /\ \A k \in 1 .. Len(F) - b + 1 : SubSeq(F, b, Len(F))[k] = F[b + k - 1]
    BY <1>5, <1>11
  <2> QED BY <1>6, <2>1
\* What comes after p is kept, and so makes a message.
<1>13. ASSUME NEW j \in p + 1 .. N PROVE \E k \in 1 .. Len(K) : K[k] = path[j]
  <2> DEFINE k == n + j - d - b + 1
  <2>1. j \in d + 1 .. N /\ j > N - R
    BY <1>1, <1>3, <1>9
  <2>2. k \in 1 .. Len(F) - b + 1 /\ b + k - 1 = n + j - d
    BY <1>1, <1>3, <1>10, <1>11, <2>1
  <2>3. F[n + j - d] = path[j]
    BY <1>10, <2>1
  <2> HIDE DEF k, b, K
  <2> QED BY <1>12, <2>2, <2>3
<1>14. \A k \in 1 .. Len(K) : entries[K[k]].text
  OBVIOUS
<1> HIDE DEF b, K
<1>15. \A j \in p + 1 .. N : path[j] \in W
  <2> TAKE j \in p + 1 .. N
  <2>1. PICK k \in 1 .. Len(K) : K[k] = path[j]
    BY <1>13
  <2>2. j \in 1 .. N
    BY <1>1, <1>3
  <2> QED BY <1>1, <1>8, <1>14, <2>1, <2>2
<1>16. PICK m \in 0 .. p : /\ Len(M) = m + N - p
                           /\ \A j \in 1 .. p : path[j] \in W => \E k \in 1 .. m : M[k] = path[j]
  <2>1. path \in Seq(Known) /\ p \in 0 .. Len(path) /\ \A j \in p + 1 .. Len(path) : path[j] \in W
    BY <1>1, <1>3, <1>15 DEF N
  <2>2. PICK s, S, e : s = path /\ S = W /\ e = p
    OBVIOUS
  <2>3. \E m \in 0 .. e : SplitAt(s, S, e, m)
    <3>1. s \in Seq(Known) /\ e \in 0 .. Len(s) /\ \A j \in e + 1 .. Len(s) : s[j] \in S
      BY <2>1, <2>2
    <3> QED BY <3>1, AmongSplit
  <2> HIDE DEF path
  <2> QED BY <1>4, <2>2, <2>3 DEF SplitAt, N
<1>17. \A k \in 1 .. m : k \in 1 .. Len(M) /\ k <= cut
  BY <1>1, <1>3, <1>9, <1>11, <1>16
<1> HIDE DEF cut
<1>18. ASSUME NEW x \in Elements(path), entries[x].text
       PROVE  x \in Summarised(path, 0) \/ \E k \in 1 .. Len(K) : K[k] = x
  <2>1. PICK j \in 1 .. N : x = path[j]
    BY <1>1, <1>18 DEF Elements
  <2>2. CASE j <= p
    <3>1. j \in 1 .. p /\ path[j] \in W
      BY <1>1, <1>3, <1>8, <1>18, <2>1, <2>2
    <3>2. PICK k \in 1 .. m : M[k] = path[j]
      BY <1>16, <3>1
    <3>3. k \in DOMAIN M /\ k <= cut
      BY <1>11, <1>17
    <3> QED BY <1>7, <2>1, <3>2, <3>3
  <2>3. CASE ~(j <= p)
    <3>1. j \in p + 1 .. N
      BY <1>1, <1>3, <2>3
    <3> QED BY <1>13, <2>1, <3>1
  <2> QED BY <2>2, <2>3
<1> QED BY <1>18 DEF path, K

\* What is said on the branch of h can be told from the path to h.
KeptAt(h) ==
  \A i \in Ancestors(h) : entries[i].kind \in {"user", "assistant"} /\ entries[i].text =>
    \E p \in Elements(Path(h)) :
      entries[p].text /\ (entries[i].msg = entries[p].msg \/ entries[i].msg \in entries[p].covers)

\* What is said on the branch of the head can be told from its path.
Kept == \A h \in Ids \cup {NoId} : h = head => KeptAt(h)

\* No compaction in flight has left its summary, and no entry without text has been
\* re-anchored.
Plain == \A i \in Known : ~entries[i].auto /\ (entries[i].text \/ entries[i].msg = i)

\* The condition under which ManualForgetsNothing makes its promise.
Untroubled == crashes = 0 /\ forks = 0 /\ Plain

\* A compaction works on the path it has read.
Reading ==
  \A t \in Tasks, h \in Ids \cup {NoId} :
    phase[t] = "summarise" /\ h = head => context[t] = Path(h) /\ Len(context[t]) >= 2

\* The inductive invariant behind it.
KeepInv ==
  /\ crashes = 0 => up
  /\ Untroubled => Kept /\ Reading

\* The log keeps the entries a tree, now and in the next state.
LEMMA RootedNow == LogInv => Rooted
BY TreeGrows

LEMMA RootedNext == (LogInv => Rooted)'
BY RootedNow, PTL

\* As long as nothing is appended on it a branch is read as before.
LEMMA KeptStays ==
  ASSUME LogInv, LogInv', \A i \in 1 .. created : entries'[i] = entries[i],
         NEW h \in 0 .. created
  PROVE  /\ Path(h)' = Path(h) /\ Ancestors(h)' = Ancestors(h)
         /\ h \in Ids \cup {NoId} /\ Ancestors(h) \subseteq 1 .. created
         /\ Elements(Path(h)) \subseteq 1 .. created
         /\ Elements(Path(h)) \subseteq Known
         /\ KeptAt(h) => KeptAt(h)'
<1>1. Rooted /\ Rooted'
  BY RootedNow, RootedNext
<1>2. created \in 0 .. MaxEntries /\ h \in Nat /\ h <= created /\ h \in Ids \cup {NoId} /\ MaxEntries \in Nat
  BY SessionLogAssumption DEF SessionLogAssumption, LogInv, LogShape, Ids, NoId
<1>3. Path(h)' = Path(h) /\ Ancestors(h)' = Ancestors(h)
  BY <1>1, <1>2, TreeSame
<1>4. Ancestors(h) \subseteq 1 .. created
  <2>1. Ancestors(h) \subseteq 1 .. h
    BY <1>1, <1>2, TreeReadsNow DEF TreeReads
  <2> QED BY <1>2, <2>1
<1>5. Elements(Path(h)) \subseteq 1 .. created /\ Elements(Path(h)) \subseteq Known
  <2>1. Path(h) \in Seq(Known)
    BY <1>1, <1>2, TreeReadsNow DEF TreeReads
  <2>2. Elements(Path(h)) \subseteq Known
    BY <2>1, ElementsOf
  <2> QED BY <2>2, TreeGrows
<1>6. ASSUME KeptAt(h) PROVE KeptAt(h)'
  <2> SUFFICES ASSUME NEW i \in Ancestors(h)', entries'[i].kind \in {"user", "assistant"}, entries'[i].text
               PROVE  \E p \in Elements(Path(h)') :
                        /\ entries'[p].text
                        /\ entries'[i].msg = entries'[p].msg \/ entries'[i].msg \in entries'[p].covers
    BY DEF KeptAt
  <2>1. i \in Ancestors(h) /\ entries'[i] = entries[i]
    BY <1>3, <1>4
  <2>2. PICK p \in Elements(Path(h)) :
          /\ entries[p].text
          /\ entries[i].msg = entries[p].msg \/ entries[i].msg \in entries[p].covers
    BY <1>6, <2>1 DEF KeptAt
  <2>3. entries'[p] = entries[p]
    BY <1>5
  <2> QED BY <1>3, <2>1, <2>2, <2>3
<1> QED BY <1>2, <1>3, <1>4, <1>5, <1>6

\* An entry appended under a branch that is not a summary is on its own path.
LEMMA KeptGrows ==
  ASSUME LogInv, LogInv', \A i \in 1 .. created : entries'[i] = entries[i],
         NEW h \in 0 .. created, KeptAt(h),
         NEW n \in Known', entries'[n].parent = h, entries'[n].kind # "summary"
  PROVE  KeptAt(n)'
<1>1. Rooted' /\ Rooted
  BY RootedNow, RootedNext
<1>2. /\ Path(h)' = Path(h) /\ Ancestors(h)' = Ancestors(h) /\ KeptAt(h)' /\ h \in Ids \cup {NoId}
  BY KeptStays
<1>3. Ancestors(n)' = {n} \cup Ancestors(h)' /\ Path(n)' = Append(Path(h)', n) /\ Path(h)' \in Seq(Known')
  BY <1>1, <1>2, TreeReadsNext DEF TreeReads
<1>4. Elements(Path(n)') = Elements(Path(h)') \cup {n}
  <2>0. PICK S : S = Known'
    OBVIOUS
  <2>1. PICK s \in Seq(S) : s = Path(h)'
    BY <1>3, <2>0
  <2>2. Elements(Append(s, n)) = Elements(s) \cup {n}
    BY <2>0, ElementsAppend, ZenonT(30)
  <2> QED BY <1>3, <2>1, <2>2
<1> SUFFICES ASSUME NEW i \in Ancestors(n)', entries'[i].kind \in {"user", "assistant"}, entries'[i].text
             PROVE  \E p \in Elements(Path(n)') :
                      /\ entries'[p].text
                      /\ entries'[i].msg = entries'[p].msg \/ entries'[i].msg \in entries'[p].covers
  BY DEF KeptAt
<1>5. CASE i = n
  BY <1>4, <1>5
<1>6. CASE i \in Ancestors(h)'
  <2>1. \E p \in Elements(Path(h)') :
          /\ entries'[p].text
          /\ entries'[i].msg = entries'[p].msg \/ entries'[i].msg \in entries'[p].covers
    BY <1>2, <1>6 DEF KeptAt
  <2> QED BY <1>4, <2>1
<1> QED BY <1>3, <1>5, <1>6

\* A manual compaction leaves a branch from which all can be told.
LEMMA CompactKeeps ==
  ASSUME SessionAssumption, SessionShape, SessionShape', NEW t \in Tasks, EndCompact(t),
         NEW h \in 0 .. created, h = head, KeptAt(h), context[t] = Path(h), Len(context[t]) >= 2,
         Plain'
  PROVE  \A g \in Ids \cup {NoId} : g = head' => KeptAt(g)'
<1> DEFINE path == context[t]
           K == KeptTail(t)
           e0 == Summary(t, Summarised(path, 0), FALSE)
           es == <<e0>> \o Copies(t)
           n == Len(es)
<1>a. MaxEntries \in Nat \ {0} /\ LogInv /\ LogInv' /\ created \in Nat
  BY SessionLogAssumption DEF SessionLogAssumption, SessionShape, LogInv, LogShape
<1>1. AppendAll(es, <<>>)
  BY DEF EndCompact
<1>2. path \in Seq(Known) /\ Rooted /\ Rooted' /\ h \in Ids \cup {NoId}
  <2>1. Rooted /\ Rooted'
    BY <1>a, RootedNow, RootedNext
  <2>2. path \in Seq(Known)
    BY DEF SessionShape, TaskShape
  <2>3. h \in Ids \cup {NoId}
    BY <1>a DEF LogInv, LogShape, Ids, NoId
  <2> QED BY <2>1, <2>2, <2>3
<1>3. /\ K \in Seq(Known) /\ Copies(t) \in Seq(Entry) /\ Len(Copies(t)) = Len(K)
      /\ \A k \in 1 .. Len(K) : Copies(t)[k] = entries[K[k]] /\ Copies(t)[k].msg <= created
  BY <1>a, <1>2, CopiesFit
<1>4. \A j \in 2 .. Len(path) : entries[path[j]].kind # "summary"
  BY <1>a, <1>2, PathSaid
<1>5. \A k \in 1 .. Len(K) : entries[K[k]].kind # "summary"
  BY <1>2, TailSaid
<1> HIDE DEF path, K
<1>6. Len(K) \in Nat /\ \A k \in 1 .. Len(K) : K[k] \in Known
  BY <1>3
<1>7. n = 1 + Len(K) /\ n \in Nat
  <2> HIDE DEF e0
  <2> QED BY <1>3, <1>6
<1>8. Summarised(path, 0) \subseteq Known
  BY <1>2, SummarisedKnown
<1>9. created + 1 \in Ids
  <2>1. created + n <= MaxEntries
    BY <1>1 DEF AppendAll, Room
  <2> HIDE DEF es
  <2> QED BY <1>a, <1>6, <1>7, <2>1 DEF Ids
<1>10. /\ e0 \in Entry /\ e0.msg = created + 1 /\ e0.kind = "summary"
       /\ e0.covers = Remembered(Summarised(path, 0)) /\ e0.text = TRUE
  <2>1. e0 \in Entry /\ e0.msg = created + 1 /\ e0.kind = "summary"
    BY <1>a, <1>8, <1>9, SummaryFits
  <2>2. "summary" \in Kinds
    BY DEF Kinds
  <2>3. Message("summary", t) \in Entry
    BY <1>9, <2>2, MessageFits
  <2>4. e0.covers = Remembered(Summarised(path, 0))
    BY <2>3 DEF Summary, Entry
  <2>5. e0.text = TRUE
    BY <2>3, SummaryVoiced
  <2> QED BY <2>1, <2>4, <2>5
<1> HIDE DEF e0
<1>11. es[1] = e0 /\ \A k \in 1 .. Len(K) : es[k + 1] = Copies(t)[k]
  BY <1>3, <1>6
<1>12. es \in Seq(Entry)
  BY <1>3, <1>10
<1> HIDE DEF es
<1>13. ASSUME NEW k \in 1 .. n PROVE es[k].msg <= created + k /\ es[k] \in Entry
  <2>1. es[k] \in Entry
    BY <1>12
  <2>2. CASE k = 1
    BY <1>a, <1>10, <1>11, <2>2
  <2>3. CASE k # 1
    <3>1. k - 1 \in 1 .. Len(K) /\ k - 1 + 1 = k
      BY <1>6, <1>7, <2>3
    <3>2. es[k] = Copies(t)[k - 1] /\ Copies(t)[k - 1].msg <= created
      BY <1>3, <1>11, <3>1
    <3>3. es[k].msg \in Nat
      BY <2>1 DEF Entry, Ids
    <3> QED BY <1>a, <2>1, <3>2, <3>3
  <2> QED BY <2>1, <2>2, <2>3
<1>14. /\ created' = created + n
       /\ \A k \in 1 .. n : created + k \in Known' /\ entries'[created + k] = Placed(es)[k]
  <2>1. <<>> \in Seq(RunLine)
    OBVIOUS
  <2> QED BY <1>a, <1>1, <1>12, <1>13, <2>1, TaskAppends
<1>15. ASSUME NEW k \in 1 .. n
       PROVE  Placed(es)[k] = [es[k] EXCEPT !.parent = IF k = 1 THEN head ELSE created + k - 1]
  <2>1. k \in DOMAIN es
    BY <1>12
  <2> QED BY <2>1 DEF Placed
\* The ids of the new entries, as constants of the step.
<1>16. PICK c \in Nat : c = created
  BY <1>a
<1>17. /\ c + 1 \in Known' /\ entries'[c + 1].kind = "summary" /\ entries'[c + 1].parent = h
       /\ entries'[c + 1].covers = Remembered(Summarised(path, 0)) /\ entries'[c + 1].text = TRUE
  <2>1. 1 \in 1 .. n
    BY <1>6, <1>7
  <2>2. entries'[c + 1] = [e0 EXCEPT !.parent = h] /\ c + 1 \in Known'
    BY <1>11, <1>14, <1>15, <1>16, <2>1
  <2> QED BY <1>10, <2>2 DEF Entry
<1>18. ASSUME NEW k \in 1 .. Len(K)
       PROVE  /\ c + k + 1 \in Known' /\ entries'[c + k + 1].parent = c + k
              /\ entries'[c + k + 1].kind = entries[K[k]].kind
              /\ entries'[c + k + 1].msg = entries[K[k]].msg
              /\ entries'[c + k + 1].covers = entries[K[k]].covers
              /\ entries'[c + k + 1].text = entries[K[k]].text
  <2>0. Len(K) \in Nat /\ n = 1 + Len(K)
    BY <1>6, <1>7
  <2> HIDE DEF n
  <2>1. k + 1 \in 1 .. n /\ k + 1 # 1 /\ c + (k + 1) = c + k + 1 /\ c + (k + 1) - 1 = c + k
    BY <2>0
  <2>2. es[k + 1] = entries[K[k]] /\ es[k + 1] \in Entry
    BY <1>3, <1>11, <1>13, <2>1
  <2>3. entries'[c + (k + 1)] = [es[k + 1] EXCEPT !.parent = c + (k + 1) - 1] /\ c + (k + 1) \in Known'
    BY <1>14, <1>15, <1>16, <2>1
  <2>4. entries'[c + k + 1] = [es[k + 1] EXCEPT !.parent = c + k] /\ c + k + 1 \in Known'
    BY <2>1, <2>3
  <2> QED BY <2>2, <2>4 DEF Entry
\* A copy is not the original, so it is of an entry with a text.
<1>y. \A k \in 1 .. Len(K) : entries[K[k]].text
  <2> TAKE k \in 1 .. Len(K)
  <2>1. Copies(t)[k] = entries[K[k]] /\ Copies(t)[k].msg <= created
    BY <1>3
  <2>2. entries[K[k]].msg \in Nat /\ entries[K[k]].msg <= c
    <3>1. Copies(t)[k] \in Entry
      BY <1>3
    <3> QED BY <1>16, <2>1, <3>1 DEF Entry, Ids
  <2>3. entries[K[k]].msg # c + k + 1
    BY <1>6, <2>2
  <2> QED BY <1>18, <2>3 DEF Plain
<1>z. \A x \in Elements(path) : entries[x].text =>
        x \in Summarised(path, 0) \/ \E k \in 1 .. Len(K) : K[k] = x
  BY <1>2, <1>4, <1>y, TailKept DEF path, K
\* What the new entries remember of the old ones.
<1>19. \A i \in 1 .. created : entries'[i] = entries[i]
  <2> TAKE i \in 1 .. created
  <2>1. i \in Ids /\ i \notin created + 1 .. created + n
    BY <1>a DEF LogInv, LogShape, Ids
  <2> QED BY <1>1, <2>1 DEF AppendAll
<1>20. ASSUME NEW x \in Elements(path), entries[x].text
       PROVE  \E k \in 1 .. n : /\ entries'[c + k].text
                               /\ {entries[x].msg} \cup entries[x].covers \subseteq
                                     {entries'[c + k].msg} \cup entries'[c + k].covers
  <2>1. CASE x \in Summarised(path, 0)
    <3>1. {entries[x].msg} \cup entries[x].covers \subseteq Remembered(Summarised(path, 0))
      BY <2>1 DEF Remembered
    <3>2. 1 \in 1 .. n
      BY <1>6, <1>7
    <3> QED BY <1>17, <3>1, <3>2
  <2>2. CASE \E k \in 1 .. Len(K) : K[k] = x
    <3>1. PICK k \in 1 .. Len(K) : K[k] = x
      BY <2>2
    <3>2. k + 1 \in 1 .. n /\ c + k + 1 = c + (k + 1)
      BY <1>6, <1>7
    <3>3. {entries[x].msg} \cup entries[x].covers = {entries'[c + (k + 1)].msg} \cup entries'[c + (k + 1)].covers
      BY <1>18, <3>1, <3>2
    <3>4. entries'[c + (k + 1)].text
      BY <1>18, <1>20, <3>1, <3>2
    <3> QED BY <3>2, <3>3, <3>4
  <2> QED BY <1>z, <1>20, <2>1, <2>2
\* The branch of the last of them.
<1> DEFINE Good(k) == \A a \in Ids : a = c + k => /\ Ancestors(a)' \subseteq (c + 1 .. a) \cup Ancestors(h)
                                                 /\ Elements(Path(a)') = c + 1 .. a
           Bad == {k \in 1 .. n : ~Good(k)}
<1>21. /\ Path(h)' = Path(h) /\ Ancestors(h)' = Ancestors(h) /\ KeptAt(h)'
       /\ Elements(Path(h)) \subseteq 1 .. created /\ Ancestors(h) \subseteq 1 .. created
  BY <1>a, <1>19, KeptStays
<1>22. \A k \in 1 .. n : c + k \in Ids /\ c + k \in Known' /\ c + k # NoId
  <2> TAKE k \in 1 .. n
  <2>1. c + k \in Known'
    BY <1>14, <1>16
  <2> QED BY <2>1 DEF Known, Ids, NoId
<1>23. ASSUME Bad # {} PROVE FALSE
  <2>1. Bad \in SUBSET Nat
    OBVIOUS
  <2>2. PICK k \in Bad : \A j \in Bad : k <= j
    BY <1>23, <2>1, Least
  <2>3. k \in 1 .. n /\ ~Good(k)
    OBVIOUS
  <2>a. PICK a \in Ids : a = c + k /\ a \in Known' /\ a # NoId
    BY <1>22, <2>3
  <2>g. /\ Ancestors(a)' \subseteq (c + 1 .. a) \cup Ancestors(h) /\ Elements(Path(a)') = c + 1 .. a
        => Good(k)
    BY <2>a
  <2>4. CASE k = 1
    <3>0. a = c + 1 /\ entries'[a].kind = "summary" /\ entries'[a].parent = h
      BY <1>17, <2>4, <2>a
    <3>1. Ancestors(a)' = {a} \cup Ancestors(h)' /\ Path(a)' = <<a>>
      BY <1>2, <2>a, <3>0, TreeReadsNext DEF TreeReads
    <3>2. Elements(Path(a)') = {a}
      <4>1. Elements(<<a>>) = {a}
        BY <1>2, ElementsOf
      <4> QED BY <3>1, <4>1
    <3>3. c + 1 .. a = {a}
      BY <3>0
    <3> QED BY <1>21, <2>3, <2>g, <3>1, <3>2, <3>3
  <2>5. CASE k # 1
    <3>1. PICK j \in 1 .. n : j = k - 1 /\ j \in 1 .. Len(K) /\ c + j + 1 = c + k /\ j < k
      BY <1>6, <1>7, <2>3, <2>5
    <3>2. Good(j)
      <4>1. j \notin Bad
        <5> HIDE DEF Bad
        <5> QED BY <2>1, <2>2, <3>1
      <4> HIDE DEF Good
      <4> QED BY <3>1, <4>1
    <3>3. PICK b \in Ids : b = c + j /\ b \in Known'
      BY <1>22, <3>1
    <3>4. entries'[a].parent = b /\ entries'[a].kind # "summary"
      <4>1. K[j] \in Known /\ entries[K[j]].kind # "summary" /\ c + j + 1 = a
        BY <1>5, <1>6, <2>a, <3>1
      <4>2. entries'[c + j + 1].parent = c + j /\ entries'[c + j + 1].kind = entries[K[j]].kind
        BY <1>18, <3>1
      <4> QED BY <3>3, <4>1, <4>2
    <3>5. Ancestors(a)' = {a} \cup Ancestors(b)' /\ Path(a)' = Append(Path(b)', a) /\ Path(b)' \in Seq(Known')
      BY <1>2, <2>a, <3>3, <3>4, TreeReadsNext DEF TreeReads
    <3>6. Elements(Path(a)') = Elements(Path(b)') \cup {a}
      <4>0. PICK S : S = Known'
        OBVIOUS
      <4>1. PICK s \in Seq(S) : s = Path(b)'
        BY <3>5, <4>0
      <4>2. Elements(Append(s, a)) = Elements(s) \cup {a}
        BY <2>a, <4>0, ElementsAppend, ZenonT(30)
      <4> QED BY <3>5, <4>1, <4>2
    <3>7. Ancestors(b)' \subseteq (c + 1 .. b) \cup Ancestors(h) /\ Elements(Path(b)') = c + 1 .. b
      BY <3>2, <3>3
    <3>8. (c + 1 .. b) \cup {a} = c + 1 .. a
      BY <2>a, <3>1, <3>3
    <3>9. Ancestors(a)' \subseteq (c + 1 .. a) \cup Ancestors(h) /\ Elements(Path(a)') = c + 1 .. a
      BY <3>5, <3>6, <3>7, <3>8
    <3> QED BY <2>3, <2>g, <3>9
  <2> QED BY <2>4, <2>5
<1>24. n \in 1 .. n /\ Good(n)
  <2>1. n \in 1 .. n
    BY <1>6, <1>7
  <2> QED BY <1>23, <2>1
<1> TAKE g \in Ids \cup {NoId}
<1> SUFFICES ASSUME g = head' PROVE KeptAt(g)'
  OBVIOUS
<1>25. g = c + n
  BY <1>1, <1>7, <1>6, <1>16 DEF AppendAll
<1> SUFFICES ASSUME NEW i \in Ancestors(g)', entries'[i].kind \in {"user", "assistant"}, entries'[i].text
             PROVE  \E p \in Elements(Path(g)') :
                      /\ entries'[p].text
                      /\ entries'[i].msg = entries'[p].msg \/ entries'[i].msg \in entries'[p].covers
  BY DEF KeptAt
<1>26. Elements(Path(g)') = c + 1 .. g /\ Ancestors(g)' \subseteq (c + 1 .. g) \cup Ancestors(h)
  <2>1. g \in Ids
    BY <1>22, <1>24, <1>25
  <2> QED BY <1>24, <1>25, <2>1
<1>27. CASE i \in c + 1 .. g
  BY <1>26, <1>27
<1>28. CASE i \in Ancestors(h)
  <2>1. entries'[i] = entries[i]
    BY <1>19, <1>21, <1>28
  <2>2. PICK x \in Elements(path) :
          /\ entries[x].text
          /\ entries[i].msg = entries[x].msg \/ entries[i].msg \in entries[x].covers
    BY <1>28, <2>1 DEF KeptAt, path
  <2>3. PICK k \in 1 .. n : /\ entries'[c + k].text
                           /\ {entries[x].msg} \cup entries[x].covers \subseteq
                                {entries'[c + k].msg} \cup entries'[c + k].covers
    BY <1>20, <2>2
  <2>4. c + k \in Elements(Path(g)')
    BY <1>7, <1>6, <1>25, <1>26
  <2> QED BY <2>1, <2>2, <2>3, <2>4
<1> QED BY <1>26, <1>27, <1>28

\* Every step keeps everything told.
LEMMA KeepInductive ==
  ASSUME SessionAssumption, MaxEntries \in Nat \ {0}, Torn = FALSE,
         SessionShape, SessionShape', KeepInv, [SessionNext]_sessionVars
  PROVE  KeepInv'
<1>c. /\ created \in Nat /\ NoId = 0 /\ (\A i \in 1 .. MaxEntries : i \in Ids) /\ LogInv /\ LogInv'
      /\ head \in 0 .. created /\ head \in Ids \cup {NoId}
      /\ phase \in [Tasks -> {"new", "queued", "stream", "compacting", "compacted", "summarise", "over", "lost"}]
      /\ context \in [Tasks -> Seq(Known)]
      /\ crashes \in Nat /\ forks \in Nat
  BY DEF SessionShape, LogInv, LogShape, TaskShape, NoId, Ids
<1>n. Turns \subseteq Tasks /\ Reports \subseteq Tasks /\ Compactions \subseteq Tasks
  BY DEF Tasks
<1>p. PICK h \in 0 .. created : h = head /\ h \in Ids \cup {NoId}
  BY <1>c
\* A step within an untroubled run, of a running process.
<1>k. ASSUME crashes' = crashes, forks' = forks, up' = up,
             Known \subseteq Known', \A i \in Known : entries'[i] = entries[i],
             Untroubled, Kept, Reading, Untroubled' => Kept' /\ Reading'
      PROVE  KeepInv'
  BY <1>k DEF KeepInv
<1>u. ASSUME crashes' = crashes, forks' = forks, up' = up,
             Known \subseteq Known', \A i \in Known : entries'[i] = entries[i],
             Untroubled /\ Kept /\ Reading /\ KeptAt(h) /\ Untroubled' => Kept' /\ Reading'
      PROVE  KeepInv'
  <2>1. Untroubled' => Untroubled
    BY <1>u DEF Untroubled, Plain
  <2>2. Kept => KeptAt(h)
    BY <1>p DEF Kept
  <2> QED BY <1>u, <2>1, <2>2 DEF KeepInv
\* The head stays, and what a compaction reads.
<1>q. ASSUME crashes' = crashes, forks' = forks, up' = up, head' = head,
             \A i \in 1 .. created : entries'[i] = entries[i],
             \A t \in Tasks : phase'[t] = "summarise" => phase[t] = "summarise" /\ context'[t] = context[t]
      PROVE  KeepInv'
  <2>1. Path(h)' = Path(h) /\ (KeptAt(h) => KeptAt(h)')
    BY <1>c, <1>q, KeptStays
  <2>2. Known \subseteq Known' /\ \A i \in Known : entries'[i] = entries[i]
    <3>1. Known \subseteq 1 .. created
      BY <1>c, TreeGrows
    <3> QED BY <1>q, <3>1 DEF Known
  <2>3. KeptAt(h) => Kept'
    <3> SUFFICES ASSUME KeptAt(h), NEW g \in Ids \cup {NoId}, g = head' PROVE KeptAt(g)'
      BY DEF Kept
    <3>1. g = h
      BY <1>p, <1>q
    <3> QED BY <2>1, <3>1
  <2>4. Reading => Reading'
    <3> SUFFICES ASSUME Reading, NEW t \in Tasks, NEW g \in Ids \cup {NoId}, phase'[t] = "summarise", g = head'
                 PROVE  context'[t] = Path(g)' /\ Len(context'[t]) >= 2
      BY DEF Reading
    <3>1. g = h /\ phase[t] = "summarise" /\ context'[t] = context[t]
      BY <1>p, <1>q
    <3>2. context[t] = Path(h) /\ Len(context[t]) >= 2
      BY <1>p, <3>1 DEF Reading
    <3> QED BY <2>1, <3>1, <3>2
  <2> QED BY <1>q, <1>u, <2>2, <2>3, <2>4
\* Nothing is left to be summarised.
<1>r. (\A t \in Tasks : phase'[t] # "summarise") => Reading'
  BY DEF Reading
\* One entry is appended, and it is no summary.
<1>1. ASSUME NEW e \in Entry, NEW after \in Seq(RunLine), AppendAll(<<e>>, after), e.msg <= created + 1,
             e.kind # "summary", forks' = forks, \A t \in Tasks : phase'[t] # "summarise"
      PROVE  KeepInv'
  <2> DEFINE es == <<e>>
  <2>1. /\ es \in Seq(Entry) /\ Len(es) = 1 /\ 1 \in 1 .. Len(es) /\ AppendAll(es, after)
        /\ \A k \in 1 .. Len(es) : es[k].msg <= created + k
    BY <1>1
  <2>2. Placed(es)[1] = [e EXCEPT !.parent = head]
    BY DEF Placed
  <2> HIDE DEF es
  <2>3. /\ up' /\ created' = created + 1 /\ crashes' = crashes
        /\ Known \subseteq Known' /\ \A i \in Known : entries'[i] = entries[i]
        /\ created + 1 \in Known' /\ entries'[created + 1] = Placed(es)[1]
    BY <1>c, <2>1, TaskAppends
  <2>4. \A i \in 1 .. created : entries'[i] = entries[i]
    <3> TAKE i \in 1 .. created
    <3>1. i \in Ids /\ i \notin created + 1 .. created + Len(es)
      BY <1>c, <2>1 DEF LogInv, LogShape, Ids
    <3> QED BY <2>1, <3>1 DEF AppendAll
  <2>5. PICK m \in Known' : m = created + 1
    BY <2>3
  <2>6. entries'[m].parent = h /\ entries'[m].kind # "summary"
    BY <1>1, <1>p, <2>2, <2>3, <2>5 DEF Entry
  <2>7. KeptAt(h) => KeptAt(m)'
    BY <1>c, <2>4, <2>6, KeptGrows
  <2>8. KeptAt(h) => Kept'
    <3> SUFFICES ASSUME KeptAt(h), NEW g \in Ids \cup {NoId}, g = head' PROVE KeptAt(g)'
      BY DEF Kept
    <3>1. g = m
      BY <2>1, <2>5 DEF AppendAll
    <3> QED BY <2>7, <3>1
  <2>9. up
    BY <2>1 DEF AppendAll, Ready
  <2> QED BY <1>1, <1>r, <1>u, <2>3, <2>8, <2>9 DEF SessionShape, LogInv, LogShape
\* No entry is appended.
<1>2. ASSUME NEW after, AppendAll(<<>>, after), forks' = forks,
             \A t \in Tasks : phase'[t] = "summarise" => phase[t] = "summarise" /\ context'[t] = context[t]
      PROVE  KeepInv'
  <2>1. /\ up' = up /\ crashes' = crashes /\ head' = head
        /\ \A i \in Ids : entries'[i] = IF i \in created + 1 .. created + 0 THEN Placed(<<>>)[i - created] ELSE entries[i]
    BY <1>2, <1>c DEF AppendAll
  <2>2. \A i \in 1 .. created : i \in Ids /\ i \notin created + 1 .. created + 0
    BY <1>c DEF LogInv, LogShape, Ids
  <2> QED BY <1>2, <1>q, <2>1, <2>2
<1>d. ASSUME NEW t \in Tasks, Driving(t), Dequeue(t) PROVE \A u \in Tasks : phase'[u] # "summarise"
  BY <1>d, Dequeued DEF Working
<1>w. ASSUME NEW t \in Tasks, Driving(t), queue' = queue, phase'[t] # "summarise"
      PROVE  \A u \in Tasks : phase'[u] # "summarise"
  BY <1>w DEF Driving, SessionShape, OneWorks, Working
<1>l. UNCHANGED logVars => /\ crashes' = crashes /\ up' = up /\ head' = head
                           /\ \A i \in 1 .. created : entries'[i] = entries[i]
  BY DEF logVars
<1>m. ASSUME NEW t \in Tasks, NEW kind \in Kinds, NEW after, AppendAll(<<Message(kind, t)>>, after)
      PROVE  Message(kind, t) \in Entry /\ Message(kind, t).msg <= created + 1 /\ Message(kind, t).kind = kind
  <2>1. created + 1 \in Ids
    BY <1>m, <1>c DEF AppendAll, Room
  <2>2. Message(kind, t) \in Entry /\ Message(kind, t).msg = created + 1 /\ Message(kind, t).kind = kind
    BY <2>1, MessageFits
  <2> QED BY <1>c, <2>2
<1>x. ASSUME NEW t \in Tasks, NEW status \in {"running", "done", "error", "aborted"}
      PROVE  RunWrite(t, status) \in Seq(RunLine)
  BY DEF RunWrite, RunLine
<1>3. ASSUME NEW t \in Tasks, Accept(t) PROVE KeepInv'
  <2>1. UNCHANGED logVars /\ phase' = [phase EXCEPT ![t] = "queued"] /\ UNCHANGED <<context, forks>>
    BY <1>3 DEF Accept, Enter
  <2> QED BY <1>c, <1>l, <1>q, <2>1
<1>4. ASSUME NEW t \in Tasks, Abort(t) PROVE KeepInv'
  <2>1. UNCHANGED logVars /\ UNCHANGED <<phase, context, forks>>
    BY <1>4 DEF Abort
  <2> QED BY <1>l, <1>q, <2>1
<1>5. ASSUME NEW i \in Ids, Fork(i) PROVE KeepInv'
  <2>1. forks' = forks + 1 /\ UNCHANGED <<up, crashes>>
    BY <1>5 DEF Fork, MoveHead
  <2>2. ~Untroubled'
    BY <1>c, <2>1 DEF Untroubled
  <2> QED BY <2>1, <2>2 DEF KeepInv
<1>6. ASSUME NEW t \in Tasks, Skip(t) \/ CompactFails(t) PROVE KeepInv'
  <2>1. Driving(t) /\ Dequeue(t) /\ UNCHANGED <<logVars, forks>>
    BY <1>6 DEF Skip, CompactFails
  <2> QED BY <1>d, <1>l, <1>q, <2>1
<1>7. ASSUME NEW t \in Tasks, Begin(t) PROVE KeepInv'
  <2>1. /\ AppendAll(<<Message("user", t)>>, RunWrite(t, "running")) /\ Driving(t)
        /\ phase' = [phase EXCEPT ![t] = "stream"] /\ queue' = queue /\ forks' = forks
    BY <1>7 DEF Begin, Enter
  <2>2. /\ Message("user", t) \in Entry /\ Message("user", t).msg <= created + 1
        /\ Message("user", t).kind = "user" /\ RunWrite(t, "running") \in Seq(RunLine)
    BY <1>m, <1>x, <2>1 DEF Kinds
  <2>3. \A u \in Tasks : phase'[u] # "summarise"
    BY <1>c, <1>w, <2>1
  <2> QED BY <1>1, <2>1, <2>2, <2>3
<1>8. ASSUME NEW t \in Tasks, BeginReport(t) PROVE KeepInv'
  <2>1. /\ AppendAll(<<>>, RunWrite(t, "running")) /\ Driving(t)
        /\ phase' = [phase EXCEPT ![t] = "stream"] /\ queue' = queue /\ forks' = forks
    BY <1>8 DEF BeginReport, Enter
  <2>3. \A u \in Tasks : phase'[u] # "summarise"
    BY <1>c, <1>w, <2>1
  <2> QED BY <1>2, <2>1, <2>3
<1>9. ASSUME NEW t \in Tasks, BeginCompact(t) PROVE KeepInv'
  <2>1. Driving(t) /\ UNCHANGED <<logVars, forks>>
    BY <1>9 DEF BeginCompact
  <2>2. CASE Dequeue(t)
    BY <1>d, <1>l, <1>q, <2>1, <2>2
  <2>3. CASE ~Dequeue(t)
    <3>1. /\ phase' = [phase EXCEPT ![t] = "summarise"] /\ context' = [context EXCEPT ![t] = Path(head)]
          /\ queue' = queue /\ Len(Path(head)) >= 2
      <4>1. Path(head) \in Seq(Known)
        BY <1>c, RootedNow, TreeReadsNow DEF TreeReads
      <4>2. Len(Path(head)) \in Nat
        BY <4>1
      <4> QED BY <1>9, <2>3, <4>2 DEF BeginCompact, Enter
    <3>2. /\ head' = head /\ up' = up /\ crashes' = crashes /\ forks' = forks
          /\ (\A i \in 1 .. created : entries'[i] = entries[i])
          /\ Known' = Known /\ \A i \in Known : entries'[i] = entries[i]
      BY <2>1 DEF logVars, Known
    <3>3. Path(h)' = Path(h) /\ (KeptAt(h) => KeptAt(h)')
      BY <1>c, <3>2, KeptStays
    <3>4. KeptAt(h) => Kept'
      <4> SUFFICES ASSUME KeptAt(h), NEW g \in Ids \cup {NoId}, g = head' PROVE KeptAt(g)'
        BY DEF Kept
      <4>1. g = h
        BY <1>p, <3>2
      <4> QED BY <3>3, <4>1
    <3>5. Reading'
      <4> SUFFICES ASSUME NEW u \in Tasks, NEW g \in Ids \cup {NoId}, phase'[u] = "summarise", g = head'
                   PROVE  context'[u] = Path(g)' /\ Len(context'[u]) >= 2
        BY DEF Reading
      <4>1. u = t
        BY <2>1, <3>1 DEF Driving, SessionShape, OneWorks, Working
      <4>2. g = h /\ context'[t] = Path(h)
        BY <1>c, <1>p, <3>1, <3>2
      <4> QED BY <1>p, <3>1, <3>3, <4>1, <4>2
    <3> QED BY <1>u, <3>2, <3>4, <3>5
  <2> QED BY <2>2, <2>3
<1>10. ASSUME NEW t \in Tasks, SubTranscript(t) PROVE KeepInv'
  <2> DEFINE e == [Message("sub", t) EXCEPT !.parent = IF t \in Turns THEN prompt[t] ELSE head]
  <2>1. AppendAside(e) /\ UNCHANGED taskVars
    BY <1>10 DEF SubTranscript
  <2> HIDE DEF e
  <2>2. /\ head' = head /\ up' = up /\ crashes' = crashes /\ UNCHANGED <<forks, phase, context>>
        /\ \A i \in 1 .. created : entries'[i] = entries[i]
    <3>1. entries' = [entries EXCEPT ![created + 1] = e] /\ UNCHANGED <<head, up, crashes>>
      BY <2>1 DEF AppendAside
    <3>2. \A i \in 1 .. created : i \in Ids /\ i # created + 1
      BY <1>c DEF LogInv, LogShape, Ids
    <3> QED BY <2>1, <3>1, <3>2, <1>c DEF taskVars, LogInv, LogShape
  <2> QED BY <1>q, <2>2
<1>b. ASSUME NEW t \in Tasks, BeginSummary(t) PROVE KeepInv'
  <2>1. UNCHANGED logVars /\ phase' = [phase EXCEPT ![t] = "compacting"] /\ UNCHANGED <<context, forks>>
    BY <1>b DEF BeginSummary, Enter
  <2> QED BY <1>c, <1>l, <1>q, <2>1
<1>11. ASSUME NEW t \in Tasks, NEW n \in Steps, EndSummary(t, n) PROVE KeepInv'
  <2> DEFINE s == Summary(t, Summarised(context[t], n), TRUE)
             es == <<s>>
  <2>1. AppendAll(es, <<>>) /\ forks' = forks
    BY <1>11 DEF EndSummary
  <2>2. s \in Entry /\ s.msg = created + 1 /\ s.auto = TRUE
    <3>1. Summarised(context[t], n) \in SUBSET Known
      BY <1>c, SummarisedKnown
    <3>2. created + 1 \in Ids
      BY <1>c, <2>1 DEF AppendAll, Room
    <3>3. s \in Entry /\ s.msg = created + 1
      BY <1>c, <3>1, <3>2, SummaryFits
    <3>4. "summary" \in Kinds
      BY DEF Kinds
    <3>5. Message("summary", t) \in Entry
      BY <3>2, <3>4, MessageFits
    <3>6. s.auto = TRUE
      BY <3>5 DEF Summary, Entry
    <3> QED BY <3>3, <3>6
  <2> HIDE DEF s
  <2>3. /\ es \in Seq(Entry) /\ Len(es) = 1 /\ 1 \in 1 .. Len(es) /\ <<>> \in Seq(RunLine)
        /\ \A k \in 1 .. Len(es) : es[k].msg <= created + k
    BY <1>c, <2>2
  <2>4. Placed(es)[1] = [s EXCEPT !.parent = head]
    BY DEF Placed
  <2> HIDE DEF es
  <2>5. up' /\ created + 1 \in Known' /\ entries'[created + 1] = Placed(es)[1]
    BY <1>c, <2>1, <2>3, TaskAppends
  <2>6. ~Plain'
    <3>1. entries'[created + 1].auto = TRUE
      BY <2>2, <2>4, <2>5 DEF Entry
    <3> QED BY <2>5, <3>1 DEF Plain
  <2> QED BY <2>5, <2>6 DEF KeepInv, Untroubled
<1>12. ASSUME NEW t \in Tasks, NEW how \in {"done", "error", "aborted"}, NEW parts \in Parts,
              EndTurn(t, how, parts) \/ SummaryThrows(t, how, parts)
       PROVE  KeepInv'
  <2>1. AppendAll(Reply(t, parts), RunWrite(t, how)) /\ Driving(t) /\ Dequeue(t) /\ forks' = forks
    BY <1>12 DEF EndTurn, SummaryThrows, Streams, Close
  <2>2. \A u \in Tasks : phase'[u] # "summarise"
    BY <1>d, <2>1
  <2>3. ASSUME NEW r \in Entry, Reply(t, parts) = <<r>>, r.msg = created + 1, r.kind = "assistant"
        PROVE  KeepInv'
    <3>1. AppendAll(<<r>>, RunWrite(t, how)) /\ r.msg <= created + 1 /\ r.kind # "summary"
      BY <1>c, <2>1, <2>3
    <3> QED BY <1>1, <1>x, <2>1, <2>2, <3>1
  <2>4. CASE Reply(t, parts) = <<>>
    BY <1>2, <2>1, <2>2, <2>4
  <2> QED BY <1>c, <2>1, <2>3, <2>4, ReplyFits
<1>13. ASSUME NEW t \in Tasks, NEW how \in {"done", "error"}, EndReport(t, how) PROVE KeepInv'
  <2>1. AppendAll(<<>>, RunWrite(t, how)) /\ Driving(t) /\ Dequeue(t) /\ forks' = forks
    BY <1>13 DEF EndReport
  <2> QED BY <1>2, <1>d, <2>1
<1>14. ASSUME NEW t \in Tasks, EndCompact(t) PROVE KeepInv'
  <2> DEFINE s == Summary(t, Summarised(context[t], 0), FALSE)
             es == <<s>> \o Copies(t)
  <2>1. /\ AppendAll(es, <<>>) /\ Driving(t) /\ Dequeue(t) /\ forks' = forks /\ phase[t] = "summarise"
    BY <1>14 DEF EndCompact
  <2>2. \A u \in Tasks : phase'[u] # "summarise"
    BY <1>d, <2>1
  <2> HIDE DEF es
  <2>3. crashes' = crashes /\ up' = up
    BY <2>1, <1>c DEF AppendAll
  <2>4. ASSUME Reading, KeptAt(h), Plain' PROVE Kept'
    <3>1. context[t] = Path(h) /\ Len(context[t]) >= 2
      BY <1>p, <2>1, <2>4 DEF Reading
    <3> QED BY <1>14, <1>p, <2>4, <3>1, CompactKeeps DEF Kept
  <2>5. Known \subseteq Known' /\ \A i \in Known : entries'[i] = entries[i]
    <3>1. \A i \in 1 .. created : i \in Ids /\ i \notin created + 1 .. created + Len(es)
      BY <1>c DEF LogInv, LogShape, Ids
    <3>2. \A i \in 1 .. created : entries'[i] = entries[i]
      BY <2>1, <3>1 DEF AppendAll
    <3>3. Known \subseteq 1 .. created
      BY <1>c, TreeGrows
    <3> QED BY <3>2, <3>3 DEF Known
  <2> QED BY <1>r, <1>u, <2>1, <2>2, <2>3, <2>4, <2>5 DEF Untroubled
<1>15. ASSUME HostCrash PROVE KeepInv'
  <2>1. crashes' = crashes + 1
    BY <1>15 DEF HostCrash, Crash
  <2> QED BY <1>c, <2>1 DEF KeepInv, Untroubled
<1>16. ASSUME FlushRun \/ (Flush /\ UNCHANGED taskVars) PROVE KeepInv'
  <2>1. UNCHANGED <<phase, context, forks, head, entries, up, crashes>>
    BY <1>16 DEF Flush, FlushRun, taskVars
  <2> QED BY <1>q, <2>1
<1>17. ASSUME Reopen PROVE KeepInv'
  <2>1. ~up /\ crashes' = crashes
    BY <1>17 DEF Reopen
  <2> QED BY <2>1 DEF KeepInv, Untroubled
<1>18. ASSUME UNCHANGED sessionVars PROVE KeepInv'
  BY <1>l, <1>q, <1>18 DEF sessionVars, taskVars
<1>19. CASE SessionNext
  BY <1>19, <1>3, <1>4, <1>5, <1>6, <1>7, <1>8, <1>9, <1>10, <1>b, <1>11, <1>12, <1>13, <1>14, <1>15,
     <1>16, <1>17 DEF SessionNext, EndOf, LogStep
<1> QED BY <1>18, <1>19

\* Manual compaction forgets nothing that makes a message: in a run without a crash, a
\* fork, a compaction in flight or an entry without text that is re-anchored, everything
\* said on the branch of the head is on its path word for word or in a summary made from
\* it.  Compactor.summarize counts its tail in messages and session.ts in entries: the
\* condition says when the two agree.
THEOREM ManualAlwaysForgetsNothing == Torn = FALSE => (SessionSpec => []ManualForgetsNothing)
<1> SUFFICES ASSUME Torn = FALSE PROVE SessionSpec => []ManualForgetsNothing
  OBVIOUS
<1>a. SessionAssumption /\ MaxEntries \in Nat \ {0}
  BY SessionAssumption, SessionLogAssumption DEF SessionLogAssumption
<1>1. SessionInit => KeepInv
  <2> SUFFICES ASSUME SessionInit PROVE KeepInv
    OBVIOUS
  <2>1. SessionShape
    BY <1>a, ShapeInit
  <2>2. \A h \in Ids \cup {NoId} : h = head => Ancestors(h) = {}
    <3>1. Known = {}
      BY DEF SessionInit, LogInit, Known
    <3> QED BY <2>1, <3>1, RootedNow, TreeReadsNow DEF TreeReads, SessionShape
  <2>3. Kept
    BY <2>2 DEF Kept, KeptAt
  <2>4. Reading
    BY DEF Reading, SessionInit
  <2>5. up
    BY DEF SessionInit, LogInit
  <2> QED BY <2>3, <2>4, <2>5 DEF KeepInv
<1>2. KeepInv /\ SessionShape /\ SessionShape' /\ [SessionNext]_sessionVars => KeepInv'
  BY <1>a, KeepInductive
<1>3. KeepInv /\ SessionShape => ManualForgetsNothing
  <2> SUFFICES ASSUME KeepInv, SessionShape, crashes = 0, forks = 0, Plain,
                      NEW i \in Ancestors(head) \cap Voiced, entries[i].kind \in {"user", "assistant"}
               PROVE  entries[i].msg \in Remembered(Elements(Path(head)) \cap Voiced)
    BY DEF ManualForgetsNothing, NothingForgotten, Plain, Original
  <2>1. head \in Ids \cup {NoId} /\ LogInv
    BY <1>a DEF SessionShape, LogInv, LogShape, Ids, NoId
  <2>2. KeptAt(head)
    BY <2>1 DEF KeepInv, Untroubled, Kept
  <2>3. PICK p \in Elements(Path(head)) :
          /\ entries[p].text
          /\ entries[i].msg = entries[p].msg \/ entries[i].msg \in entries[p].covers
    BY <2>2 DEF KeptAt, Voiced
  <2>4. p \in Known
    <3>1. Path(head) \in Seq(Known)
      BY <2>1, RootedNow, TreeReadsNow DEF TreeReads
    <3> QED BY <3>1, ElementsOf
  <2> QED BY <2>3, <2>4 DEF Remembered, Voiced
<1> QED BY <1>1, <1>2, <1>3, ShapeAlways, PTL DEF SessionSpec

------------------------------------------------------------------------------
(* The queue, the controllers and the active run.                          *)

\* A task that waits for its turn, or drives.
Waiting == {"queued"} \cup Working

\* A send can be aborted from the moment it is accepted until it is over, and only that
\* long; a report while it streams (session.ts, controllers).
AbortReaches ==
  /\ \A t \in Turns : t \in controllers <=> \E k \in DOMAIN queue : queue[k] = t
  /\ \A t \in controllers \ Turns : t \in Reports /\ phase[t] = "stream"

\* The turn that drives is at the head of the queue with its stream open; behind a head
\* that is over nobody waits.
DriveIsOpen ==
  /\ \A t \in Turns : activeRun = t => Driving(t) /\ phase[t] \in {"stream", "compacting", "compacted"}
  /\ queue # <<>> => up /\ phase[Head(queue)] \in Waiting

\* The queue holds each task that waits, once, and the controllers and the active run are
\* those of its tasks.
QueueInv ==
  /\ queue \in Seq(Tasks)
  /\ phase \in [Tasks -> {"new", "queued", "stream", "compacting", "compacted", "summarise", "over", "lost"}]
  /\ controllers \subseteq Tasks
  /\ queue # <<>> => up
  /\ \A j, k \in 1 .. Len(queue) : queue[j] = queue[k] => j = k
  /\ \A k \in 1 .. Len(queue) : phase[queue[k]] = "queued" \/ (k = 1 /\ phase[queue[k]] \in Working)
  /\ \A t \in Tasks : phase[t] \in Waiting => \E k \in 1 .. Len(queue) : queue[k] = t
  /\ \A t \in Turns : t \in controllers <=> phase[t] \in Waiting
  /\ \A t \in Tasks \ Turns : t \in controllers <=> t \in Reports /\ phase[t] = "stream"
  /\ \A t \in Turns : activeRun = t <=> phase[t] \in {"stream", "compacting", "compacted"}

\* A task that is over makes room for the next.
LEMMA QueueMovesOn ==
  ASSUME SessionAssumption, QueueInv, NEW t \in Tasks, Driving(t), Dequeue(t), up' = up
  PROVE  QueueInv'
<1>0. /\ up /\ queue \in Seq(Tasks) /\ queue # <<>> /\ queue[1] = t /\ Len(queue) \in Nat /\ Len(queue) > 0
      /\ NoTask \notin Tasks /\ Turns \subseteq Tasks
  BY DEF QueueInv, Driving, SessionAssumption, Tasks
<1>1. /\ queue' \in Seq(Tasks) /\ Len(queue') = Len(queue) - 1 /\ up'
      /\ \A k \in 1 .. Len(queue') : queue'[k] = queue[k + 1] /\ k + 1 \in 1 .. Len(queue)
  BY <1>0 DEF Dequeue
<1>2. /\ phase' = [phase EXCEPT ![t] = "over"] /\ controllers' = controllers \ {t} /\ activeRun' = NoTask
      /\ phase' \in [Tasks -> {"new", "queued", "stream", "compacting", "compacted", "summarise", "over", "lost"}]
  BY DEF Dequeue, Enter, QueueInv
<1>3. ASSUME NEW k \in 1 .. Len(queue') PROVE queue'[k] # t /\ phase'[queue'[k]] = "queued"
  <2>1. k + 1 \in 1 .. Len(queue) /\ k + 1 # 1 /\ queue'[k] = queue[k + 1] /\ 1 \in 1 .. Len(queue)
    BY <1>0, <1>1
  <2>2. queue'[k] # t /\ queue'[k] \in Tasks /\ phase[queue'[k]] = "queued"
    BY <1>0, <2>1 DEF QueueInv
  <2>3. \A u \in Tasks : u # t => phase'[u] = phase[u]
    BY <1>2 DEF QueueInv
  <2> QED BY <2>2, <2>3
<1>4. \A j, k \in 1 .. Len(queue') : queue'[j] = queue'[k] => j = k
  <2>1. \A j, k \in 1 .. Len(queue) : queue[j] = queue[k] => j = k
    BY DEF QueueInv
  <2>2. ASSUME NEW j \in 1 .. Len(queue'), NEW k \in 1 .. Len(queue'), queue'[j] = queue'[k] PROVE j = k
    <3>1. queue[j + 1] = queue[k + 1] /\ j + 1 \in 1 .. Len(queue) /\ k + 1 \in 1 .. Len(queue)
      BY <1>1, <2>2
    <3> QED BY <2>1, <3>1
  <2> QED BY <2>2
<1>5. ASSUME NEW u \in Tasks, phase'[u] \in Waiting PROVE \E k \in 1 .. Len(queue') : queue'[k] = u
  <2>1. u # t /\ phase[u] \in Waiting
    BY <1>2, <1>5 DEF Waiting, Working, QueueInv
  <2>2. PICK k \in 1 .. Len(queue) : queue[k] = u
    BY <2>1 DEF QueueInv
  <2>3. k - 1 \in 1 .. Len(queue') /\ queue'[k - 1] = u
    BY <1>0, <1>1, <2>1, <2>2
  <2> QED BY <2>3
<1>6. \A u \in Tasks : u # t => phase[u] \notin Working
  BY <1>0 DEF QueueInv, Waiting, Working
<1>7. \A u \in Turns : u \in controllers' <=> phase'[u] \in Waiting
  BY <1>0, <1>2 DEF QueueInv, Waiting, Working
<1>8. \A u \in Tasks \ Turns : u \in controllers' <=> u \in Reports /\ phase'[u] = "stream"
  BY <1>0, <1>2 DEF QueueInv
<1>9. \A u \in Turns : activeRun' = u <=> phase'[u] \in {"stream", "compacting", "compacted"}
  BY <1>0, <1>2, <1>6 DEF Working, QueueInv
<1>10. controllers' \subseteq Tasks
  BY <1>2 DEF QueueInv
<1> QED BY <1>1, <1>2, <1>3, <1>4, <1>5, <1>7, <1>8, <1>9, <1>10 DEF QueueInv

\* The task at the head takes a step of its drive.
LEMMA HeadWorks ==
  ASSUME SessionAssumption, QueueInv, NEW t \in Tasks, Driving(t), NEW p \in Working, Enter(t, p),
         queue' = queue, up' = up,
         IF t \in Turns THEN activeRun' = t /\ p # "summarise" /\ controllers' = controllers
                        ELSE activeRun' = activeRun,
         t \in Reports \ Turns => p = "stream" /\ controllers' = controllers \cup {t},
         t \notin Reports \cup Turns => controllers' = controllers,
         t \in Turns => phase[t] \in Waiting
  PROVE  QueueInv'
<1>0. /\ up /\ queue \in Seq(Tasks) /\ queue # <<>> /\ queue[1] = t /\ Len(queue) \in Nat /\ Len(queue) > 0
      /\ NoTask \notin Tasks /\ Turns \subseteq Tasks
  BY DEF QueueInv, Driving, SessionAssumption, Tasks
<1>1. /\ phase' = [phase EXCEPT ![t] = p] /\ p \in {"stream", "compacting", "compacted", "summarise"}
      /\ phase' \in [Tasks -> {"new", "queued", "stream", "compacting", "compacted", "summarise", "over", "lost"}]
  BY DEF Enter, Working, QueueInv
<1>2. \A k \in 1 .. Len(queue) : k # 1 => queue[k] # t
  BY <1>0 DEF QueueInv
<1>3. \A k \in 1 .. Len(queue) : phase'[queue[k]] = "queued" \/ (k = 1 /\ phase'[queue[k]] \in Working)
  BY <1>0, <1>1, <1>2 DEF QueueInv
<1>4. ASSUME NEW u \in Tasks, phase'[u] \in Waiting PROVE \E k \in 1 .. Len(queue) : queue[k] = u
  BY <1>0, <1>1, <1>4 DEF QueueInv
<1>5. \A u \in Tasks : u # t => phase'[u] = phase[u] /\ phase[u] \notin Working
  BY <1>0, <1>1, <1>2 DEF QueueInv, Waiting, Working
<1>6. \A u \in Turns : u \in controllers' <=> phase'[u] \in Waiting
  BY <1>0, <1>1, <1>5 DEF QueueInv, Waiting, Working
<1>7. \A u \in Tasks \ Turns : u \in controllers' <=> u \in Reports /\ phase'[u] = "stream"
  BY <1>0, <1>1, <1>5 DEF QueueInv
<1>8. \A u \in Turns : activeRun' = u <=> phase'[u] \in {"stream", "compacting", "compacted"}
  BY <1>0, <1>1, <1>5 DEF QueueInv, Working
<1>9. controllers' \subseteq Tasks
  BY DEF QueueInv
<1> QED BY <1>0, <1>1, <1>3, <1>4, <1>6, <1>7, <1>8, <1>9 DEF QueueInv

\* Every step keeps the queue: whatever is lost of the log.
LEMMA QueueInductive ==
  ASSUME SessionAssumption, QueueInv, [SessionNext]_sessionVars
  PROVE  QueueInv'
<1>n. /\ NoTask \notin Tasks /\ Turns \subseteq Tasks /\ Reports \subseteq Tasks /\ Compactions \subseteq Tasks
      /\ Turns \cap Reports = {} /\ Turns \cap Compactions = {} /\ Reports \cap Compactions = {}
  BY DEF SessionAssumption, Tasks
<1>1. ASSUME NEW t \in Tasks, Accept(t) PROVE QueueInv'
  <2>1. /\ up /\ up' = up /\ phase[t] = "new" /\ phase' = [phase EXCEPT ![t] = "queued"]
        /\ queue' = Append(queue, t) /\ activeRun' = activeRun
        /\ controllers' = IF t \in Turns THEN controllers \cup {t} ELSE controllers
    BY <1>1 DEF Accept, Enter, Ready, logVars
  <2>2. /\ queue \in Seq(Tasks) /\ Len(queue) \in Nat /\ queue' \in Seq(Tasks) /\ Len(queue') = Len(queue) + 1
        /\ \A k \in 1 .. Len(queue) : queue'[k] = queue[k]
        /\ queue'[Len(queue) + 1] = t
    BY <2>1 DEF QueueInv
  <2>3. \A k \in 1 .. Len(queue) : queue[k] # t
    BY <2>1 DEF QueueInv, Working
  <2>4. \A u \in Tasks : u # t => phase'[u] = phase[u]
    BY <2>1 DEF QueueInv
  <2>5. phase' \in [Tasks -> {"new", "queued", "stream", "compacting", "compacted", "summarise", "over", "lost"}]
        /\ phase'[t] = "queued"
    BY <2>1 DEF QueueInv
  <2>6. \A j, k \in 1 .. Len(queue') : queue'[j] = queue'[k] => j = k
    BY <2>2, <2>3 DEF QueueInv
  <2>7. ASSUME NEW k \in 1 .. Len(queue')
        PROVE  phase'[queue'[k]] = "queued" \/ (k = 1 /\ phase'[queue'[k]] \in Working)
    <3>1. CASE k = Len(queue) + 1
      BY <2>2, <2>5, <3>1
    <3>2. CASE k # Len(queue) + 1
      <4>1. k \in 1 .. Len(queue)
        BY <2>2, <2>7, <3>2
      <4>2. queue'[k] = queue[k] /\ queue[k] \in Tasks /\ queue[k] # t
        BY <2>2, <2>3, <4>1
      <4> QED BY <2>4, <4>1, <4>2 DEF QueueInv
    <3> QED BY <3>1, <3>2
  <2>8. ASSUME NEW u \in Tasks, phase'[u] \in Waiting PROVE \E k \in 1 .. Len(queue') : queue'[k] = u
    <3>1. CASE u = t
      BY <2>2, <3>1
    <3>2. CASE u # t
      BY <2>2, <2>4, <2>8, <3>2 DEF QueueInv
    <3> QED BY <3>1, <3>2
  <2>9. /\ \A u \in Turns : u \in controllers' <=> phase'[u] \in Waiting
        /\ \A u \in Tasks \ Turns : u \in controllers' <=> u \in Reports /\ phase'[u] = "stream"
        /\ \A u \in Turns : activeRun' = u <=> phase'[u] \in {"stream", "compacting", "compacted"}
        /\ controllers' \subseteq Tasks
    BY <1>n, <2>1, <2>4, <2>5 DEF QueueInv, Waiting, Working
  <2> QED BY <2>1, <2>2, <2>5, <2>6, <2>7, <2>8, <2>9 DEF QueueInv
<1>2. CASE UNCHANGED <<queue, phase, controllers, activeRun>> /\ (queue # <<>> => up')
  BY <1>2 DEF QueueInv
<1>3. ASSUME NEW t \in Tasks, Abort(t) PROVE QueueInv'
  BY <1>2, <1>3 DEF Abort, QueueInv, logVars
<1>4. ASSUME NEW i \in Ids, Fork(i) PROVE QueueInv'
  BY <1>2, <1>4 DEF Fork, MoveHead, QueueInv
<1>5. ASSUME NEW t \in Tasks, Skip(t) PROVE QueueInv'
  BY <1>5, QueueMovesOn DEF Skip, logVars
<1>6. ASSUME NEW t \in Tasks, Begin(t) PROVE QueueInv'
  <2>1. t \in Turns /\ Driving(t) /\ phase[t] = "queued" /\ activeRun' = t /\ Enter(t, "stream")
        /\ UNCHANGED <<queue, controllers, up>>
    BY <1>6 DEF Begin, AppendAll
  <2> QED BY <1>n, <2>1, HeadWorks DEF Working, Waiting
<1>7. ASSUME NEW t \in Tasks, BeginReport(t) PROVE QueueInv'
  <2>1. t \in Reports /\ Driving(t) /\ phase[t] = "queued" /\ controllers' = controllers \cup {t}
        /\ Enter(t, "stream") /\ UNCHANGED <<queue, activeRun, up>>
    BY <1>7 DEF BeginReport, AppendAll
  <2> QED BY <1>n, <2>1, HeadWorks DEF Working, Waiting
<1>8. ASSUME NEW t \in Tasks, BeginCompact(t) PROVE QueueInv'
  <2>1. t \in Compactions /\ Driving(t) /\ phase[t] = "queued" /\ up' = up
        /\ (Dequeue(t) \/ (Enter(t, "summarise") /\ UNCHANGED <<queue, controllers, activeRun>>))
    BY <1>8 DEF BeginCompact, logVars
  <2> QED BY <1>n, <2>1, QueueMovesOn, HeadWorks DEF Working, Waiting
<1>9. ASSUME NEW t \in Tasks, SubTranscript(t) PROVE QueueInv'
  BY <1>2, <1>9 DEF SubTranscript, AppendAside, taskVars, QueueInv
<1>b. ASSUME NEW t \in Tasks, BeginSummary(t) PROVE QueueInv'
  <2>1. t \in Turns /\ Driving(t) /\ phase[t] = "stream" /\ Enter(t, "compacting")
        /\ UNCHANGED <<queue, controllers, activeRun, up>>
    BY <1>b DEF BeginSummary, logVars
  <2>2. activeRun = t
    BY <2>1 DEF QueueInv
  <2> QED BY <1>n, <2>1, <2>2, HeadWorks DEF Working, Waiting
<1>10. ASSUME NEW t \in Tasks, NEW n \in Steps, EndSummary(t, n) PROVE QueueInv'
  <2>1. t \in Turns /\ Driving(t) /\ phase[t] = "compacting" /\ Enter(t, "compacted")
        /\ UNCHANGED <<queue, controllers, activeRun, up>>
    BY <1>10 DEF EndSummary, AppendAll
  <2>2. activeRun = t
    BY <2>1 DEF QueueInv
  <2> QED BY <1>n, <2>1, <2>2, HeadWorks DEF Working, Waiting
<1>11. ASSUME NEW t \in Tasks, EndOf(t) PROVE QueueInv'
  <2>1. Driving(t) /\ Dequeue(t) /\ up' = up
    BY <1>11 DEF EndOf, EndTurn, SummaryThrows, Streams, Close, EndReport, EndCompact, CompactFails, AppendAll, logVars
  <2> QED BY <2>1, QueueMovesOn
<1>12. CASE HostCrash
  <2>1. /\ queue' = <<>> /\ controllers' = {} /\ activeRun' = NoTask
        /\ phase' = [t \in Tasks |-> IF phase[t] \in {"new", "over"} THEN phase[t] ELSE "lost"]
    BY <1>12 DEF HostCrash
  <2>2. \A t \in Tasks : phase'[t] \in {"new", "over", "lost"}
    BY <2>1
  <2>3. phase' \in [Tasks -> {"new", "queued", "stream", "compacting", "compacted", "summarise", "over", "lost"}]
    BY <2>1
  <2>4. queue' \in Seq(Tasks) /\ 1 .. Len(queue') = {}
    BY <2>1
  <2> QED BY <1>n, <2>1, <2>2, <2>3, <2>4 DEF QueueInv, Waiting, Working
<1>13. CASE LogStep \/ UNCHANGED sessionVars
  BY <1>2, <1>13 DEF LogStep, FlushRun, Flush, Reopen, taskVars, logVars, sessionVars, QueueInv
<1> QED BY <1>1, <1>3, <1>4, <1>5, <1>6, <1>7, <1>8, <1>9, <1>b, <1>10, <1>11, <1>12, <1>13 DEF SessionNext

\* The safety half of AbortEnds: whatever forks and crashes there are, torn lines or not,
\* an abort reaches every send that is not over, the controllers of those that are over are
\* gone, the run called active is the one that drives (session.ts abort: it clears the
\* pending prompts of that run only), and a task that is over holds up nobody.
THEOREM AbortsReach == SessionSpec => [](AbortReaches /\ DriveIsOpen)
<1>a. SessionAssumption
  BY SessionAssumption
<1>1. SessionInit => QueueInv
  <2> SUFFICES ASSUME SessionInit PROVE QueueInv
    OBVIOUS
  <2>1. /\ queue = <<>> /\ controllers = {} /\ activeRun = NoTask /\ phase = [t \in Tasks |-> "new"]
        /\ NoTask \notin Tasks /\ Turns \subseteq Tasks
    BY <1>a DEF SessionInit, SessionAssumption, Tasks
  <2>2. queue \in Seq(Tasks) /\ 1 .. Len(queue) = {}
    BY <2>1
  <2> QED BY <2>1, <2>2 DEF QueueInv, Waiting, Working
<1>2. QueueInv /\ [SessionNext]_sessionVars => QueueInv'
  BY <1>a, QueueInductive
<1>3. QueueInv => AbortReaches /\ DriveIsOpen
  <2> SUFFICES ASSUME QueueInv PROVE AbortReaches /\ DriveIsOpen
    OBVIOUS
  <2>1. queue \in Seq(Tasks) /\ DOMAIN queue = 1 .. Len(queue) /\ Turns \subseteq Tasks
    BY DEF QueueInv, Tasks
  <2>2. \A k \in 1 .. Len(queue) : phase[queue[k]] \in Waiting
    BY DEF QueueInv, Waiting
  <2>3. AbortReaches
    BY <2>1, <2>2 DEF QueueInv, AbortReaches
  <2>4. ASSUME queue # <<>> PROVE up /\ Head(queue) = queue[1] /\ 1 \in 1 .. Len(queue)
    BY <2>1, <2>4 DEF QueueInv
  <2>5. ASSUME NEW t \in Turns, activeRun = t PROVE Driving(t) /\ phase[t] \in {"stream", "compacting", "compacted"}
    <3>1. phase[t] \in {"stream", "compacting", "compacted"}
      BY <2>5 DEF QueueInv
    <3>2. PICK k \in 1 .. Len(queue) : queue[k] = t
      BY <2>1, <3>1 DEF QueueInv, Waiting, Working
    <3>3. k = 1 /\ queue # <<>>
      BY <2>1, <3>1, <3>2 DEF QueueInv
    <3> QED BY <2>4, <3>1, <3>2, <3>3 DEF Driving
  <2> QED BY <2>2, <2>3, <2>4, <2>5 DEF DriveIsOpen
<1> QED BY <1>1, <1>2, <1>3, PTL DEF SessionSpec
====
