---------------------------- MODULE SchedulerProofs ----------------------------
(***************************************************************************)
(* The scheduler keeps its promise about slots, and the unattended flag    *)
(* follows the fires of its session, for any number of schedules, sessions *)
(* and calls, any periods and any bounds.  A tick passes nothing that is   *)
(* due, and the fire it awaits is never dropped.                           *)
(***************************************************************************)
EXTENDS Scheduler, FiniteSetTheorems, TLAPS

-----------------------------------------------------------------------------
(* The slots *)

\* Division rounds down.
LEMMA RoundsDown ==
  ASSUME NEW t \in Nat, NEW q \in Nat \ {0}
  PROVE  (t \div q + 1) * q \in Nat /\ (t \div q + 1) * q > t
<1> DEFINE d == t \div q
<1>1. d \in Nat /\ t % q \in 0..(q - 1) /\ t = (q * d) + (t % q)
  BY SMTT(30)
<1>2. (d + 1) * q = (q * d) + q /\ q * d \in Nat
  <2> HIDE DEF d
  <2> QED BY <1>1, SMTT(30)
<1> HIDE DEF d
<1>3. (d + 1) * q \in Nat /\ (d + 1) * q > t
  <2> DEFINE e == q * d
  <2>1. e \in Nat /\ (d + 1) * q = e + q /\ t = e + (t % q) /\ t % q < q
    BY <1>1, <1>2
  <2> HIDE DEF e
  <2> QED BY <2>1
<1> QED BY <1>3 DEF d

\* The next slot lies strictly after the given time.
LEMMA NextRunIsLater ==
  ASSUME NEW s \in Schedules, NEW t \in Nat
  PROVE  NextRun(s, t) \in Nat /\ NextRun(s, t) > t
<1>1. Period[s] \in Nat \ {0}
  BY SchedulerAssumption
<1>2. CASE s \notin Aligned
  BY <1>1, <1>2 DEF NextRun
<1>3. CASE s \in Aligned
  BY <1>1, <1>3, RoundsDown DEF NextRun
<1> QED BY <1>2, <1>3

\* What the running tick remembers: the time it began at, never in the future, what it
\* found listed, and the place after the schedule whose fire it awaits.
TickInv ==
  /\ clock \in Nat
  /\ stored \in [Schedules -> Nat \cup {NoSlot}]
  /\ enabled \subseteq Schedules
  /\ firing \in Schedules \cup {NoSchedule}
  /\ ticking \in BOOLEAN /\ (ticking <=> firing # NoSchedule)
  /\ ticking => /\ tickNow \in Nat /\ tickNow <= clock
                /\ listed \subseteq Schedules
                /\ place \in 2..(Len(Order) + 1) /\ Order[place - 1] = firing

\* The place of a schedule in the order tells it from the schedules of other places.
LEMMA OrderFacts ==
  /\ Len(Order) \in Nat
  /\ \A i \in 1..Len(Order) : Order[i] \in Schedules /\ Order[i] # NoSchedule
  /\ \A i, j \in 1..Len(Order) : Order[i] = Order[j] => i = j
BY SchedulerAssumption DEF IsInjective

\* The instance's cardinality is the same operator.
LEMMA SameCardinality == \A S : Slots!Cardinality(S) = Cardinality(S)
BY DEF Slots!Cardinality, Cardinality

\* The loop of a tick from place p to its next await, after the fire of the schedule at
\* place p - 1 (if there was one) has moved on: it is an evaluation of the slots.
LEMMA WalkEvaluates ==
  ASSUME TickInv,
         NEW p \in 1..(Len(Order) + 1), NEW names \in SUBSET Schedules,
         NEW t \in Nat, t <= clock, NEW st,
         NEW file \in [Schedules -> Nat \cup {NoSlot}],
         \A s \in Schedules : s # firing => file[s] = stored[s],
         IF ticking
         THEN p = place /\ t = tickNow /\ file[firing] \in Nat /\ file[firing] > clock
         ELSE p = 1 /\ t = clock,
         clock' = clock, enabled' \subseteq Schedules,
         Walk(p, names, t, file, st)
  PROVE  TickInv' /\ Slots!Evaluate
<1> USE OrderFacts
<1>1. PICK k \in p..(Len(Order) + 1) :
        LET passed == {Order[i] : i \in p..(k - 1)} \cap names
        IN  /\ StopsAt(k, p, names, t)
            /\ stored' = [s \in Schedules |->
                            IF s \in passed /\ (ToArm(s) \/ ToSkip(s, t))
                            THEN NextRun(s, t) ELSE file[s]]
            /\ \/ k > Len(Order) /\ NoTick
               \/ /\ k <= Len(Order)
                  /\ ticking' = TRUE /\ tickNow' = t
                  /\ listed' = names /\ place' = k + 1 /\ firing' = Order[k]
  BY DEF Walk
<1> DEFINE passed == {Order[i] : i \in p..(k - 1)} \cap names
<1> DEFINE seen == IF ticking THEN tickNow ELSE clock
<1> DEFINE inFire == IF firing = NoSchedule THEN {} ELSE {firing}
<1>n. NoSchedule \notin Schedules /\ NoSlot \notin Nat
  BY SchedulerAssumption
<1>t. seen = t
  BY DEF TickInv
<1>f. firing \in Schedules => firing = Order[p - 1] /\ p - 1 \in 1..Len(Order)
  BY <1>n DEF TickInv
<1>g. k <= Len(Order) => k \in 1..Len(Order)
  OBVIOUS
<1>2. stored' \in [Schedules -> Nat \cup {NoSlot}]
  BY <1>1, NextRunIsLater
<1>3. TickInv'
  <2>0. clock' \in Nat /\ t <= clock' /\ enabled' \subseteq Schedules
    BY DEF TickInv
  <2>1. CASE k > Len(Order)
    <3>1. ticking' = FALSE /\ firing' = NoSchedule
      BY <1>1, <2>1 DEF NoTick
    <3> QED BY <3>1, <2>0, <1>2 DEF TickInv
  <2>2. CASE k <= Len(Order)
    <3>1. /\ ticking' = TRUE /\ tickNow' = t
          /\ listed' = names /\ place' = k + 1 /\ firing' = Order[k]
      BY <1>1, <2>2
    <3>2. /\ firing' \in Schedules /\ firing' # NoSchedule
          /\ place' \in 2..(Len(Order) + 1) /\ Order[place' - 1] = firing'
      BY <3>1, <2>2, <1>g
    <3> QED BY <3>1, <3>2, <2>0, <1>2 DEF TickInv
  <2> QED BY <2>1, <2>2
<1>4. inFire' = IF k <= Len(Order) THEN {Order[k]} ELSE {}
  <2>1. CASE k > Len(Order)
    BY <1>1, <2>1 DEF NoTick
  <2>2. CASE k <= Len(Order)
    BY <1>1, <2>2, <1>g
  <2> QED BY <2>1, <2>2
<1>5. seen' \in {seen, clock}
  <2>1. CASE k > Len(Order)
    BY <1>1, <2>1 DEF NoTick
  <2>2. CASE k <= Len(Order)
    BY <1>1, <2>2, <1>t
  <2> QED BY <2>1, <2>2
<1>6. firing \notin passed /\ (k <= Len(Order) => Order[k] \notin passed /\ Order[k] # firing)
  <2>1. \A i \in p..(k - 1) : i \in 1..Len(Order)
    OBVIOUS
  <2>2. firing \notin passed
    BY <1>f, <2>1
  <2>3. k <= Len(Order) => Order[k] \notin passed
    BY <1>g, <2>1
  <2>4. k <= Len(Order) => Order[k] # firing
    BY <1>f, <1>g
  <2> QED BY <2>2, <2>3, <2>4
<1>7. ASSUME NEW s \in Schedules
      PROVE  \/ /\ stored'[s] = stored[s] /\ (s \in inFire' <=> s \in inFire)
             \/ /\ stored[s] = NoSlot /\ stored'[s] > seen /\ s \notin inFire'
             \/ /\ stored[s] # NoSlot /\ stored[s] <= seen /\ stored'[s] = stored[s]
                /\ s \notin inFire /\ s \in inFire'
             \/ /\ stored[s] # NoSlot /\ stored[s] <= seen /\ stored'[s] > seen
                /\ s \notin inFire \cup inFire'
             \/ s \in inFire /\ s \notin inFire' /\ stored'[s] > clock
  <2>s. stored'[s] = IF s \in passed /\ (ToArm(s) \/ ToSkip(s, t))
                     THEN NextRun(s, t) ELSE file[s]
    BY <1>1
  <2>1. CASE s = firing
    BY <2>1, <2>s, <1>4, <1>6, <1>n DEF TickInv
  <2>2. CASE k <= Len(Order) /\ s = Order[k]
    <3>1. ToFire(s, t)
      BY <1>1, <2>2 DEF StopsAt
    <3>2. stored[s] # NoSlot /\ stored[s] <= seen
      BY <3>1, <1>t DEF ToFire, Due
    <3>3. stored'[s] = stored[s] /\ s \notin inFire /\ s \in inFire'
      BY <2>2, <2>s, <1>4, <1>6
    <3> QED BY <3>2, <3>3
  <2>3. CASE s # firing /\ ~(k <= Len(Order) /\ s = Order[k])
    <3>1. s \notin inFire /\ s \notin inFire' /\ file[s] = stored[s]
      BY <2>3, <1>4
    <3>2. CASE s \in passed /\ (ToArm(s) \/ ToSkip(s, t))
      BY <2>s, <3>1, <3>2, <1>t, NextRunIsLater DEF ToArm, ToSkip, Due
    <3>3. CASE ~(s \in passed /\ (ToArm(s) \/ ToSkip(s, t)))
      BY <2>s, <3>1, <3>3
    <3> QED BY <3>2, <3>3
  <2> QED BY <2>1, <2>2, <2>3
<1>8. Cardinality(inFire') <= 1
  <2>1. Cardinality({Order[k]}) = 1
    BY FS_Singleton, Zenon
  <2>2. Cardinality({}) <= 1
    BY FS_EmptySet
  <2>3. inFire' = {} \/ inFire' = {Order[k]}
    BY <1>4
  <2> DEFINE n == Cardinality(inFire')
  <2>4. n = Cardinality({}) \/ n = Cardinality({Order[k]})
    BY <2>3, Zenon
  <2> HIDE DEF n
  <2>5. n <= 1
    BY <2>1, <2>2, <2>4
  <2> QED BY <2>5 DEF n
<1>9. Slots!Evaluate
  BY <1>5, <1>7, <1>8, SameCardinality
  DEF Slots!Evaluate, Slots!Stay, Slots!Arm, Slots!Fire, Slots!Skip, Slots!Finish
<1> QED BY <1>3, <1>9

\* The state the scheduler starts in.
LEMMA SlotsStart == Init => TickInv /\ Slots!SlotsInit
<1> SUFFICES ASSUME Init PROVE TickInv /\ Slots!SlotsInit
  OBVIOUS
<1>1. /\ clock = 0 /\ stored = [s \in Schedules |-> NoSlot] /\ enabled = Schedules
      /\ ticking = FALSE /\ firing = NoSchedule
  BY DEF Init
<1>2. TickInv
  BY <1>1 DEF TickInv
<1>3. Slots!SlotsInit
  BY <1>1 DEF Slots!SlotsInit
<1> QED BY <1>2, <1>3

\* Every step keeps what the tick remembers, and is a step of the promise or none.
LEMMA SlotsStep == TickInv /\ [Next]_vars => TickInv' /\ [Slots!SlotsNext]_(Slots!slotVars)
<1> SUFFICES ASSUME TickInv, [Next]_vars
             PROVE  TickInv' /\ [Slots!SlotsNext]_(Slots!slotVars)
  OBVIOUS
<1>1. CASE Minute
  BY <1>1 DEF Minute, TickInv, tickVars, Slots!SlotsNext, Slots!TimePasses
<1>2. CASE Tick
  <2>1. CASE ticking
    BY <1>2, <2>1 DEF Tick, TickInv, tickVars, Slots!slotVars
  <2>2. CASE ~ticking
    <3>1. Walk(1, enabled, clock, stored, stage) /\ clock' = clock /\ enabled' = enabled
      BY <1>2, <2>2 DEF Tick
    <3>2. /\ clock \in Nat /\ clock <= clock /\ enabled \subseteq Schedules
          /\ stored \in [Schedules -> Nat \cup {NoSlot}] /\ 1 \in 1..(Len(Order) + 1)
      BY OrderFacts DEF TickInv
    <3>3. TickInv' /\ Slots!Evaluate
      BY <3>1, <3>2, <2>2, WalkEvaluates
    <3> QED BY <3>3 DEF Slots!SlotsNext
  <2> QED BY <2>1, <2>2
<1>3. CASE Resume
  <2> DEFINE file == [stored EXCEPT ![firing] = NextRun(firing, clock)]
  <2> DEFINE st == [stage EXCEPT ![firing] = "idle"]
  <2>1. /\ Walk(place, listed, tickNow, file, st)
        /\ clock' = clock /\ enabled' = enabled /\ firing # NoSchedule
    BY <1>3 DEF Resume
  <2>2. ticking /\ firing \in Schedules /\ place \in 1..(Len(Order) + 1)
    BY <2>1, OrderFacts DEF TickInv
  <2>3. /\ file \in [Schedules -> Nat \cup {NoSlot}]
        /\ file[firing] \in Nat /\ file[firing] > clock
        /\ \A s \in Schedules : s # firing => file[s] = stored[s]
    BY <2>2, NextRunIsLater DEF TickInv
  <2> HIDE DEF file, st
  <2>4. TickInv' /\ Slots!Evaluate
    BY <2>1, <2>2, <2>3, WalkEvaluates DEF TickInv
  <2> QED BY <2>4 DEF Slots!SlotsNext
<1>4. CASE Crash
  BY <1>4, SchedulerAssumption
  DEF Crash, NoTick, TickInv, Slots!SlotsNext, Slots!Crash
<1>5. CASE Restart
  BY <1>5 DEF Restart, TickInv, tickVars, Slots!slotVars
<1>6. ASSUME NEW s \in Schedules, Edit(s)
      PROVE  TickInv' /\ UNCHANGED Slots!slotVars
  BY <1>6 DEF Edit, TickInv, tickVars, Slots!slotVars
<1>7. CASE HostSteps
  BY <1>7 DEF HostSteps, schedVars, TickInv, tickVars, Slots!slotVars
<1>8. CASE UNCHANGED vars
  BY <1>8 DEF vars, schedVars, TickInv, tickVars, Slots!slotVars
<1> QED BY <1>1, <1>2, <1>3, <1>4, <1>5, <1>6, <1>7, <1>8 DEF Next

\* No slot is fired early, none twice but after a crash, no backlog is worked off and one
\* fire is in flight at a time, for any number of schedules and any periods.
THEOREM SchedulerImplementsSlots == Spec => ImplementsSlots
<1>1. Init => TickInv /\ Slots!SlotsInit
  BY SlotsStart
<1>2. TickInv /\ [Next]_vars => TickInv' /\ [Slots!SlotsNext]_(Slots!slotVars)
  BY SlotsStep
<1> QED BY <1>1, <1>2, PTL DEF Spec, ImplementsSlots, Slots!SlotsSpec

-----------------------------------------------------------------------------
(* The unattended flag *)

\* A client waits in at most one turn queue, once, and its record says so.
LineInv ==
  /\ line \in [Objects -> Seq(Clients)]
  /\ stage \in [Clients -> Stages]
  /\ at \in [Clients -> Objects \cup {NoObj}]
  /\ \A o \in Objects : \A i \in 1..Len(line[o]) :
       stage[line[o][i]] = "queued" /\ at[line[o][i]] = o
  /\ \A o \in Objects : \A i, j \in 1..Len(line[o]) : line[o][i] = line[o][j] => i = j

FlagInv ==
  /\ LineInv
  /\ unattended \in [Objects -> BOOLEAN]
  /\ FlagFollowsFires

\* The live map holds built objects; but for the fire it awaits, the scheduler of a
\* running process has nothing in hand; a dead process has no turns.
RestInv ==
  /\ live \in [Sessions -> Objects \cup {NoObj}] /\ made \in 0..MaxObjects
  /\ up \in BOOLEAN
  /\ up => \A s \in Schedules : s # firing => stage[s] = "idle"
  /\ ~up => firing = NoSchedule /\ \A o \in Objects : line[o] = <<>>

\* Who stands in a queue is queued.
LEMMA InLineIsQueued ==
  ASSUME LineInv, NEW o \in Objects, NEW x \in InLine(o)
  PROVE  x \in Clients /\ stage[x] = "queued" /\ at[x] = o
<1>1. line[o] \in Seq(Clients)
  BY DEF LineInv
<1>2. PICK i \in 1..Len(line[o]) : x = line[o][i]
  BY <1>1 DEF InLine
<1> QED BY <1>1, <1>2 DEF LineInv

\* A client that gets another stage, and was not queued, changes no queue.
LEMMA StageMoves ==
  ASSUME LineInv, UNCHANGED <<line, at>>, stage' \in [Clients -> Stages],
         \A x \in Clients : stage[x] = "queued" => stage'[x] = "queued"
  PROVE  LineInv' /\ \A o \in Objects : InLine(o)' = InLine(o)
<1>1. \A o \in Objects : InLine(o)' = InLine(o)
  BY DEF InLine
<1>2. \A o \in Objects : \A i \in 1..Len(line[o]) : line[o][i] \in Clients
  BY DEF LineInv
<1> QED BY <1>1, <1>2 DEF LineInv

\* An unchanged flag goes with unchanged queues.
LEMMA FlagStays ==
  ASSUME FlagInv, LineInv', UNCHANGED <<unattended, shadowed>>,
         \A o \in Objects : InLine(o)' \cap Fires = InLine(o) \cap Fires
  PROVE  FlagInv'
BY DEF FlagInv, FlagFollowsFires

\* A client that is not queued joins the end of one queue.
LEMMA EnlistKeeps ==
  ASSUME LineInv, NEW c \in Clients, NEW o \in Objects, NEW st \in [Clients -> Stages],
         \A x \in Clients : st[x] = "queued" <=> stage[x] = "queued",
         st[c] # "queued", Enlist(c, o, st)
  PROVE  /\ LineInv'
         /\ \A x \in Clients : x # c => stage'[x] = st[x]
         /\ \A q \in Objects : /\ c \notin InLine(q)
                              /\ InLine(q)' = IF q = o THEN InLine(q) \cup {c} ELSE InLine(q)
<1>1. /\ line' = [line EXCEPT ![o] = Append(@, c)]
      /\ at' = [at EXCEPT ![c] = o] /\ stage' = [st EXCEPT ![c] = "queued"]
  BY DEF Enlist
<1>2. \A q \in Objects : c \notin InLine(q)
  BY InLineIsQueued
<1>3. \A q \in Objects : line[q] \in Seq(Clients)
  BY DEF LineInv
<1>4. /\ line' \in [Objects -> Seq(Clients)] /\ stage' \in [Clients -> Stages]
      /\ at' \in [Clients -> Objects \cup {NoObj}]
  BY <1>1, <1>3 DEF LineInv, Stages
<1>5. /\ line'[o] = Append(line[o], c) /\ Len(line'[o]) = Len(line[o]) + 1
      /\ \A i \in 1..Len(line[o]) : line'[o][i] = line[o][i]
      /\ line'[o][Len(line[o]) + 1] = c
  BY <1>1, <1>3 DEF LineInv
<1>6. \A q \in Objects : q # o => line'[q] = line[q]
  BY <1>1 DEF LineInv
<1>7. \A i \in 1..Len(line[o]) : line[o][i] # c /\ line[o][i] \in Clients
  BY <1>2, <1>3 DEF InLine
<1>8. \A q \in Objects : InLine(q)' = IF q = o THEN InLine(q) \cup {c} ELSE InLine(q)
  <2>1. ASSUME NEW q \in Objects, q # o PROVE InLine(q)' = InLine(q)
    BY <2>1, <1>6 DEF InLine
  <2>2. InLine(o)' = InLine(o) \cup {c}
    <3>1. DOMAIN line'[o] = 1..(Len(line[o]) + 1) /\ DOMAIN line[o] = 1..Len(line[o])
      BY <1>3, <1>4, <1>5
    <3>2. Len(line[o]) \in Nat
      BY <1>3
    <3> QED BY <3>1, <3>2, <1>5 DEF InLine
  <2> QED BY <2>1, <2>2
<1>9. ASSUME NEW q \in Objects, NEW i \in 1..Len(line'[q])
      PROVE  stage'[line'[q][i]] = "queued" /\ at'[line'[q][i]] = q
  <2>1. CASE q = o /\ i = Len(line[o]) + 1
    BY <2>1, <1>1, <1>5 DEF LineInv
  <2>2. CASE q = o /\ i # Len(line[o]) + 1
    <3>1. i \in 1..Len(line[o])
      BY <2>2, <1>3, <1>5
    <3> QED BY <3>1, <2>2, <1>1, <1>5, <1>7 DEF LineInv
  <2>3. CASE q # o
    <3>1. i \in 1..Len(line[q]) /\ line'[q][i] = line[q][i]
      BY <2>3, <1>6
    <3>2. line[q][i] \in InLine(q) /\ line[q][i] \in Clients
      BY <3>1, <1>3 DEF InLine
    <3>3. line[q][i] # c
      BY <3>2, <1>2
    <3> QED BY <3>1, <3>2, <3>3, <1>1 DEF LineInv
  <2> QED BY <2>1, <2>2, <2>3
<1>10. ASSUME NEW q \in Objects, NEW i \in 1..Len(line'[q]), NEW j \in 1..Len(line'[q]),
              line'[q][i] = line'[q][j]
       PROVE  i = j
  <2>1. CASE q # o
    BY <2>1, <1>6, <1>10 DEF LineInv
  <2>2. CASE q = o
    <3>1. Len(line[o]) \in Nat
      BY <1>3
    <3>2. \A k \in 1..Len(line'[o]) : k # Len(line[o]) + 1 => k \in 1..Len(line[o])
      BY <3>1, <1>5
    <3> QED BY <2>2, <3>2, <1>5, <1>7, <1>10 DEF LineInv
  <2> QED BY <2>1, <2>2
<1>11. LineInv'
  BY <1>4, <1>9, <1>10 DEF LineInv
<1>12. \A x \in Clients : x # c => stage'[x] = st[x]
  BY <1>1
<1> QED BY <1>2, <1>8, <1>11, <1>12

\* What a client does with its object keeps the flag: a fire raises it and joins the queue
\* in one step.
LEMMA ProceedKeeps ==
  ASSUME FlagInv, NEW c \in Clients, NEW o \in Objects, NEW st \in [Clients -> Stages],
         \A x \in Clients : st[x] = "queued" <=> stage[x] = "queued",
         st[c] # "queued", Proceed(c, o, st)
  PROVE  FlagInv' /\ \A x \in Clients : x # c => stage'[x] = st[x]
<1>0. LineInv
  BY DEF FlagInv
<1>1. CASE DoSend(c, o, st)
  <2>1. Enlist(c, o, st) /\ UNCHANGED <<unattended, shadowed>> /\ c \notin Fires
    BY <1>1, AgentHostAssumption DEF DoSend, cellVars
  <2>2. /\ LineInv' /\ \A x \in Clients : x # c => stage'[x] = st[x]
        /\ \A q \in Objects : InLine(q)' = IF q = o THEN InLine(q) \cup {c} ELSE InLine(q)
    BY <2>1, <1>0, EnlistKeeps
  <2>3. \A q \in Objects : InLine(q)' \cap Fires = InLine(q) \cap Fires
    BY <2>1, <2>2
  <2> QED BY <2>1, <2>2, <2>3, FlagStays
<1>2. CASE DoToggle(c, o, st)
  <2>1. stage' = [st EXCEPT ![c] = "done"] /\ UNCHANGED <<unattended, line, at, shadowed>>
    BY <1>2 DEF DoToggle
  <2>2. stage' \in [Clients -> Stages]
    BY <2>1 DEF Stages
  <2>3. \A x \in Clients : stage[x] = "queued" => stage'[x] = "queued"
    BY <2>1
  <2>4. LineInv' /\ \A q \in Objects : InLine(q)' = InLine(q)
    BY <1>0, <2>1, <2>2, <2>3, StageMoves
  <2> QED BY <2>1, <2>4, FlagStays
<1>3. CASE DoFire(c, o, st)
  <2>1. /\ c \in Fires /\ Enlist(c, o, st)
        /\ unattended' = [unattended EXCEPT ![o] = TRUE] /\ shadowed' = shadowed \ {c}
    BY <1>3 DEF DoFire
  <2>2. /\ LineInv' /\ \A x \in Clients : x # c => stage'[x] = st[x]
        /\ \A q \in Objects : c \notin InLine(q)
        /\ \A q \in Objects : InLine(q)' = IF q = o THEN InLine(q) \cup {c} ELSE InLine(q)
    BY <2>1, <1>0, EnlistKeeps
  <2>3. unattended' \in [Objects -> BOOLEAN]
    BY <2>1 DEF FlagInv
  <2>4. ASSUME NEW q \in Objects
        PROVE  /\ unattended'[q] => Fires \cap InLine(q)' # {}
               /\ \A f \in Fires \cap InLine(q)' : unattended'[q] \/ f \in shadowed'
    <3>1. CASE q = o
      BY <3>1, <2>1, <2>2 DEF FlagInv
    <3>2. CASE q # o
      BY <3>2, <2>1, <2>2 DEF FlagInv, FlagFollowsFires
    <3> QED BY <3>1, <3>2
  <2>5. FlagFollowsFires'
    BY <2>4 DEF FlagFollowsFires
  <2> QED BY <2>2, <2>3, <2>5 DEF FlagInv
<1> QED BY <1>1, <1>2, <1>3 DEF Proceed

\* openSession up to its await, for a client that is not queued.
LEMMA OpenKeeps ==
  ASSUME FlagInv, live \in [Sessions -> Objects \cup {NoObj}],
         NEW c \in Clients, NEW st \in [Clients -> Stages],
         \A x \in Clients : st[x] = "queued" <=> stage[x] = "queued",
         st[c] # "queued", Open(c, st)
  PROVE  /\ FlagInv' /\ UNCHANGED <<live, made>>
         /\ \A x \in Clients : x # c => stage'[x] = st[x]
<1>1. UNCHANGED <<live, made>>
  BY DEF Open
<1>2. CASE /\ stage' = [st EXCEPT ![c] = IF c \in FreshFires THEN "opening" ELSE
                             IF registry[SessionOf[c]] = "gone" THEN "failed" ELSE "opening"]
           /\ UNCHANGED <<cellVars, line, at, shadowed>>
  <2>1. stage' \in [Clients -> Stages] /\ \A x \in Clients : x # c => stage'[x] = st[x]
    BY <1>2 DEF Stages
  <2>2. \A x \in Clients : stage[x] = "queued" => stage'[x] = "queued"
    BY <2>1
  <2>3. LineInv' /\ \A q \in Objects : InLine(q)' = InLine(q)
    BY <1>2, <2>1, <2>2, StageMoves DEF FlagInv
  <2> QED BY <1>1, <1>2, <2>1, <2>3, FlagStays DEF cellVars
<1>3. CASE /\ c \notin FreshFires /\ live[SessionOf[c]] # NoObj
           /\ Proceed(c, live[SessionOf[c]], st)
  <2>1. live[SessionOf[c]] \in Objects
    BY <1>3, AgentHostAssumption
  <2> QED BY <1>1, <1>3, <2>1, ProceedKeeps
<1> QED BY <1>2, <1>3 DEF Open

\* The head of a queue leaves it.
LEMMA DequeueKeeps ==
  ASSUME LineInv, NEW c \in Clients, Driving(c),
         line' = [line EXCEPT ![at[c]] = Tail(@)],
         stage' = [stage EXCEPT ![c] = "done"], at' = [at EXCEPT ![c] = NoObj]
  PROVE  /\ LineInv' /\ at[c] \in Objects
         /\ \A q \in Objects : InLine(q)' = InLine(q) \ {c}
         /\ \A q \in Objects : c \in InLine(q) <=> q = at[c]
<1>1. PICK o \in Objects : line[o] # <<>> /\ Head(line[o]) = c
  BY DEF Driving
<1>2. \A q \in Objects : line[q] \in Seq(Clients) /\ Len(line[q]) \in Nat
  BY DEF LineInv
<1>3. Len(line[o]) > 0 /\ line[o][1] = c
  BY <1>1, <1>2
<1>4. at[c] = o /\ stage[c] = "queued"
  BY <1>2, <1>3 DEF LineInv
<1>5. /\ line'[o] = Tail(line[o]) /\ line'[o] \in Seq(Clients)
      /\ Len(line'[o]) = Len(line[o]) - 1
      /\ \A i \in 1..Len(line'[o]) : line'[o][i] = line[o][i + 1]
  BY <1>1, <1>2, <1>4 DEF LineInv
<1>6. \A q \in Objects : q # o => line'[q] = line[q]
  BY <1>4 DEF LineInv
<1>7. /\ line' \in [Objects -> Seq(Clients)] /\ stage' \in [Clients -> Stages]
      /\ at' \in [Clients -> Objects \cup {NoObj}]
  BY <1>4, <1>5 DEF LineInv, Stages
<1>8. \A q \in Objects : c \in InLine(q) <=> q = at[c]
  <2>1. c \in InLine(o)
    BY <1>2, <1>3 DEF InLine
  <2> QED BY <2>1, <1>4, InLineIsQueued
<1>9. \A i \in 1..Len(line'[o]) : i + 1 \in 1..Len(line[o]) /\ line[o][i + 1] # c
  <2>1. \A i \in 1..Len(line'[o]) : i + 1 \in 1..Len(line[o]) /\ i + 1 # 1
    BY <1>2, <1>5
  <2>2. 1 \in 1..Len(line[o])
    BY <1>2, <1>3
  <2> QED BY <2>1, <2>2, <1>3 DEF LineInv
<1>10. \A q \in Objects : InLine(q)' = InLine(q) \ {c}
  <2>1. ASSUME NEW q \in Objects, q # o PROVE InLine(q)' = InLine(q)
    BY <2>1, <1>6 DEF InLine
  <2>2. InLine(o)' = InLine(o) \ {c}
    <3>1. DOMAIN line'[o] = 1..Len(line'[o]) /\ DOMAIN line[o] = 1..Len(line[o])
      BY <1>2, <1>5
    <3>2. ASSUME NEW x \in InLine(o)' PROVE x \in InLine(o) /\ x # c
      <4>1. PICK i \in 1..Len(line'[o]) : x = line'[o][i]
        BY <3>1 DEF InLine
      <4> QED BY <4>1, <3>1, <1>5, <1>9 DEF InLine
    <3>3. ASSUME NEW x \in InLine(o), x # c PROVE x \in InLine(o)'
      <4>1. PICK i \in 1..Len(line[o]) : x = line[o][i]
        BY <3>1 DEF InLine
      <4>2. i # 1
        BY <3>3, <4>1, <1>3
      <4>3. i - 1 \in 1..Len(line'[o]) /\ (i - 1) + 1 = i
        BY <4>2, <1>2, <1>5
      <4>4. line'[o][i - 1] = x
        BY <4>1, <4>3, <1>5
      <4> QED BY <4>3, <4>4, <3>1 DEF InLine
    <3> QED BY <3>2, <3>3
  <2> QED BY <2>1, <2>2, <1>4, <1>8
<1>11. ASSUME NEW q \in Objects, NEW i \in 1..Len(line'[q])
       PROVE  stage'[line'[q][i]] = "queued" /\ at'[line'[q][i]] = q
  <2>1. CASE q = o
    <3>1. i + 1 \in 1..Len(line[o]) /\ line'[q][i] = line[o][i + 1] /\ line[o][i + 1] # c
      BY <2>1, <1>5, <1>9
    <3>2. line[o][i + 1] \in Clients
      BY <3>1, <1>2
    <3> QED BY <2>1, <3>1, <3>2 DEF LineInv
  <2>2. CASE q # o
    <3>0. line'[q] = line[q] /\ line[q] \in Seq(Clients)
      BY <2>2, <1>2, <1>6
    <3>1. i \in 1..Len(line[q]) /\ line'[q][i] = line[q][i]
      BY <3>0
    <3>2. line[q][i] \in Clients
      BY <3>0, <3>1
    <3>3. line[q][i] # c
      BY <2>2, <3>1, <1>4 DEF LineInv
    <3> QED BY <2>2, <3>1, <3>2, <3>3 DEF LineInv
  <2> QED BY <2>1, <2>2
<1>12. ASSUME NEW q \in Objects, NEW i \in 1..Len(line'[q]), NEW j \in 1..Len(line'[q]),
              line'[q][i] = line'[q][j]
       PROVE  i = j
  <2>1. CASE q = o
    <3>1. i + 1 \in 1..Len(line[o]) /\ j + 1 \in 1..Len(line[o])
      BY <2>1, <1>9
    <3>2. line[o][i + 1] = line[o][j + 1]
      BY <2>1, <1>12, <1>5
    <3>3. i + 1 = j + 1
      BY <3>1, <3>2 DEF LineInv
    <3> QED BY <3>3
  <2>2. CASE q # o
    BY <2>2, <1>6, <1>12 DEF LineInv
  <2> QED BY <2>1, <2>2
<1>13. LineInv'
  BY <1>7, <1>11, <1>12 DEF LineInv
<1> QED BY <1>4, <1>8, <1>10, <1>13

\* A turn that ends takes only its own client from the queue.
LEMMA TurnEndsKeeps ==
  ASSUME FlagInv, NEW c \in Clients, TurnEnds(c)
  PROVE  FlagInv'
<1>1. /\ c \notin Fires /\ UNCHANGED <<unattended, shadowed>>
      /\ LineInv' /\ \A q \in Objects : InLine(q)' = InLine(q) \ {c}
  BY DequeueKeeps, AgentHostAssumption DEF TurnEnds, FlagInv, cellVars
<1>2. \A q \in Objects : InLine(q)' \cap Fires = InLine(q) \cap Fires
  BY <1>1
<1> QED BY <1>1, <1>2, FlagStays

\* A fire that ends lowers the flag over the fires still queued there, and says so.
LEMMA FireEndsKeeps ==
  ASSUME FlagInv, NEW c \in Clients, FireEnds(c)
  PROVE  FlagInv'
<1>1. /\ LineInv' /\ at[c] \in Objects
      /\ \A q \in Objects : InLine(q)' = InLine(q) \ {c}
      /\ \A q \in Objects : c \in InLine(q) <=> q = at[c]
  BY DequeueKeeps DEF FireEnds, FlagInv
<1>2. /\ unattended' = [unattended EXCEPT ![at[c]] = FALSE]
      /\ shadowed' = (shadowed \cup (Fires \cap InLine(at[c]))) \ {c}
  BY DEF FireEnds
<1>3. unattended' \in [Objects -> BOOLEAN]
  BY <1>2 DEF FlagInv
<1>4. ASSUME NEW q \in Objects
      PROVE  /\ unattended'[q] => Fires \cap InLine(q)' # {}
             /\ \A f \in Fires \cap InLine(q)' : unattended'[q] \/ f \in shadowed'
  <2>1. CASE q = at[c]
    BY <2>1, <1>1, <1>2 DEF FlagInv
  <2>2. CASE q # at[c]
    <3>1. InLine(q)' = InLine(q) /\ c \notin InLine(q) /\ unattended'[q] = unattended[q]
      BY <2>2, <1>1, <1>2 DEF FlagInv
    <3> QED BY <3>1, <1>2 DEF FlagInv, FlagFollowsFires
  <2> QED BY <2>1, <2>2
<1>5. FlagFollowsFires'
  BY <1>4 DEF FlagFollowsFires
<1> QED BY <1>1, <1>3, <1>5 DEF FlagInv

\* The walk of a tick fires a schedule that is not queued.
LEMMA WalkKeeps ==
  ASSUME FlagInv, live \in [Sessions -> Objects \cup {NoObj}],
         NEW p \in 1..(Len(Order) + 1), NEW names, NEW t, NEW file,
         NEW st \in [Clients -> Stages],
         \A x \in Clients : st[x] = "queued" <=> stage[x] = "queued",
         \A s \in Schedules : st[s] = "idle",
         Walk(p, names, t, file, st)
  PROVE  /\ FlagInv' /\ UNCHANGED <<live, made>>
         /\ \A s \in Schedules : s # firing' => stage'[s] = "idle"
<1>0. Schedules \subseteq Clients
  BY SchedulerAssumption DEF Clients
<1>1. PICK k \in p..(Len(Order) + 1) :
        \/ /\ k > Len(Order) /\ stage' = st
           /\ UNCHANGED <<live, made, unattended, line, at, shadowed>>
        \/ k <= Len(Order) /\ firing' = Order[k] /\ Open(Order[k], st)
  BY DEF Walk
<1>2. CASE k > Len(Order)
  <2>1. stage' = st /\ UNCHANGED <<live, made, unattended, line, at, shadowed>>
    BY <1>1, <1>2, OrderFacts
  <2>2. LineInv' /\ \A q \in Objects : InLine(q)' = InLine(q)
    BY <2>1, StageMoves DEF FlagInv
  <2> QED BY <2>1, <2>2, FlagStays
<1>3. CASE k <= Len(Order)
  <2>1. firing' = Order[k] /\ Open(Order[k], st) /\ Order[k] \in Schedules
    BY <1>1, <1>3, OrderFacts
  <2>2. /\ FlagInv' /\ UNCHANGED <<live, made>>
        /\ \A x \in Clients : x # Order[k] => stage'[x] = st[x]
    BY <2>1, <1>0, OpenKeeps
  <2> QED BY <2>1, <2>2, <1>0
<1> QED BY <1>2, <1>3, OrderFacts

\* Steps that leave the flag and the queues alone.
LEMMA FlagUntouched ==
  ASSUME FlagInv, UNCHANGED <<unattended, line, stage, at, shadowed>>
  PROVE  FlagInv'
BY DEF FlagInv, LineInv, FlagFollowsFires, InLine

\* Before anything happens, and after the process has died, nobody is queued.
Emptied ==
  /\ line \in [Objects -> {<<>>}] /\ unattended = [o \in Objects |-> FALSE]
  /\ stage \in [Clients -> Stages] /\ at \in [Clients -> Objects \cup {NoObj}]

\* With empty queues and the flags down, the flags follow.
LEMMA EmptyLines == Emptied => FlagInv
<1> SUFFICES ASSUME Emptied PROVE FlagInv
  OBVIOUS
<1> USE DEF Emptied
<1>1. \A o \in Objects : line[o] = <<>> /\ InLine(o) = {}
  BY DEF InLine
<1>2. line \in [Objects -> Seq(Clients)]
  <2>1. <<>> \in Seq(Clients)
    OBVIOUS
  <2> QED BY <2>1
<1>3. LineInv
  BY <1>1, <1>2 DEF LineInv
<1> QED BY <1>1, <1>3 DEF FlagInv, FlagFollowsFires

\* The state the host and its scheduler start in.
LEMMA FlagStart == Init => FlagInv /\ RestInv
<1> SUFFICES ASSUME Init PROVE FlagInv /\ RestInv
  OBVIOUS
<1>1. FlagInv
  BY EmptyLines DEF Init, HostInit, Stages, Emptied
<1>2. RestInv
  <2>1. Schedules \subseteq Clients
    BY SchedulerAssumption DEF Clients
  <2>2. MaxObjects \in Nat
    BY AgentHostAssumption
  <2> QED BY <2>1, <2>2 DEF Init, HostInit, RestInv
<1> QED BY <1>1, <1>2

\* A step of the host beside the scheduler concerns no schedule but the one being fired.
LEMMA HostStepsKeep ==
  ASSUME FlagInv, RestInv, HostSteps
  PROVE  FlagInv' /\ RestInv'
<1> USE DEF RestInv
<1>0. /\ up /\ up' = up /\ firing' = firing /\ Schedules \subseteq Clients
      /\ stage \in [Clients -> Stages]
      /\ \A x \in Clients : stage[x] = "queued" <=> stage[x] = "queued"
  BY SchedulerAssumption DEF HostSteps, schedVars, tickVars, Clients, FlagInv, LineInv
<1>1. ASSUME NEW c \in Clients \ Schedules, Call(c) PROVE FlagInv' /\ RestInv'
  <2>1. stage[c] # "queued" /\ Open(c, stage)
    BY <1>1 DEF Call
  <2>2. /\ FlagInv' /\ UNCHANGED <<live, made>>
        /\ \A x \in Clients : x # c => stage'[x] = stage[x]
    BY <1>0, <2>1, OpenKeeps
  <2> QED BY <1>0, <2>2
<1>2. ASSUME NEW c \in Clients, Built(c) PROVE FlagInv' /\ RestInv'
  <2>1. /\ stage[c] = "opening" /\ c \notin FreshFires /\ made < MaxObjects
        /\ made' = made + 1 /\ live' = [live EXCEPT ![SessionOf[c]] = made + 1]
        /\ Proceed(c, made + 1, stage)
    BY <1>2 DEF Built
  <2>2. made + 1 \in Objects /\ made' \in 0..MaxObjects
    BY <2>1, AgentHostAssumption DEF Objects
  <2>3. live' \in [Sessions -> Objects \cup {NoObj}]
    BY <2>1, <2>2
  <2>4. FlagInv' /\ \A x \in Clients : x # c => stage'[x] = stage[x]
    BY <1>0, <2>1, <2>2, ProceedKeeps
  <2>5. \A s \in Schedules : s # firing => stage'[s] = "idle"
    BY <1>0, <2>1, <2>4
  <2> QED BY <1>0, <2>2, <2>3, <2>4, <2>5
<1>3. ASSUME NEW c \in Clients, FreshEnds(c) PROVE FlagInv' /\ RestInv'
  <2>1. /\ stage[c] = "opening" /\ stage' = [stage EXCEPT ![c] = "done"]
        /\ UNCHANGED <<live, made, unattended, line, at, shadowed>>
    BY <1>3 DEF FreshEnds, cellVars
  <2>2. stage' \in [Clients -> Stages]
    BY <1>0, <2>1 DEF Stages
  <2>3. LineInv' /\ \A q \in Objects : InLine(q)' = InLine(q)
    BY <1>0, <2>1, <2>2, StageMoves DEF FlagInv
  <2>4. FlagInv'
    BY <2>1, <2>3, FlagStays
  <2> QED BY <1>0, <2>1, <2>4
<1>4. ASSUME NEW c \in Clients, TurnEnds(c) \/ FireEnds(c) PROVE FlagInv' /\ RestInv'
  <2>1. FlagInv'
    BY <1>4, TurnEndsKeeps, FireEndsKeeps
  <2>2. /\ Driving(c) /\ stage' = [stage EXCEPT ![c] = "done"] /\ UNCHANGED <<live, made>>
    BY <1>4 DEF TurnEnds, FireEnds
  <2>3. stage[c] = "queued"
    <3>1. PICK o \in Objects : line[o] # <<>> /\ Head(line[o]) = c
      BY <2>2 DEF Driving
    <3>2. line[o] \in Seq(Clients)
      BY DEF FlagInv, LineInv
    <3>3. 1 \in 1..Len(line[o]) /\ line[o][1] = c
      BY <3>1, <3>2
    <3> QED BY <3>3 DEF FlagInv, LineInv
  <2> QED BY <1>0, <2>1, <2>2, <2>3
<1>5. ASSUME NEW c \in Clients, WriteTodos(c) PROVE FlagInv' /\ RestInv'
  BY <1>0, <1>5, FlagUntouched DEF WriteTodos, cellVars
<1>6. ASSUME NEW s \in Sessions, Delete(s) PROVE FlagInv' /\ RestInv'
  BY <1>0, <1>6, FlagUntouched DEF Delete, cellVars
<1> QED BY <1>1, <1>2, <1>3, <1>4, <1>5, <1>6 DEF HostSteps

\* Every step keeps the flag with its fires.
LEMMA FlagStep ==
  ASSUME FlagInv, RestInv, TickInv, [Next]_vars
  PROVE  FlagInv' /\ RestInv'
<1>0. /\ Schedules \subseteq Clients /\ NoSchedule \notin Schedules
      /\ stage \in [Clients -> Stages] /\ live \in [Sessions -> Objects \cup {NoObj}]
  BY SchedulerAssumption DEF Clients, FlagInv, LineInv, RestInv
<1>1. CASE Tick /\ ~ticking
  <2>1. Walk(1, enabled, clock, stored, stage) /\ up /\ up' = up
    BY <1>1 DEF Tick
  <2>2. \A s \in Schedules : stage[s] = "idle"
    BY <1>0, <1>1, <2>1 DEF RestInv, TickInv
  <2>3. 1 \in 1..(Len(Order) + 1) /\ \A x \in Clients : stage[x] = "queued" <=> stage[x] = "queued"
    BY OrderFacts
  <2>4. /\ FlagInv' /\ UNCHANGED <<live, made>>
        /\ \A s \in Schedules : s # firing' => stage'[s] = "idle"
    BY <1>0, <2>1, <2>2, <2>3, WalkKeeps
  <2> QED BY <2>1, <2>4 DEF RestInv
<1>2. CASE Resume
  <2> DEFINE file == [stored EXCEPT ![firing] = NextRun(firing, clock)]
  <2> DEFINE st == [stage EXCEPT ![firing] = "idle"]
  <2>1. /\ Walk(place, listed, tickNow, file, st) /\ up' = up
        /\ firing # NoSchedule /\ stage[firing] \in {"done", "failed"}
    BY <1>2 DEF Resume
  <2>2. firing \in Schedules /\ place \in 1..(Len(Order) + 1)
    BY <2>1, OrderFacts DEF TickInv
  <2>3. st \in [Clients -> Stages] /\ \A x \in Clients : st[x] = "queued" <=> stage[x] = "queued"
    BY <1>0, <2>1, <2>2 DEF Stages
  <2>4. up /\ \A s \in Schedules : st[s] = "idle"
    BY <1>0, <2>1, <2>2 DEF RestInv
  <2> HIDE DEF file, st
  <2>5. /\ FlagInv' /\ UNCHANGED <<live, made>>
        /\ \A s \in Schedules : s # firing' => stage'[s] = "idle"
    BY <1>0, <2>1, <2>2, <2>3, <2>4, WalkKeeps
  <2> QED BY <2>1, <2>4, <2>5 DEF RestInv
<1>3. CASE Crash
  <2>1. /\ up' = FALSE /\ line' = [o \in Objects |-> <<>>] /\ made' = made
        /\ unattended' = [o \in Objects |-> FALSE] /\ at' = [c \in Clients |-> NoObj]
        /\ live' = [s \in Sessions |-> NoObj] /\ stage' \in [Clients -> Stages]
        /\ firing' = NoSchedule
    BY <1>0, <1>3 DEF Crash, LoseMemory, Stages, NoTick
  <2>2. Emptied'
    BY <2>1 DEF Emptied
  <2>3. FlagInv'
    BY <2>2, EmptyLines, PTL
  <2> QED BY <2>1, <2>3 DEF RestInv
<1>4. CASE Restart
  <2>1. /\ ~up /\ up' = TRUE /\ UNCHANGED <<live, made, unattended, line, at, shadowed>>
        /\ stage' = [c \in Clients |-> IF c \in Schedules THEN "idle" ELSE stage[c]]
    BY <1>4 DEF Restart, cellVars
  <2>2. line \in [Objects -> {<<>>}] /\ \A o \in Objects : InLine(o) = {}
    BY <2>1 DEF RestInv, FlagInv, LineInv, InLine
  <2>3. unattended = [o \in Objects |-> FALSE]
    BY <2>2 DEF FlagInv, FlagFollowsFires
  <2>4. stage' \in [Clients -> Stages] /\ \A s \in Schedules : stage'[s] = "idle"
    BY <1>0, <2>1 DEF Stages
  <2>5. Emptied'
    BY <2>1, <2>2, <2>3, <2>4 DEF Emptied, FlagInv, LineInv
  <2>6. FlagInv'
    BY <2>5, EmptyLines, PTL
  <2> QED BY <2>1, <2>4, <2>6 DEF RestInv
<1>5. CASE HostSteps
  BY <1>5, HostStepsKeep
<1>6. ASSUME \/ Minute \/ (Tick /\ ticking) \/ UNCHANGED vars
             \/ \E s \in Schedules : Edit(s)
      PROVE  FlagInv' /\ RestInv'
  <2>1. UNCHANGED <<live, made, up, firing, unattended, line, stage, at, shadowed>>
    BY <1>6 DEF Minute, Tick, Edit, vars, hostVars, cellVars, schedVars, tickVars
  <2> QED BY <2>1, FlagUntouched DEF RestInv
<1> QED BY <1>1, <1>2, <1>3, <1>4, <1>5, <1>6 DEF Next

\* In every behaviour the unattended flag is up only while a fire of its session is queued
\* or driving, and down under one only after another fire of the session has ended.
THEOREM FlagFollows == Spec => []FlagFollowsFires
<1> DEFINE Inv == FlagInv /\ RestInv /\ TickInv
<1>1. Init => Inv
  BY FlagStart, SlotsStart
<1>2. Inv /\ [Next]_vars => Inv'
  BY FlagStep, SlotsStep
<1>3. Inv => FlagFollowsFires
  BY DEF FlagInv
<1> HIDE DEF Inv
<1> QED BY <1>1, <1>2, <1>3, PTL DEF Spec

-----------------------------------------------------------------------------
(* What a tick passes, and the fire it awaits *)

\* What the running tick, or one that would start now, walks over and goes by.
Walked == IF ticking THEN listed ELSE enabled
ReadAt == IF ticking THEN tickNow ELSE clock

\* Schedule s is armed and lies ahead of time t.
Ahead(s, t) == stored[s] # NoSlot /\ stored[s] > t

\* The places a running tick has passed, but for the one whose fire it awaits.
PassedAhead ==
  ticking => \A i \in 1..(place - 2) : Order[i] \in listed => Ahead(Order[i], tickNow)

\* A tick that ends, other than by the death of the process, leaves no schedule it walked
\* over due or unarmed.
TickPassesNothing ==
  [][(Tick \/ Resume) /\ ~ticking' =>
       \A i \in 1..Len(Order) : Order[i] \in Walked =>
         stored'[Order[i]] # NoSlot /\ stored'[Order[i]] > ReadAt]_vars

\* The fire a tick awaits opens its session, stands in a turn queue, or has ended.
FireIsHeld ==
  firing # NoSchedule =>
    \/ stage[firing] \in {"opening", "done", "failed"}
    \/ stage[firing] = "queued" /\ \E o \in Objects : at[firing] = o /\ firing \in InLine(o)

\* From the place it goes on at, a walk leaves each listed schedule it passes ahead of the
\* time it has read.
LEMMA WalkPasses ==
  ASSUME TickInv, PassedAhead,
         NEW p \in 1..(Len(Order) + 1), NEW names \in SUBSET Schedules,
         NEW t \in Nat, t <= clock, NEW st,
         NEW file \in [Schedules -> Nat \cup {NoSlot}],
         \A s \in Schedules : s # firing => file[s] = stored[s],
         IF ticking
         THEN p = place /\ t = tickNow /\ names = listed /\ file[firing] \in Nat /\ file[firing] > clock
         ELSE p = 1 /\ t = clock,
         Walk(p, names, t, file, st)
  PROVE  /\ PassedAhead'
         /\ ~ticking' => \A i \in 1..Len(Order) : Order[i] \in names =>
                           stored'[Order[i]] # NoSlot /\ stored'[Order[i]] > t
<1> USE OrderFacts
<1>1. PICK k \in p..(Len(Order) + 1) :
        LET passed == {Order[i] : i \in p..(k - 1)} \cap names
        IN  /\ StopsAt(k, p, names, t)
            /\ stored' = [s \in Schedules |->
                            IF s \in passed /\ (ToArm(s) \/ ToSkip(s, t))
                            THEN NextRun(s, t) ELSE file[s]]
            /\ \/ k > Len(Order) /\ NoTick
               \/ /\ k <= Len(Order)
                  /\ ticking' = TRUE /\ tickNow' = t
                  /\ listed' = names /\ place' = k + 1 /\ firing' = Order[k]
  BY DEF Walk
<1> DEFINE passed == {Order[i] : i \in p..(k - 1)} \cap names
<1>n. NoSchedule \notin Schedules /\ NoSlot \notin Nat /\ stored \in [Schedules -> Nat \cup {NoSlot}]
  BY SchedulerAssumption DEF TickInv
<1>f. firing \in Schedules => firing = Order[p - 1] /\ p - 1 \in 1..Len(Order)
  BY <1>n DEF TickInv
<1>2. ASSUME NEW i \in 1..Len(Order), i <= k - 1, Order[i] \in names
      PROVE  stored'[Order[i]] # NoSlot /\ stored'[Order[i]] > t
  <2> DEFINE s == Order[i]
  <2>s. s \in Schedules /\ stored'[s] = IF s \in passed /\ (ToArm(s) \/ ToSkip(s, t))
                                        THEN NextRun(s, t) ELSE file[s]
    BY <1>1
  <2>1. CASE i >= p
    <3>1. s \in passed /\ ~ToFire(s, t) /\ i \in p..(k - 1)
      BY <1>1, <1>2, <2>1 DEF StopsAt
    <3>2. s # firing
      BY <1>f, <1>n, <2>s, <2>1
    <3>3. file[s] = stored[s] /\ stored[s] \in Nat \cup {NoSlot}
      BY <1>n, <2>s, <3>2
    <3>4. CASE ToArm(s) \/ ToSkip(s, t)
      BY <1>n, <2>s, <3>1, <3>4, NextRunIsLater
    <3>5. CASE ~(ToArm(s) \/ ToSkip(s, t))
      BY <1>n, <2>s, <3>1, <3>3, <3>5 DEF ToArm, ToFire, Due
    <3> QED BY <3>4, <3>5
  <2>2. CASE i < p
    <3>1. ticking /\ p = place /\ t = tickNow /\ names = listed
      BY <2>2
    <3>2. \A j \in p..(k - 1) : j \in 1..Len(Order) /\ Order[j] # s
      BY <2>2
    <3>3. stored'[s] = file[s]
      BY <2>s, <3>2
    <3>4. CASE i = place - 1
      BY <1>f, <1>n, <3>1, <3>3, <3>4 DEF TickInv
    <3>5. CASE i # place - 1
      <4>1. i \in 1..(place - 2) /\ s # firing
        BY <1>f, <1>n, <2>2, <2>s, <3>1, <3>5 DEF TickInv
      <4>2. Ahead(s, tickNow)
        BY <1>2, <3>1, <4>1 DEF PassedAhead
      <4> QED BY <2>s, <3>1, <3>3, <4>1, <4>2 DEF Ahead
    <3> QED BY <3>4, <3>5
  <2> QED BY <2>1, <2>2
<1>3. CASE k > Len(Order)
  <2>1. ticking' = FALSE
    BY <1>1, <1>3 DEF NoTick
  <2> QED BY <1>2, <1>3, <2>1 DEF PassedAhead
<1>4. CASE k <= Len(Order)
  <2>1. ticking' = TRUE /\ tickNow' = t /\ listed' = names /\ place' = k + 1
    BY <1>1, <1>4
  <2>2. \A i \in 1..(place' - 2) : i \in 1..Len(Order) /\ i <= k - 1
    BY <1>4, <2>1
  <2> QED BY <1>2, <2>1, <2>2 DEF PassedAhead, Ahead
<1> QED BY <1>3, <1>4

\* Of every step.
LEMMA PassedStep ==
  ASSUME TickInv, PassedAhead, [Next]_vars
  PROVE  /\ PassedAhead'
         /\ (Tick \/ Resume) /\ ~ticking' =>
              \A i \in 1..Len(Order) : Order[i] \in Walked =>
                stored'[Order[i]] # NoSlot /\ stored'[Order[i]] > ReadAt
<1>1. ASSUME Tick, ~ticking
      PROVE  /\ PassedAhead'
             /\ ~ticking' => \A i \in 1..Len(Order) : Order[i] \in Walked =>
                               stored'[Order[i]] # NoSlot /\ stored'[Order[i]] > ReadAt
  <2>1. Walk(1, enabled, clock, stored, stage)
    BY <1>1 DEF Tick
  <2>2. /\ clock \in Nat /\ clock <= clock /\ enabled \subseteq Schedules
        /\ stored \in [Schedules -> Nat \cup {NoSlot}] /\ 1 \in 1..(Len(Order) + 1)
    BY OrderFacts DEF TickInv
  <2>3. /\ PassedAhead'
        /\ ~ticking' => \A i \in 1..Len(Order) : Order[i] \in enabled =>
                          stored'[Order[i]] # NoSlot /\ stored'[Order[i]] > clock
    BY <1>1, <2>1, <2>2, WalkPasses
  <2> QED BY <1>1, <2>3 DEF Walked, ReadAt
<1>2. ASSUME Resume
      PROVE  /\ PassedAhead'
             /\ ~ticking' => \A i \in 1..Len(Order) : Order[i] \in Walked =>
                               stored'[Order[i]] # NoSlot /\ stored'[Order[i]] > ReadAt
  <2> DEFINE file == [stored EXCEPT ![firing] = NextRun(firing, clock)]
  <2> DEFINE st == [stage EXCEPT ![firing] = "idle"]
  <2>1. Walk(place, listed, tickNow, file, st) /\ firing # NoSchedule
    BY <1>2 DEF Resume
  <2>2. ticking /\ firing \in Schedules /\ place \in 1..(Len(Order) + 1)
    BY <2>1, OrderFacts DEF TickInv
  <2>3. /\ file \in [Schedules -> Nat \cup {NoSlot}]
        /\ file[firing] \in Nat /\ file[firing] > clock
        /\ \A s \in Schedules : s # firing => file[s] = stored[s]
    BY <2>2, NextRunIsLater DEF TickInv
  <2>t. tickNow \in Nat /\ tickNow <= clock /\ listed \in SUBSET Schedules
    BY <2>2 DEF TickInv
  <2> HIDE DEF file, st
  <2>4. /\ PassedAhead'
        /\ ~ticking' => \A i \in 1..Len(Order) : Order[i] \in listed =>
                          stored'[Order[i]] # NoSlot /\ stored'[Order[i]] > tickNow
    BY <2>1, <2>2, <2>3, <2>t, WalkPasses
  <2> QED BY <2>2, <2>4 DEF Walked, ReadAt
<1>3. CASE Tick /\ ticking
  BY <1>3 DEF Tick, tickVars, PassedAhead, Ahead
<1>4. CASE Crash
  <2>1. ticking' = FALSE
    BY <1>4 DEF Crash, NoTick
  <2>2. ~Tick /\ ~Resume
    BY <1>4 DEF Crash, Tick, Resume
  <2> QED BY <2>1, <2>2 DEF PassedAhead
<1>5. CASE Minute \/ Restart \/ (\E s \in Schedules : Edit(s)) \/ HostSteps \/ UNCHANGED vars
  <2>1. UNCHANGED <<stored, tickVars>>
    BY <1>5 DEF Minute, Restart, Edit, HostSteps, vars, schedVars
  <2> QED BY <1>1, <1>2, <1>3, <2>1 DEF PassedAhead, Ahead, tickVars
<1> QED BY <1>1, <1>2, <1>3, <1>4, <1>5 DEF Next

\* Half of what DueIsHandled needs: whatever fires it awaits, however long, fail or
\* succeed, and whatever is edited meanwhile, a tick that comes to its end has armed,
\* skipped or fired everything it found due (scheduler.ts tick).
THEOREM TicksPassNothing == Spec => TickPassesNothing /\ []PassedAhead
<1>1. Init => TickInv /\ PassedAhead
  BY SlotsStart DEF Init, PassedAhead
<1>2. TickInv /\ PassedAhead /\ [Next]_vars => TickInv' /\ PassedAhead'
  BY SlotsStep, PassedStep
<1>3. TickInv /\ PassedAhead /\ [Next]_vars =>
        [(Tick \/ Resume) /\ ~ticking' =>
           \A i \in 1..Len(Order) : Order[i] \in Walked =>
             stored'[Order[i]] # NoSlot /\ stored'[Order[i]] > ReadAt]_vars
  BY PassedStep
<1> QED BY <1>1, <1>2, <1>3, PTL DEF Spec, TickPassesNothing

\* Whoever is queued stands in a turn queue.
Stands == \A c \in Clients : stage[c] = "queued" => \E o \in Objects : c \in InLine(o)

\* A client that proceeds stands in the queue it joins, if it joins one.
LEMMA ProceedStands ==
  ASSUME LineInv, Stands, NEW c \in Clients, NEW o \in Objects, NEW st \in [Clients -> Stages],
         \A x \in Clients : st[x] = "queued" <=> stage[x] = "queued",
         st[c] # "queued", Proceed(c, o, st)
  PROVE  Stands' /\ stage'[c] # "idle"
<1>1. CASE Enlist(c, o, st)
  <2>1. /\ \A x \in Clients : x # c => stage'[x] = st[x]
        /\ \A q \in Objects : InLine(q)' = IF q = o THEN InLine(q) \cup {c} ELSE InLine(q)
    BY <1>1, EnlistKeeps
  <2>2. stage'[c] = "queued"
    BY <1>1 DEF Enlist
  <2> QED BY <2>1, <2>2 DEF Stands
<1>2. CASE DoToggle(c, o, st)
  <2>1. stage' = [st EXCEPT ![c] = "done"] /\ line' = line
    BY <1>2 DEF DoToggle
  <2>2. \A q \in Objects : InLine(q)' = InLine(q)
    BY <2>1 DEF InLine
  <2> QED BY <2>1, <2>2 DEF Stands
<1> QED BY <1>1, <1>2 DEF Proceed, DoSend, DoFire

\* So does one that opens its session.
LEMMA OpenStands ==
  ASSUME LineInv, Stands, live \in [Sessions -> Objects \cup {NoObj}],
         NEW c \in Clients, NEW st \in [Clients -> Stages],
         \A x \in Clients : st[x] = "queued" <=> stage[x] = "queued",
         st[c] # "queued", Open(c, st)
  PROVE  Stands' /\ stage'[c] # "idle"
<1>1. CASE /\ stage' = [st EXCEPT ![c] = IF c \in FreshFires THEN "opening" ELSE
                             IF registry[SessionOf[c]] = "gone" THEN "failed" ELSE "opening"]
           /\ line' = line
  <2>1. \A q \in Objects : InLine(q)' = InLine(q)
    BY <1>1 DEF InLine
  <2> QED BY <1>1, <2>1 DEF Stands
<1>2. CASE /\ c \notin FreshFires /\ live[SessionOf[c]] # NoObj
           /\ Proceed(c, live[SessionOf[c]], st)
  <2>1. live[SessionOf[c]] \in Objects
    BY <1>2, AgentHostAssumption
  <2> QED BY <1>2, <2>1, ProceedStands
<1> QED BY <1>1, <1>2 DEF Open

\* A walk that stops at a schedule leaves its fire in hand.
LEMMA WalkStands ==
  ASSUME LineInv, Stands, live \in [Sessions -> Objects \cup {NoObj}],
         NEW p \in 1..(Len(Order) + 1), NEW names, NEW t, NEW file,
         NEW st \in [Clients -> Stages],
         \A x \in Clients : st[x] = "queued" <=> stage[x] = "queued",
         \A s \in Schedules : st[s] = "idle",
         Walk(p, names, t, file, st)
  PROVE  Stands' /\ (firing' # NoSchedule => stage'[firing'] # "idle")
<1>0. Schedules \subseteq Clients
  BY SchedulerAssumption DEF Clients
<1>1. PICK k \in p..(Len(Order) + 1) :
        \/ k > Len(Order) /\ stage' = st /\ line' = line /\ firing' = NoSchedule
        \/ k <= Len(Order) /\ firing' = Order[k] /\ Open(Order[k], st)
  BY DEF Walk, NoTick
<1>2. CASE k > Len(Order)
  <2>1. stage' = st /\ line' = line /\ firing' = NoSchedule
    BY <1>1, <1>2, OrderFacts
  <2>2. \A q \in Objects : InLine(q)' = InLine(q)
    BY <2>1 DEF InLine
  <2> QED BY <2>1, <2>2 DEF Stands
<1>3. CASE k <= Len(Order)
  <2>1. firing' = Order[k] /\ Open(Order[k], st) /\ Order[k] \in Schedules
    BY <1>1, <1>3, OrderFacts
  <2> QED BY <2>1, <1>0, OpenStands
<1> QED BY <1>2, <1>3, OrderFacts

\* The fire that is awaited is under way, and whoever is queued stands somewhere.
HeldInv == Stands /\ (firing # NoSchedule => stage[firing] # "idle")

\* A call of the host beside the scheduler starts or ends nothing else.
LEMMA HostStepsHold ==
  ASSUME FlagInv, RestInv, TickInv, HeldInv, HostSteps
  PROVE  HeldInv'
<1>0. /\ LineInv /\ Stands /\ firing' = firing /\ Schedules \subseteq Clients
      /\ live \in [Sessions -> Objects \cup {NoObj}]
      /\ stage \in [Clients -> Stages] /\ \A x \in Clients : stage[x] = "queued" <=> stage[x] = "queued"
      /\ firing \in Schedules \cup {NoSchedule}
  BY SchedulerAssumption DEF HostSteps, schedVars, tickVars, Clients, FlagInv, LineInv, RestInv, HeldInv, TickInv
<1>1. ASSUME Stands', NEW c \in Clients, stage'[c] # "idle", \A x \in Clients : x # c => stage'[x] = stage[x]
      PROVE  HeldInv'
  BY <1>0, <1>1 DEF HeldInv
<1>2. ASSUME NEW c \in Clients \ Schedules, Call(c) PROVE HeldInv'
  <2>1. stage[c] # "queued" /\ Open(c, stage)
    BY <1>2 DEF Call
  <2>2. \A x \in Clients : x # c => stage'[x] = stage[x]
    BY <1>0, <2>1, OpenKeeps
  <2> QED BY <1>0, <1>1, <2>1, <2>2, OpenStands
<1>3. ASSUME NEW c \in Clients, Built(c) PROVE HeldInv'
  <2>1. stage[c] = "opening" /\ made < MaxObjects /\ Proceed(c, made + 1, stage)
    BY <1>3 DEF Built
  <2>2. made + 1 \in Objects
    BY <2>1, AgentHostAssumption DEF Objects, RestInv
  <2>3. \A x \in Clients : x # c => stage'[x] = stage[x]
    BY <1>0, <2>1, <2>2, ProceedKeeps
  <2> QED BY <1>0, <1>1, <2>1, <2>2, <2>3, ProceedStands
<1>4. ASSUME NEW c \in Clients, FreshEnds(c) PROVE HeldInv'
  <2>1. stage' = [stage EXCEPT ![c] = "done"] /\ line' = line
    BY <1>4 DEF FreshEnds
  <2>2. \A q \in Objects : InLine(q)' = InLine(q)
    BY <2>1 DEF InLine
  <2>3. Stands' /\ stage'[c] # "idle"
    BY <1>0, <2>1, <2>2 DEF Stands
  <2> QED BY <1>0, <1>1, <2>1, <2>3
<1>5. ASSUME NEW c \in Clients, TurnEnds(c) \/ FireEnds(c) PROVE HeldInv'
  <2>1. /\ Driving(c) /\ stage' = [stage EXCEPT ![c] = "done"]
        /\ line' = [line EXCEPT ![at[c]] = Tail(@)] /\ at' = [at EXCEPT ![c] = NoObj]
    BY <1>5 DEF TurnEnds, FireEnds
  <2>2. \A q \in Objects : InLine(q)' = InLine(q) \ {c}
    BY <1>0, <2>1, DequeueKeeps
  <2>3. Stands' /\ stage'[c] # "idle"
    BY <1>0, <2>1, <2>2 DEF Stands
  <2> QED BY <1>0, <1>1, <2>1, <2>3
<1>6. ASSUME (\E c \in Clients : WriteTodos(c)) \/ (\E s \in Sessions : Delete(s)) PROVE HeldInv'
  <2>1. stage' = stage /\ line' = line
    BY <1>6 DEF WriteTodos, Delete
  <2>2. \A q \in Objects : InLine(q)' = InLine(q)
    BY <2>1 DEF InLine
  <2> QED BY <1>0, <2>1, <2>2 DEF HeldInv, Stands
<1> QED BY <1>2, <1>3, <1>4, <1>5, <1>6 DEF HostSteps

\* Every step keeps it.
LEMMA HeldStep ==
  ASSUME FlagInv, RestInv, TickInv, HeldInv, [Next]_vars
  PROVE  HeldInv'
<1>0. /\ Schedules \subseteq Clients /\ NoSchedule \notin Schedules /\ LineInv /\ Stands
      /\ stage \in [Clients -> Stages] /\ live \in [Sessions -> Objects \cup {NoObj}]
  BY SchedulerAssumption DEF Clients, FlagInv, LineInv, RestInv, HeldInv
<1>1. CASE Tick /\ ~ticking
  <2>1. Walk(1, enabled, clock, stored, stage) /\ up
    BY <1>1 DEF Tick
  <2>2. \A s \in Schedules : stage[s] = "idle"
    BY <1>0, <1>1, <2>1 DEF RestInv, TickInv
  <2>3. 1 \in 1..(Len(Order) + 1) /\ \A x \in Clients : stage[x] = "queued" <=> stage[x] = "queued"
    BY OrderFacts
  <2> QED BY <1>0, <2>1, <2>2, <2>3, WalkStands DEF HeldInv
<1>2. CASE Resume
  <2> DEFINE file == [stored EXCEPT ![firing] = NextRun(firing, clock)]
  <2> DEFINE st == [stage EXCEPT ![firing] = "idle"]
  <2>1. /\ Walk(place, listed, tickNow, file, st)
        /\ firing # NoSchedule /\ stage[firing] \in {"done", "failed"}
    BY <1>2 DEF Resume
  <2>2. firing \in Schedules /\ place \in 1..(Len(Order) + 1)
    BY <2>1, OrderFacts DEF TickInv
  <2>3. st \in [Clients -> Stages] /\ \A x \in Clients : st[x] = "queued" <=> stage[x] = "queued"
    BY <1>0, <2>1, <2>2 DEF Stages
  <2>4. up
    BY <2>1 DEF RestInv
  <2>5. \A s \in Schedules : st[s] = "idle"
    BY <1>0, <2>1, <2>2, <2>4 DEF RestInv
  <2> HIDE DEF file, st
  <2> QED BY <1>0, <2>1, <2>2, <2>3, <2>5, WalkStands DEF HeldInv
<1>3. CASE Crash
  <2>1. /\ firing' = NoSchedule
        /\ stage' = [c \in Clients |-> IF stage[c] = "idle" THEN "idle"
                                       ELSE IF stage[c] = "done" THEN "done" ELSE "failed"]
    BY <1>3 DEF Crash, LoseMemory, NoTick
  <2> QED BY <2>1 DEF HeldInv, Stands
<1>4. CASE Restart
  <2>1. /\ ~up /\ line' = line /\ firing' = firing
        /\ stage' = [c \in Clients |-> IF c \in Schedules THEN "idle" ELSE stage[c]]
    BY <1>4 DEF Restart, tickVars
  <2>2. firing = NoSchedule
    BY <2>1 DEF RestInv
  <2>3. \A q \in Objects : InLine(q)' = InLine(q)
    BY <2>1 DEF InLine
  <2> QED BY <1>0, <2>1, <2>2, <2>3 DEF HeldInv, Stands
<1>5. CASE HostSteps
  BY <1>5, HostStepsHold
<1>6. ASSUME \/ Minute \/ (Tick /\ ticking) \/ UNCHANGED vars
             \/ \E s \in Schedules : Edit(s)
      PROVE  HeldInv'
  <2>1. UNCHANGED <<firing, line, stage>>
    BY <1>6 DEF Minute, Tick, Edit, vars, hostVars, schedVars, tickVars
  <2>2. \A q \in Objects : InLine(q)' = InLine(q)
    BY <2>1 DEF InLine
  <2> QED BY <2>1, <2>2 DEF HeldInv, Stands
<1> QED BY <1>1, <1>2, <1>3, <1>4, <1>5, <1>6 DEF Next

\* The other half: the fire a tick awaits is never dropped. It builds its session, stands in
\* the turn queue of the object it was sent to, or has ended and the tick may go on;
\* deletes, crashes and restarts included (index.ts runScheduleNow).
THEOREM FiresAreHeld == Spec => []FireIsHeld
<1> DEFINE Inv == FlagInv /\ RestInv /\ TickInv /\ HeldInv
<1>1. Init => Inv
  <2>1. Init => HeldInv
    BY DEF Init, HostInit, HeldInv, Stands
  <2> QED BY <2>1, FlagStart, SlotsStart
<1>2. Inv /\ [Next]_vars => Inv'
  BY FlagStep, SlotsStep, HeldStep
<1>3. Inv => FireIsHeld
  <2> SUFFICES ASSUME Inv, firing # NoSchedule
               PROVE  \/ stage[firing] \in {"opening", "done", "failed"}
                      \/ stage[firing] = "queued" /\ \E o \in Objects : at[firing] = o /\ firing \in InLine(o)
    BY DEF FireIsHeld
  <2>1. firing \in Clients /\ stage[firing] \in Stages /\ stage[firing] # "idle"
    BY SchedulerAssumption DEF Clients, FlagInv, LineInv, TickInv, HeldInv
  <2>2. CASE stage[firing] = "queued"
    <3>1. PICK o \in Objects : firing \in InLine(o)
      BY <2>1, <2>2 DEF HeldInv, Stands
    <3>2. at[firing] = o
      BY <3>1, InLineIsQueued DEF FlagInv
    <3> QED BY <2>2, <3>1, <3>2
  <2> QED BY <2>1, <2>2 DEF Stages
<1> HIDE DEF Inv
<1> QED BY <1>1, <1>2, <1>3, PTL DEF Spec
=============================================================================
