------------------------------ MODULE Scheduler ------------------------------
(***************************************************************************)
(* The scheduler (schedules/scheduler.ts, cron.ts, schedule-store.ts) over *)
(* the agent host whose runScheduleNow it fires.  Time is counted in       *)
(* minutes.  A tick reads the clock and the definitions once, walks over   *)
(* the schedules, and awaits each fire on the way with ticking set.        *)
(***************************************************************************)
EXTENDS AgentHost, Functions

CONSTANTS
  Schedules,    \* the fires the tick makes, one per schedule
  Order,        \* sequence of the schedules, as the registry lists them
  Period,       \* interval of each schedule
  Aligned,      \* schedules with a cron expression; the others say every
  SkipMissed,   \* schedules with on-missed: skip
  Slack,        \* how late is missed: one tick and two minutes
  MaxTime, MaxCrashes, MaxEdits, MaxCalls,   \* bounds
  NoSlot, NoSchedule

ASSUME SchedulerAssumption ==
  /\ Schedules \subseteq Fires
  /\ Order \in Seq(Schedules) /\ IsInjective(Order)
  /\ Period \in [Schedules -> Nat \ {0}]
  /\ Aligned \subseteq Schedules /\ SkipMissed \subseteq Schedules
  /\ Slack \in Nat /\ MaxTime \in Nat /\ MaxCrashes \in Nat /\ MaxEdits \in Nat /\ MaxCalls \in Nat
  /\ NoSlot \notin Nat /\ NoSchedule \notin Schedules

VARIABLES
  clock,
  up,        \* the process runs
  pulsed,    \* the timer has fired in this minute
  stored,    \* nextRunAt of each schedule, in memory and on file
  enabled,   \* schedules whose definition says so
  ticking,
  tickNow,   \* the time the running tick has read
  listed,    \* the enabled schedules, when the running tick began
  place,     \* where in the order the running tick goes on
  firing,    \* the schedule whose fire the tick awaits
  crashes, edits

tickVars == <<ticking, tickNow, listed, place, firing>>
schedVars == <<clock, up, pulsed, stored, enabled, tickVars, crashes, edits>>
vars == <<hostVars, schedVars>>

-----------------------------------------------------------------------------
(* Helpers *)

\* nextRunAfter: the next slot of the clock strictly after t, or an interval on.
NextRun(s, t) ==
  IF s \in Aligned THEN (t \div Period[s] + 1) * Period[s] ELSE t + Period[s]

Missed(s, t) == t - stored[s] > Slack

\* What a tick at time t does with a schedule: arm it, skip its slot, fire it.
ToArm(s)     == stored[s] = NoSlot
Due(s, t)    == stored[s] # NoSlot /\ stored[s] <= t
ToSkip(s, t) == Due(s, t) /\ s \in SkipMissed /\ Missed(s, t)
ToFire(s, t) == Due(s, t) /\ ~ToSkip(s, t)

\* The loop over the listed schedules from place p on comes to its next fire at place
\* k, or to its end one place after the last.
StopsAt(k, p, names, t) ==
  /\ \A i \in p..(k - 1) : ~(Order[i] \in names /\ ToFire(Order[i], t))
  /\ k <= Len(Order) => Order[k] \in names /\ ToFire(Order[k], t)

NoTick == ticking' = FALSE /\ tickNow' = 0 /\ listed' = {} /\ place' = 0 /\ firing' = NoSchedule

\* tick from place p on, up to its next await: what it passes is armed or skipped, the
\* schedule it stops at is fired.  file and st are the states and the stages after what
\* the same step has done before.
Walk(p, names, t, file, st) ==
  \E k \in p..(Len(Order) + 1) :
    LET passed == {Order[i] : i \in p..(k - 1)} \cap names
    IN  /\ StopsAt(k, p, names, t)
        /\ stored' = [s \in Schedules |->
                        IF s \in passed /\ (ToArm(s) \/ ToSkip(s, t))
                        THEN NextRun(s, t) ELSE file[s]]
        /\ \/ /\ k > Len(Order)
              /\ NoTick
              /\ stage' = st
              /\ UNCHANGED <<registry, live, made, mode, unattended, line, at, shadowed>>
           \/ /\ k <= Len(Order)
              /\ ticking' = TRUE /\ tickNow' = t
              /\ listed' = names /\ place' = k + 1 /\ firing' = Order[k]
              /\ Open(Order[k], st)

-----------------------------------------------------------------------------

Init ==
  /\ HostInit
  /\ clock = 0 /\ up = TRUE /\ pulsed = FALSE
  /\ stored = [s \in Schedules |-> NoSlot] /\ enabled = Schedules
  /\ ticking = FALSE /\ tickNow = 0 /\ listed = {} /\ place = 0 /\ firing = NoSchedule
  /\ crashes = 0 /\ edits = 0

\* A minute passes; a running process's timer has fired in the last one.
Minute ==
  /\ clock < MaxTime /\ (up => pulsed)
  /\ clock' = clock + 1 /\ pulsed' = FALSE
  /\ UNCHANGED <<hostVars, up, stored, enabled, tickVars, crashes, edits>>

\* The timer fires: a tick starts unless one is running.  (At the bound the clock
\* stands still and the timer goes on.)
Tick ==
  /\ up /\ (~pulsed \/ clock = MaxTime)
  /\ pulsed' = TRUE
  /\ IF ticking
     THEN UNCHANGED <<hostVars, stored, tickVars>>
     ELSE Walk(1, enabled, clock, stored, stage)
  /\ UNCHANGED <<clock, up, enabled, crashes, edits>>

\* A bug to tell apart: the slot is advanced from the time the tick began.
ResumeFromTickNow ==
  /\ firing # NoSchedule /\ stage[firing] \in {"done", "failed"}
  /\ Walk(place, listed, tickNow, [stored EXCEPT ![firing] = NextRun(firing, stored[firing])],
          [stage EXCEPT ![firing] = "idle"])
  /\ UNCHANGED <<clock, up, pulsed, enabled, crashes, edits>>

\* A bug to tell apart: a fire that throws ends the tick without its finally.
ResumeOnSuccess ==
  /\ firing # NoSchedule /\ stage[firing] = "done"
  /\ Walk(place, listed, tickNow, [stored EXCEPT ![firing] = NextRun(firing, clock)],
          [stage EXCEPT ![firing] = "idle"])
  /\ UNCHANGED <<clock, up, pulsed, enabled, crashes, edits>>

\* The awaited fire has ended, well or not: the schedule advances from the present
\* time, and the tick goes on with the time it read when it began.
Resume ==
  /\ firing # NoSchedule /\ stage[firing] \in {"done", "failed"}
  /\ Walk(place, listed, tickNow, [stored EXCEPT ![firing] = NextRun(firing, clock)],
          [stage EXCEPT ![firing] = "idle"])
  /\ UNCHANGED <<clock, up, pulsed, enabled, crashes, edits>>

\* A SCHEDULE.md is edited: enabled or not.
Edit(s) ==
  /\ edits < MaxEdits /\ edits' = edits + 1
  /\ enabled' = IF s \in enabled THEN enabled \ {s} ELSE enabled \cup {s}
  /\ UNCHANGED <<hostVars, clock, up, pulsed, stored, tickVars, crashes>>

\* The process dies; nextRunAt is on file.
Crash ==
  /\ up /\ crashes < MaxCrashes /\ crashes' = crashes + 1
  /\ up' = FALSE
  /\ LoseMemory
  /\ NoTick
  /\ UNCHANGED <<clock, pulsed, stored, enabled, edits>>

\* A new process starts its timer; the schedules can be fired again.
Restart ==
  /\ ~up /\ up' = TRUE /\ pulsed' = FALSE
  /\ stage' = [c \in Clients |-> IF c \in Schedules THEN "idle" ELSE stage[c]]
  /\ UNCHANGED <<registry, live, made, cellVars, line, at, shadowed,
                 clock, stored, enabled, tickVars, crashes, edits>>

\* What the host does beside the scheduler: manual fires, sends, switches, deletes.
HostSteps ==
  /\ up
  /\ \/ /\ Cardinality({c \in Clients \ Schedules : stage[c] # "idle"}) < MaxCalls
        /\ \E c \in Clients \ Schedules : Call(c)
     \/ \E c \in Clients : \/ Built(c) \/ FreshEnds(c) \/ TurnEnds(c)
                           \/ FireEnds(c) \/ WriteTodos(c)
     \/ \E s \in Sessions : Delete(s)
  /\ UNCHANGED schedVars

Next ==
  \/ Minute \/ Tick \/ Resume \/ Crash \/ Restart
  \/ \E s \in Schedules : Edit(s)
  \/ HostSteps

\* Time passes, the interval timer fires, an awaited promise resumes, the
\* service restarts.
Fairness == WF_vars(Minute) /\ WF_vars(Tick) /\ WF_vars(Resume) /\ WF_vars(Restart)

Spec == Init /\ [][Next]_vars /\ Fairness

-----------------------------------------------------------------------------
(* Properties *)

SchedulerTypeOK ==
  /\ HostTypeOK
  /\ clock \in 0..MaxTime /\ up \in BOOLEAN /\ pulsed \in BOOLEAN
  /\ stored \in [Schedules -> Nat \cup {NoSlot}] /\ enabled \subseteq Schedules
  /\ ticking \in BOOLEAN /\ tickNow \in 0..MaxTime
  /\ listed \subseteq Schedules /\ place \in 0..(Len(Order) + 1) /\ firing \in Schedules \cup {NoSchedule}
  /\ ticking <=> firing # NoSchedule
  /\ crashes \in 0..MaxCrashes /\ edits \in 0..MaxEdits

Slots == INSTANCE ScheduleSlots
           WITH Unarmed <- NoSlot, now <- clock, slot <- stored,
                seen <- IF ticking THEN tickNow ELSE clock,
                inFire <- IF firing = NoSchedule THEN {} ELSE {firing}

\* The scheduler keeps the promise of ScheduleSlots: no slot early, none twice
\* but after a crash, no backlog, one fire at a time, whatever manual runs, slow
\* or failing fires, edits and restarts come between.
ImplementsSlots == Slots!SlotsSpec

\* A due schedule that stays enabled is fired or skipped sooner or later, also
\* after a crash, provided that no fire hangs for ever (scheduler.ts awaits it).
DueIsHandled ==
  []<>(firing = NoSchedule \/ stage[firing] \in {"done", "failed"}) =>
    \A s \in Schedules :
      [](up /\ s \in enabled /\ Due(s, clock)
           => <>(s \notin enabled \/ ~Due(s, clock)))
=============================================================================
