---------------------------- MODULE ScheduleSlots ----------------------------
(***************************************************************************)
(* What the scheduler promises about the slots of its schedules.  A        *)
(* schedule it meets first is armed without being fired; a slot is fired   *)
(* when it has come and never before; one fire is in flight at a time; and *)
(* whatever became of it, the schedule then moves to a slot in the future: *)
(* no slot is fired twice, no backlog is worked off after a pause.  Only a *)
(* crash, which forgets the fire in flight, lets a slot be fired again.    *)
(* A slot that is armed or skipped to lies after the time the evaluation   *)
(* has seen, which may itself have passed while it awaited another fire.   *)
(***************************************************************************)
EXTENDS Integers, FiniteSets

CONSTANTS Schedules, Unarmed

VARIABLES
  now,    \* the time
  seen,   \* the time the evaluation under way has read, or else now
  slot,   \* next slot of each schedule, or Unarmed
  inFire  \* schedules whose slot is being fired

slotVars == <<now, seen, slot, inFire>>

SlotsInit == now = 0 /\ seen = 0 /\ slot = [s \in Schedules |-> Unarmed] /\ inFire = {}

TimePasses == now' > now /\ seen' \in {seen, now'} /\ UNCHANGED <<slot, inFire>>

Crash == inFire' = {} /\ seen' = now /\ UNCHANGED <<now, slot>>

\* What one step may do to one schedule.
Stay(s) == slot'[s] = slot[s] /\ (s \in inFire' <=> s \in inFire)
Arm(s)  == slot[s] = Unarmed /\ slot'[s] > seen /\ s \notin inFire'
Fire(s) == /\ slot[s] # Unarmed /\ slot[s] <= seen /\ slot'[s] = slot[s]
           /\ s \notin inFire /\ s \in inFire'
Skip(s) == /\ slot[s] # Unarmed /\ slot[s] <= seen /\ slot'[s] > seen
           /\ s \notin inFire \cup inFire'
Finish(s) == s \in inFire /\ s \notin inFire' /\ slot'[s] > now

\* One evaluation may arm, move and end the fires of several schedules.
Evaluate ==
  /\ seen' \in {seen, now} /\ UNCHANGED now
  /\ \A s \in Schedules : Stay(s) \/ Arm(s) \/ Fire(s) \/ Skip(s) \/ Finish(s)
  /\ Cardinality(inFire') <= 1

SlotsNext == TimePasses \/ Crash \/ Evaluate

SlotsSpec == SlotsInit /\ [][SlotsNext]_slotVars
=============================================================================
