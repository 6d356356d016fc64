----------------------------- MODULE Delegation -----------------------------
(***************************************************************************)
(* Sub-agent delegation (runtime/sub-agent.ts) over the semaphore that     *)
(* bounds it (util/semaphore.ts).  The turns of a session run one after    *)
(* another and share the semaphore; a turn's model may ask for several     *)
(* delegations in one step, and they run side by side.                     *)
(*                                                                         *)
(* An acquire() that waits hears no signal: aborting the turn leaves it in *)
(* the queue, and the delegation starts when a slot is handed to it, after *)
(* its turn may be over.  The stream of a sub-agent hears its turn's abort *)
(* and, with a timeout, its own timer.  Prompts a sub-agent suspends on    *)
(* are part of its stream here; Prompts models them.                       *)
(***************************************************************************)
EXTENDS Integers, Sequences, FiniteSets

CONSTANTS
  Turns,          \* turns of the session
  Delegations,    \* calls of delegateToSubAgent
  TurnOf,         \* the turn each call belongs to
  MaxConcurrency, \* the session's maxConcurrency setting
  Timed,          \* delegations whose timeoutMs is not 0
  Unresolvable,   \* delegations whose model alias has no provider
  NoTurn

ASSUME DelegationAssumption ==
  /\ IsFiniteSet(Delegations)
  /\ TurnOf \in [Delegations -> Turns]
  /\ MaxConcurrency \in Nat \ {0}
  /\ Timed \subseteq Delegations /\ Unresolvable \subseteq Delegations
  /\ NoTurn \notin Turns

VARIABLES
  turn,        \* waiting, driving or over
  aborted,     \* turns whose abort signal has fired
  newest,      \* the turn that began last: the session's head is on its path
  phase,       \* where each execute() stands
  active,      \* Semaphore.active
  queue,       \* Semaphore.queue
  timer,       \* the timeout timer: off, armed or fired
  late,        \* delegations that started under an aborted signal
  record,      \* the run record of each delegation
  transcript   \* the turn under whose root the transcript entry hangs

semVars == <<active, queue>>
turnVars == <<turn, aborted, newest>>
outVars == <<record, transcript>>
vars == <<turnVars, phase, semVars, timer, late, outVars>>

\* Phases in which execute() holds a slot.
Holding == {"granted", "streaming", "judging"}
Phases == {"idle", "queued", "over"} \cup Holding
Records == {"none", "running", "done", "no-output", "timeout", "aborted", "error"}

Holders == {d \in Delegations : phase[d] \in Holding}
Queued == {queue[i] : i \in DOMAIN queue}
Of(t) == {d \in Delegations : TurnOf[d] = t}
Outstanding(t) == {d \in Of(t) : phase[d] \notin {"idle", "over"}}

\* The combined signal of a sub-agent.
Aborted(d) == TurnOf[d] \in aborted
TimedOut(d) == timer[d] = "fired"

Init ==
  /\ turn = [t \in Turns |-> "waiting"]
  /\ aborted = {} /\ newest = NoTurn
  /\ phase = [d \in Delegations |-> "idle"]
  /\ active = 0 /\ queue = <<>>
  /\ timer = [d \in Delegations |-> "off"] /\ late = {}
  /\ record = [d \in Delegations |-> "none"]
  /\ transcript = [d \in Delegations |-> NoTurn]

-----------------------------------------------------------------------------
(* The turns around the delegations *)

BeginTurn(t) ==
  /\ turn[t] = "waiting" /\ t \notin aborted
  /\ \A u \in Turns : turn[u] # "driving"
  /\ turn' = [turn EXCEPT ![t] = "driving"]
  /\ newest' = t
  /\ UNCHANGED <<aborted, phase, semVars, timer, late, outVars>>

AbortTurn(t) ==
  /\ turn[t] = "driving" /\ t \notin aborted
  /\ aborted' = aborted \cup {t}
  /\ UNCHANGED <<turn, newest, phase, semVars, timer, late, outVars>>

\* A step awaits its delegations; an aborted stream closes without them.
EndTurn(t) ==
  /\ turn[t] = "driving"
  /\ t \in aborted \/ Outstanding(t) = {}
  /\ turn' = [turn EXCEPT ![t] = "over"]
  /\ UNCHANGED <<aborted, newest, phase, semVars, timer, late, outVars>>

-----------------------------------------------------------------------------
(* The semaphore *)

\* acquire(): take a free slot now, or queue for a releaser to hand one over.
Delegate(d) ==
  /\ phase[d] = "idle"
  /\ turn[TurnOf[d]] = "driving" /\ ~Aborted(d)
  /\ IF active >= MaxConcurrency
     THEN /\ phase' = [phase EXCEPT ![d] = "queued"]
          /\ queue' = Append(queue, d) /\ UNCHANGED active
     ELSE /\ phase' = [phase EXCEPT ![d] = "granted"]
          /\ active' = active + 1 /\ UNCHANGED queue
  /\ UNCHANGED <<turnVars, timer, late, outVars>>

\* A bug to tell apart: the youngest waiter is served first.
ReleaseToYoungest(d) ==
  /\ timer' = [timer EXCEPT ![d] = "off"]
  /\ IF queue = <<>>
     THEN /\ phase' = [phase EXCEPT ![d] = "over"]
          /\ active' = active - 1 /\ UNCHANGED queue
     ELSE /\ phase' = [phase EXCEPT ![d] = "over", ![queue[Len(queue)]] = "granted"]
          /\ queue' = SubSeq(queue, 1, Len(queue) - 1) /\ UNCHANGED active

\* The finally block: clear the timer, then hand the slot on or count it down.
Release(d) ==
  /\ timer' = [timer EXCEPT ![d] = "off"]
  /\ IF queue = <<>>
     THEN /\ phase' = [phase EXCEPT ![d] = "over"]
          /\ active' = active - 1 /\ UNCHANGED queue
     ELSE /\ phase' = [phase EXCEPT ![d] = "over", ![Head(queue)] = "granted"]
          /\ queue' = Tail(queue) /\ UNCHANGED active

-----------------------------------------------------------------------------
(* The delegation itself *)

\* Record and timer start, the events go out, the stream is opened.
Start(d) ==
  /\ phase[d] = "granted" /\ d \notin Unresolvable
  /\ phase' = [phase EXCEPT ![d] = "streaming"]
  /\ timer' = [timer EXCEPT ![d] = IF d \in Timed THEN "armed" ELSE "off"]
  /\ late' = IF Aborted(d) THEN late \cup {d} ELSE late
  /\ record' = [record EXCEPT ![d] = "running"]
  /\ UNCHANGED <<turnVars, semVars, transcript>>

\* modelForAlias throws after the record was started: only finally runs.
StartFails(d) ==
  /\ phase[d] = "granted" /\ d \in Unresolvable
  /\ record' = [record EXCEPT ![d] = "running"]
  /\ Release(d)
  /\ UNCHANGED <<turnVars, late, transcript>>

Timeout(d) ==
  /\ timer[d] = "armed"
  /\ timer' = [timer EXCEPT ![d] = "fired"]
  /\ UNCHANGED <<turnVars, phase, semVars, late, outVars>>

\* A bug to tell apart: the transcript goes under the session's current head.
PersistAtHead(d) == transcript' = [transcript EXCEPT ![d] = newest]

\* appendEntry under the turn's root, with moveHead: false.
Persist(d) == transcript' = [transcript EXCEPT ![d] = TurnOf[d]]

\* The run record is finished; a triggered evaluation keeps the slot.
Conclude(d, status) ==
  /\ record' = [record EXCEPT ![d] = status]
  /\ Persist(d)
  /\ \/ /\ phase' = [phase EXCEPT ![d] = "judging"]
        /\ UNCHANGED <<semVars, timer>>
     \/ Release(d)

\* The stream ends with a text.  A stream opened under an aborted signal runs
\* no step and has none; one aborted after a whole step may still have it.
Completes(d) ==
  /\ phase[d] = "streaming" /\ d \notin late
  /\ Conclude(d, "done")
  /\ UNCHANGED <<turnVars, late>>

\* The stream ends without output, and nobody aborted it.
EndsSilent(d) ==
  /\ phase[d] = "streaming" /\ ~Aborted(d) /\ ~TimedOut(d)
  /\ Conclude(d, "no-output")
  /\ UNCHANGED <<turnVars, late>>

\* The stream throws after the timer fired and the turn goes on.
EndsTimedOut(d) ==
  /\ phase[d] = "streaming" /\ TimedOut(d) /\ ~Aborted(d)
  /\ record' = [record EXCEPT ![d] = "timeout"]
  /\ Persist(d)
  /\ Release(d)
  /\ UNCHANGED <<turnVars, late>>

\* A bug to tell apart: only the sub-agent's own timer reaches its stream.
EndsAbortedByTimer(d) ==
  /\ phase[d] = "streaming" /\ Aborted(d) /\ TimedOut(d)
  /\ record' = [record EXCEPT ![d] = "aborted"]
  /\ Release(d)
  /\ UNCHANGED <<turnVars, late, transcript>>

\* The stream throws after the turn was aborted, whatever the timer did.
EndsAborted(d) ==
  /\ phase[d] = "streaming" /\ Aborted(d)
  /\ record' = [record EXCEPT ![d] = "aborted"]
  /\ Release(d)
  /\ UNCHANGED <<turnVars, late, transcript>>

\* Any other error of the stream.
Fails(d) ==
  /\ phase[d] = "streaming" /\ ~Aborted(d) /\ ~TimedOut(d)
  /\ record' = [record EXCEPT ![d] = "error"]
  /\ Release(d)
  /\ UNCHANGED <<turnVars, late, transcript>>

\* The judge answers, fails, or meets its own timeout or the turn's abort.
JudgeEnds(d) ==
  /\ phase[d] = "judging"
  /\ Release(d)
  /\ UNCHANGED <<turnVars, late, outVars>>

Stops(d) == EndsTimedOut(d) \/ EndsAborted(d)

Next ==
  \/ \E t \in Turns : BeginTurn(t) \/ AbortTurn(t) \/ EndTurn(t)
  \/ \E d \in Delegations :
       \/ Delegate(d) \/ Start(d) \/ StartFails(d) \/ Timeout(d)
       \/ Completes(d) \/ EndsSilent(d) \/ Stops(d) \/ Fails(d) \/ JudgeEnds(d)

\* A continuation runs (microtask), a timer fires, a signalled stream ends, the
\* judge is capped by its own timeout.  Nothing else is owed.
Fairness ==
  \A d \in Delegations :
    /\ WF_vars(Start(d) \/ StartFails(d)) /\ WF_vars(Timeout(d))
    /\ WF_vars(Stops(d)) /\ WF_vars(JudgeEnds(d))

Spec == Init /\ [][Next]_vars /\ Fairness

-----------------------------------------------------------------------------
(* Properties *)

\* Type correctness of the delegations' state.
DelegationTypeOK ==
  /\ turn \in [Turns -> {"waiting", "driving", "over"}]
  /\ aborted \subseteq Turns /\ newest \in Turns \cup {NoTurn}
  /\ phase \in [Delegations -> Phases]
  /\ active \in Nat /\ queue \in Seq(Delegations)
  /\ timer \in [Delegations -> {"off", "armed", "fired"}]
  /\ late \subseteq Delegations
  /\ record \in [Delegations -> Records]
  /\ transcript \in [Delegations -> Turns \cup {NoTurn}]

\* The counter of the semaphore (semaphore.ts: active++, hand-off, active--)
\* counts exactly the delegations between acquire() and release(), never more
\* than the limit, and nobody queues beside a free slot, whatever ended them.
SlotsExact ==
  /\ active = Cardinality(Holders)
  /\ active <= MaxConcurrency
  /\ queue # <<>> => active = MaxConcurrency
  /\ Queued = {d \in Delegations : phase[d] = "queued"}

Pool == INSTANCE SlotPool
          WITH Clients <- Delegations, Max <- MaxConcurrency,
               holders <- Holders, line <- queue

\* Seen without its counter the semaphore is a bounded first-come pool: every
\* step of every delegation asks for, waits for or gives back one slot, or none.
ImplementsPool == Pool!PoolSpec

\* What a delegation leaves behind tells how it ended, also when its turn was
\* over by then and another one drives: a transcript under its own turn's root
\* when it ended by itself or by its timer, none when the abort of its turn or an
\* error ended it, and no abort is recorded for a turn nobody aborted.
OutcomeTold ==
  \A d \in Delegations :
    /\ transcript[d] = IF record[d] \in {"done", "no-output", "timeout"}
                       THEN TurnOf[d] ELSE NoTurn
    /\ record[d] = "aborted" => Aborted(d)
    /\ record[d] = "timeout" => d \in Timed
    /\ phase[d] = "over" /\ record[d] = "running" => d \in Unresolvable
    /\ phase[d] = "over" /\ d \in late => record[d] = "aborted"

\* Aborting a turn ends every delegation of it, the queued ones included: they
\* are handed a slot, start, and stop (specs/agent-architecture.md, 2.3 point 5).
\* One without a timeout ends all the same; a slot another turn holds comes back
\* as long as that turn's delegations have one.
AbortCascades ==
  \A t \in Turns : t \in aborted ~> Outstanding(t) = {}
=============================================================================
