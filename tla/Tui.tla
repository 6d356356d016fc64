-------------------------------- MODULE Tui --------------------------------
(***************************************************************************)
(* The terminal interface (apps/cli/src/tui-otui/session.tsx) over one     *)
(* session whose turns delegate.  It hears the host's events as they are   *)
(* emitted, renders those of the run it tracks and of the sub-agents       *)
(* spawned under it, and answers their approvals.                          *)
(*                                                                         *)
(* The user may look at another session and come back, clear the screen,   *)
(* compact, and interrupt; another session is only looked at.  Each gated  *)
(* sub-agent makes one call that needs an approval.  MaxDetours bounds the *)
(* switches, clears, compactions and stream errors of a behaviour.         *)
(***************************************************************************)
EXTENDS Delegation

CONSTANTS
  Messages,    \* the turns, in the order the user sends them
  OnScreen,    \* delegations made while the interface is attached
  Gated,       \* those of them whose sub-agent asks for an approval
  Compact,     \* a manual compaction in the turn queue
  MaxDetours,
  Orchestrator, NoAgent

ASSUME TuiAssumption == /\ Gated \subseteq OnScreen /\ OnScreen \subseteq Delegations
                        /\ MaxDetours \in Nat
                        /\ Messages \in Seq(Turns)
                        /\ Compact \notin Turns /\ Orchestrator \notin Delegations
                        /\ NoAgent \notin Delegations \cup {Orchestrator}

T == INSTANCE Trace WITH Subs <- Delegations

VARIABLES
  attached,     \* the interface runs on this host
  \* the host's side
  line,         \* the session's turn queue, the first element at work
  ask,          \* the gated call of a sub-agent: none, open, answered, over
  seen,         \* delegate calls whose tool-call part has been read
  \* the interface
  here,         \* activeId is this session
  loading,      \* calls of loadHistory for this session that await its tree
  runId,        \* the run tracked
  clock,        \* runStartAt and runEndAt: off, running or stopped
  subRuns,      \* sub-agent runs tracked
  pendingAbort, \* Ctrl-C before the run had an id
  sending,      \* messages whose sendMessage is awaited
  trace,
  \* history
  detours,
  attended      \* the turn sent from a quiet screen nobody left or cleared since

hostVars == <<line, ask, seen>>
runVars == <<runId, clock, subRuns, pendingAbort, sending>>
viewVars == <<here, loading>>
ghostVars == <<detours, attended>>
tuiVars == <<hostVars, runVars, viewVars, trace, ghostVars>>
allVars == <<vars, attached, tuiVars>>

TuiInit ==
  /\ Init /\ attached \in BOOLEAN
  /\ line = <<>> /\ seen = {}
  /\ ask = [d \in Gated |-> "none"]
  /\ here = TRUE /\ loading = 1
  /\ runId = NoTurn /\ clock = "off" /\ subRuns = {}
  /\ pendingAbort = FALSE /\ sending = {}
  /\ trace = T!Empty
  /\ detours = 0 /\ attended = NoTurn

Accepted(t) == turn[t] # "waiting" \/ \E i \in DOMAIN line : line[i] = t

\* A send the host has accepted resolves in the same turn of the event loop.
Calm == \A t \in sending : ~Accepted(t)

\* The textarea has the focus: nothing else owns the keyboard.
Focused == Calm /\ trace.pending = <<>>

Detour == detours < MaxDetours /\ detours' = detours + 1

\* endRun
Stopped == IF clock = "running" THEN "stopped" ELSE clock

\* rejectAll: every call the session suspends is settled.
Settled == [d \in Gated |-> IF ask[d] = "open" THEN "over" ELSE ask[d]]

\* Nothing of the session is at work, and the trace has no other root.
Quiet ==
  /\ line = <<>> /\ sending = {} /\ loading = 0
  /\ \A d \in Delegations : phase[d] \in {"idle", "over"}
  /\ trace.root \in {NoAgent, Orchestrator}

-----------------------------------------------------------------------------
(* What the user does *)

\* send(): refused while the clock runs.
Send(t) ==
  /\ Focused /\ here /\ clock # "running"
  /\ \E i \in DOMAIN Messages :
       /\ Messages[i] = t /\ ~Accepted(t) /\ t \notin sending
       /\ \A j \in 1..(i - 1) : Accepted(Messages[j]) \/ Messages[j] \in sending
  /\ pendingAbort' = FALSE /\ clock' = "running"
  /\ sending' = sending \cup {t}
  /\ trace' = T!UserText(trace)
  /\ attended' = IF Quiet THEN t ELSE NoTurn
  /\ UNCHANGED <<vars, hostVars, viewVars, runId, subRuns, detours>>

\* sendMessage throws before the session has the message.
SendFails(t) ==
  /\ Calm /\ t \in sending
  /\ sending' = sending \ {t}
  /\ clock' = "off" /\ runId' = NoTurn
  /\ attended' = NoTurn
  /\ UNCHANGED <<vars, hostVars, viewVars, subRuns, pendingAbort, trace, detours>>

\* Session.send: behind whatever is at work, or begun at once.
Accept(t) ==
  /\ Calm /\ t \in sending
  /\ line' = Append(line, t)
  /\ IF line = <<>> THEN BeginTurn(t) ELSE UNCHANGED vars
  /\ UNCHANGED <<ask, seen, runVars, viewVars, trace, ghostVars>>

\* abortRun: a driving turn takes the session's prompts with it, a queued one is
\* marked, and one that is over is not found.
AbortRun(t) ==
  \/ AbortTurn(t) /\ ask' = Settled
  \/ /\ turn[t] = "waiting"
     /\ aborted' = aborted \cup {t}
     /\ UNCHANGED <<turn, newest, phase, semVars, timer, late, outVars, ask>>

\* The continuation of send(): the run has an id, and an abort meant for it.
Resolve(t) ==
  /\ t \in sending /\ Accepted(t)
  /\ sending' = sending \ {t}
  /\ subRuns' = {} /\ runId' = t
  /\ IF pendingAbort THEN AbortRun(t) ELSE UNCHANGED <<vars, ask>>
  /\ pendingAbort' = FALSE
  /\ UNCHANGED <<line, seen, viewVars, clock, trace, ghostVars>>

\* A bug to tell apart: Ctrl-C gives the run up instead of awaiting its end.
CtrlCForgets ==
  /\ Calm /\ runId # NoTurn
  /\ AbortRun(runId) /\ runId' = NoTurn
  /\ UNCHANGED <<line, seen, viewVars, clock, subRuns, pendingAbort,
                 sending, trace, ghostVars>>

CtrlC ==
  /\ Calm
  /\ \/ /\ runId # NoTurn /\ AbortRun(runId)
        /\ UNCHANGED pendingAbort
     \/ /\ runId = NoTurn /\ clock = "running"
        /\ pendingAbort' = TRUE
        /\ UNCHANGED <<vars, ask>>
  /\ UNCHANGED <<line, seen, viewVars, runId, clock, subRuns, sending,
                 trace, ghostVars>>

\* A key of the approval bar: the first pending approval is decided.
Decide ==
  /\ Calm /\ trace.pending # <<>>
  /\ LET d == Head(trace.pending)
     IN /\ ask' = IF ask[d] = "open" THEN [ask EXCEPT ![d] = "answered"] ELSE ask
        /\ trace' = T!Settle(trace, d)
  /\ UNCHANGED <<vars, line, seen, runVars, viewVars, ghostVars>>

\* /clear
Clear ==
  /\ Focused /\ Detour
  /\ clock' = "off" /\ trace' = T!Empty /\ attended' = NoTurn
  /\ UNCHANGED <<vars, hostVars, viewVars, runId, subRuns, pendingAbort, sending>>

\* /compact: a task in the turn queue, which no run id stands for.
CompactNow ==
  /\ Focused /\ here /\ Detour
  /\ line' = Append(line, Compact)
  /\ UNCHANGED <<vars, ask, seen, runVars, viewVars, trace, attended>>

\* switchTo, to the other session or back, up to the await in loadHistory.  The
\* picker opens when nothing is pending, and stays open when something becomes so.
SwitchTo ==
  /\ Calm /\ Detour
  /\ here' = ~here
  /\ loading' = IF here THEN loading ELSE loading + 1
  /\ runId' = NoTurn /\ subRuns' = {} /\ clock' = "off"
  /\ attended' = NoTurn
  /\ UNCHANGED <<vars, hostVars, pendingAbort, sending, trace>>

\* The rest of loadHistory: the tree of the session replaces the trace; one that
\* arrives after a switch to the other session is dropped.
Load ==
  /\ Calm /\ loading > 0
  /\ loading' = loading - 1
  /\ IF here
     THEN /\ trace' = IF newest = NoTurn THEN T!Empty ELSE T!Loaded
          /\ attended' = NoTurn
     ELSE UNCHANGED <<trace, attended>>
  /\ UNCHANGED <<vars, hostVars, runVars, here, detours>>

LoadOther ==
  /\ Calm /\ ~here
  /\ trace' = T!Loaded
  /\ UNCHANGED <<vars, hostVars, runVars, viewVars, ghostVars>>

-----------------------------------------------------------------------------
(* The turn queue and the orchestrator's stream *)

Ready(t) == Calm /\ line # <<>> /\ Head(line) = t

Begin(t) ==
  /\ Ready(t) /\ BeginTurn(t)
  /\ UNCHANGED tuiVars

\* A turn aborted in the queue ends without an event.
Skip(t) ==
  /\ Ready(t) /\ turn[t] = "waiting" /\ t \in aborted
  /\ line' = Tail(line)
  /\ turn' = [turn EXCEPT ![t] = "over"]
  /\ UNCHANGED <<aborted, newest, phase, semVars, timer, late, outVars>>
  /\ UNCHANGED <<ask, seen, runVars, viewVars, trace, ghostVars>>

CompactEnds ==
  /\ Ready(Compact)
  /\ line' = Tail(line)
  /\ UNCHANGED <<vars, ask, seen, runVars, viewVars, trace, ghostVars>>

Call(d) ==
  /\ Calm /\ Delegate(d)
  /\ UNCHANGED tuiVars

\* The tool-call part of a delegate call is read, before or after its start.
CallSeen(d) ==
  /\ Calm /\ turn[TurnOf[d]] = "driving"
  /\ phase[d] # "idle" /\ d \notin seen
  /\ seen' = seen \cup {d}
  /\ trace' = IF runId = TurnOf[d] THEN T!DelegateCall(trace, d) ELSE trace
  /\ UNCHANGED <<vars, line, ask, runVars, viewVars, ghostVars>>

\* An error part: the clock stops, and what already runs goes on.
ErrorPart(t) ==
  /\ Calm /\ turn[t] = "driving" /\ t \notin aborted /\ runId = t
  /\ Detour
  /\ clock' = Stopped
  /\ attended' = NoTurn
  /\ UNCHANGED <<vars, hostVars, viewVars, runId, subRuns, pendingAbort,
                 sending, trace>>

\* run-finish: a stream that was not aborted has been read to its end.
Finish(t) ==
  /\ Ready(t) /\ EndTurn(t)
  /\ t \in aborted \/ \A d \in Of(t) : phase[d] # "idle" => d \in seen
  /\ line' = Tail(line)
  /\ IF runId = t THEN runId' = NoTurn /\ clock' = Stopped
                  ELSE UNCHANGED <<runId, clock>>
  /\ UNCHANGED <<ask, seen, subRuns, pendingAbort, sending, viewVars,
                 trace, ghostVars>>

-----------------------------------------------------------------------------
(* The sub-agents' events *)

\* A bug to tell apart: the run of a sub-agent is not admitted.
StartUnadmitted(d) ==
  /\ Calm /\ (Start(d) \/ StartFails(d))
  /\ trace' = IF runId = TurnOf[d] THEN T!SubStart(trace, d) ELSE trace
  /\ UNCHANGED <<hostVars, runVars, viewVars, ghostVars>>

\* sub-agent-start: a run spawned under the tracked one is tracked too.
Started(d) ==
  /\ Calm /\ (Start(d) \/ StartFails(d))
  /\ IF runId = TurnOf[d]
     THEN subRuns' = subRuns \cup {d} /\ trace' = T!SubStart(trace, d)
     ELSE UNCHANGED <<subRuns, trace>>
  /\ UNCHANGED <<hostVars, runId, clock, pendingAbort, sending, viewVars, ghostVars>>

Heard(d, next) == trace' = IF d \in subRuns THEN next ELSE trace

\* Text or a tool-call of a sub-agent.
Speaks(d) ==
  /\ Calm /\ phase[d] = "streaming"
  /\ Heard(d, T!SubText(trace, d))
  /\ UNCHANGED <<vars, hostVars, runVars, viewVars, ghostVars>>

\* The gated call suspends.
Asks(d) ==
  /\ Calm /\ d \in Gated /\ phase[d] = "streaming" /\ ask[d] = "none"
  /\ ~Aborted(d) /\ ~TimedOut(d)
  /\ ask' = [ask EXCEPT ![d] = "open"]
  /\ Heard(d, T!ApprovalRequired(trace, d))
  /\ UNCHANGED <<vars, line, seen, runVars, viewVars, ghostVars>>

ResultSeen(d) ==
  /\ Calm /\ d \in Gated /\ phase[d] = "streaming" /\ ask[d] = "answered"
  /\ ask' = [ask EXCEPT ![d] = "over"]
  /\ Heard(d, T!Settle(trace, d))
  /\ UNCHANGED <<vars, line, seen, runVars, viewVars, ghostVars>>

\* The timer's signal settles the suspended call.
TimerFires(d) ==
  /\ Calm /\ Timeout(d)
  /\ ask' = IF d \in Gated /\ ask[d] = "open" THEN [ask EXCEPT ![d] = "over"] ELSE ask
  /\ UNCHANGED <<line, seen, runVars, viewVars, trace, ghostVars>>

\* A stream ends by itself only when no call of it is suspended or running.  How
\* it ended is not on the screen: here it has a text, or hears its abort or timer.
Ends(d) ==
  /\ Calm
  /\ \/ Stops(d)
     \/ /\ d \in Gated => ask[d] \notin {"open", "answered"}
        /\ Completes(d) /\ phase'[d] = "over"
  /\ UNCHANGED tuiVars

Screen ==
  \/ \E t \in Turns : Send(t) \/ SendFails(t) \/ Accept(t) \/ Resolve(t)
                      \/ Begin(t) \/ Skip(t) \/ ErrorPart(t) \/ Finish(t)
  \/ CtrlC \/ Clear \/ CompactNow \/ Decide
  \/ SwitchTo \/ Load \/ LoadOther \/ CompactEnds
  \/ \E d \in Delegations :
       \/ (d \in OnScreen /\ Call(d)) \/ CallSeen(d) \/ Started(d) \/ Speaks(d) \/ Asks(d)
       \/ ResultSeen(d) \/ TimerFires(d) \/ Ends(d)

\* Other fronts drive the session as Delegation says.
TuiNext ==
  /\ UNCHANGED attached
  /\ \/ attached /\ Screen
     \/ ~attached /\ Next /\ UNCHANGED tuiVars

\* What Delegation owes, and the end of an aborted turn's stream.
TuiFairness ==
  /\ \A d \in Delegations :
       /\ WF_allVars(Started(d) /\ UNCHANGED attached)
       /\ WF_allVars(TimerFires(d) /\ UNCHANGED attached)
       /\ WF_allVars(Calm /\ Stops(d) /\ UNCHANGED tuiVars /\ UNCHANGED attached)
       /\ WF_allVars(Calm /\ JudgeEnds(d) /\ UNCHANGED tuiVars /\ UNCHANGED attached)
  /\ \A t \in Turns :
       /\ WF_allVars(t \in aborted /\ Finish(t) /\ UNCHANGED attached)
       /\ WF_allVars(Resolve(t) /\ UNCHANGED attached)

TuiSpec == TuiInit /\ [][TuiNext]_allVars /\ TuiFairness

-----------------------------------------------------------------------------
(* Properties *)

\* The node of a sub-agent never hangs in two places, and on a screen nobody left
\* or cleared it hangs in exactly one: under the call that spawned it as soon as
\* that call is known, whichever came first, under a root that is the
\* orchestrator (trace.ts: "re-homes parallel sub-agents under their own delegate
\* tool whatever the event order").
NodesHangOnce ==
  \A d \in trace.agents \ {Orchestrator} :
    LET places == T!Places(trace, d)
    IN /\ Cardinality(places) <= 1
       /\ d \in Of(attended) =>
            /\ trace.root = Orchestrator
            /\ places = {IF d \in trace.calls THEN d ELSE Orchestrator}

\* A call of the turn on screen that waits for a human is on screen, also the call
\* of a sub-agent; and nothing on screen is asked twice or after it was answered
\* (event-routing.ts:7-11: otherwise "an unanswerable approval and an effective
\* deadlock").
PromptsOnScreen ==
  LET shown == {trace.pending[i] : i \in DOMAIN trace.pending}
  IN /\ {d \in Gated \cap Of(attended) : ask[d] = "open"} \subseteq shown
     /\ \A d \in shown : ask[d] \in {"open", "over"}
     /\ Cardinality(shown) = Len(trace.pending)

\* Ctrl-C on a turn that drives gives the prompt back: its run-finish still reaches
\* the interface and stops the clock, unless another message has been sent by then
\* (session.tsx:780-782: runId "is left set here and cleared by the turn's
\* run-finish").
InterruptFrees ==
  \A t \in Turns :
    (t \in {runId, attended} /\ t \in aborted /\ turn[t] = "driving")
      ~> (clock # "running" \/ runId \notin {t, NoTurn})
=============================================================================
