----------------------------- MODULE Dispatcher -----------------------------
(***************************************************************************)
(* The chat gateway's dispatcher (apps/gateway runtime/dispatcher.ts) with *)
(* the parts of router.ts, chat-render.ts and the host it relies on.       *)
(*                                                                         *)
(* A conversation has one turn at a time.  A plain message claims it,      *)
(* attachments are fetched, the message is sent to the session the route   *)
(* names or to a new one, and the turn is registered.  Events of the       *)
(* turn's runs arrive synchronously.  The last ones start a flush of the   *)
(* answer, and what follows the flush takes the turn down.                 *)
(*                                                                         *)
(* A message is its own turn's run, and the session it may open.  Messages *)
(* the dispatcher answers with a hint, and taps and commands of people     *)
(* without permission, change nothing and are left out.                    *)
(***************************************************************************)
EXTENDS FiniteSets, Sequences, SequencesExt

CONSTANTS
  Convs,      \* conversations
  Messages,   \* plain messages
  ConvOf,     \* the conversation of a message
  Subs,       \* sub-agent runs
  ParentOf,   \* the turn that spawns a sub-agent
  Asks,       \* prompts the turns raise
  AskedBy,    \* the run that raises a prompt
  Kind,       \* approval, choice (one of a list), question (free), plan
  ByPolicy,   \* approvals the channel's policy answers by itself
  NoRun, NoAsk, NoConv

Runs == Messages \cup Subs
TurnOf(r) == IF r \in Subs THEN ParentOf[r] ELSE r
ConvOfAsk(p) == ConvOf[TurnOf(AskedBy[p])]
OfConv(c) == {m \in Messages : ConvOf[m] = c}

ASSUME DispatcherAssumption ==
  /\ IsFiniteSet(Messages) /\ ConvOf \in [Messages -> Convs]
  /\ Subs \cap Messages = {} /\ ParentOf \in [Subs -> Messages]
  /\ AskedBy \in [Asks -> Runs]
  /\ Kind \in [Asks -> {"approval", "choice", "question", "plan"}]
  /\ ByPolicy \subseteq {p \in Asks : Kind[p] = "approval"}
  /\ NoRun \notin Runs /\ NoAsk \notin Asks /\ NoConv \notin Convs

VARIABLES
  buttons,    \* conversations whose channel has tappable prompts; never changes
  stage,      \* of a message, and of the turn it became at the host
  session,    \* the session a message goes to; NoRun: a new one
  aborted,    \* turns aborted while they drove
  spawned,    \* sub-agent runs that have started
  raised,     \* prompts raised so far
  pending,    \* those registered at the host's controllers
  route,      \* routes.json: the session of a conversation
  orch,       \* orchRunId
  turnRuns,   \* the registered turn's run tree
  runToConv,
  tokens,     \* prompts with live buttons
  approvals,  \* pendingApprovals
  question,   \* pendingQuestion
  plan,       \* pendingPlan
  flushing    \* turns whose renderer is sending its last words

hostVars == <<buttons, stage, session, aborted, spawned, raised, pending>>
waitVars == <<tokens, approvals, question, plan>>
convVars == <<orch, turnRuns, runToConv, waitVars>>
vars == <<hostVars, route, convVars, flushing>>

Stages == {"unsent", "composing", "opening", "failed",
           "queued", "driving", "erred", "skipped", "ended"}
Preparing(c) == \E m \in OfConv(c) : stage[m] \in {"composing", "opening"}
Live(m) == stage[m] \in {"driving", "erred"}
Tree(m) == {p \in Asks : TurnOf(AskedBy[p]) = m}
HasPending(c) == approvals[c] # <<>> \/ question[c] # NoAsk \/ plan[c] # NoAsk

Init ==
  /\ buttons \in SUBSET Convs
  /\ stage = [m \in Messages |-> "unsent"]
  /\ session = [m \in Messages |-> NoRun]
  /\ aborted = {} /\ spawned = {} /\ raised = {} /\ pending = {}
  /\ route = [c \in Convs |-> NoRun]
  /\ orch = [c \in Convs |-> NoRun]
  /\ turnRuns = [c \in Convs |-> {}]
  /\ runToConv = [r \in Runs |-> NoConv]
  /\ tokens = [c \in Convs |-> {}]
  /\ approvals = [c \in Convs |-> <<>>]
  /\ question = [c \in Convs |-> NoAsk]
  /\ plan = [c \in Convs |-> NoAsk]
  /\ flushing = {}

-----------------------------------------------------------------------------
(* A turn of a conversation *)

\* What a conversation waits for is forgotten.
ClearWaits(c) ==
  /\ tokens' = [tokens EXCEPT ![c] = {}]
  /\ approvals' = [approvals EXCEPT ![c] = <<>>]
  /\ question' = [question EXCEPT ![c] = NoAsk]
  /\ plan' = [plan EXCEPT ![c] = NoAsk]

BeginTurn(c, m) ==
  /\ orch' = [orch EXCEPT ![c] = m]
  /\ turnRuns' = [turnRuns EXCEPT ![c] = {m}]
  /\ runToConv' = [runToConv EXCEPT ![m] = c]
  /\ ClearWaits(c)

\* A bug to tell apart: the approvals typed commands answer are kept.
EndTurnKeepsApprovals(c) ==
  /\ orch' = [orch EXCEPT ![c] = NoRun]
  /\ turnRuns' = [turnRuns EXCEPT ![c] = {}]
  /\ runToConv' = [r \in Runs |-> IF r \in turnRuns[c] THEN NoConv ELSE runToConv[r]]
  /\ tokens' = [tokens EXCEPT ![c] = {}]
  /\ question' = [question EXCEPT ![c] = NoAsk]
  /\ plan' = [plan EXCEPT ![c] = NoAsk]
  /\ UNCHANGED approvals

EndTurn(c) ==
  /\ orch' = [orch EXCEPT ![c] = NoRun]
  /\ turnRuns' = [turnRuns EXCEPT ![c] = {}]
  /\ runToConv' = [r \in Runs |-> IF r \in turnRuns[c] THEN NoConv ELSE runToConv[r]]
  /\ ClearWaits(c)

-----------------------------------------------------------------------------
(* Plain messages *)

\* The guards of handleInbound, then the claim, before anything is awaited.
Accept(m) ==
  LET c == ConvOf[m] IN
  /\ stage[m] = "unsent"
  /\ ~HasPending(c) /\ orch[c] = NoRun /\ ~Preparing(c)
  /\ stage' = [stage EXCEPT ![m] = "composing"]
  /\ session' = [session EXCEPT ![m] = route[c]]
  /\ UNCHANGED <<buttons, aborted, spawned, raised, pending, route, convVars, flushing>>

\* Attachments are in.  The session read before the await is kept unless its
\* route has gone stale; otherwise a new one is started.
Composed(m) ==
  /\ stage[m] = "composing"
  /\ stage' = [stage EXCEPT ![m] = "opening"]
  /\ \/ UNCHANGED session
     \/ session' = [session EXCEPT ![m] = NoRun]
  /\ UNCHANGED <<buttons, aborted, spawned, raised, pending, route, convVars, flushing>>

\* The host has the message and a run id: a new session is bound, the turn begins.
Sent(m) ==
  LET c == ConvOf[m] IN
  /\ stage[m] = "opening"
  /\ stage' = [stage EXCEPT ![m] = "queued"]
  /\ IF session[m] = NoRun
     THEN /\ session' = [session EXCEPT ![m] = m]
          /\ route' = [route EXCEPT ![c] = m]
     ELSE UNCHANGED <<buttons, session, route>>
  /\ BeginTurn(c, m)
  /\ UNCHANGED <<buttons, aborted, spawned, raised, pending, flushing>>

\* A download or the host throws: the finally block gives the claim back.
PrepareFails(m) ==
  /\ stage[m] \in {"composing", "opening"}
  /\ stage' = [stage EXCEPT ![m] = "failed"]
  /\ UNCHANGED <<buttons, session, aborted, spawned, raised, pending, route, convVars, flushing>>

-----------------------------------------------------------------------------
(* Commands and answers *)

\* Session.abort: a queued turn will be skipped without a word, a driving one
\* has its prompts settled and will end.
HostAbort(m) ==
  /\ stage' = [stage EXCEPT ![m] = IF @ = "queued" THEN "skipped" ELSE @]
  /\ aborted' = IF Live(m) THEN aborted \cup {m} ELSE aborted
  /\ pending' = IF Live(m) THEN pending \ Tree(m) ELSE pending
  /\ UNCHANGED <<buttons, session, spawned, raised>>

\* /new, /reset.
New(c) ==
  /\ IF orch[c] # NoRun THEN HostAbort(orch[c]) ELSE UNCHANGED hostVars
  /\ route' = [route EXCEPT ![c] = NoRun]
  /\ EndTurn(c)
  /\ UNCHANGED flushing

\* /stop.
Stop(c) ==
  /\ orch[c] # NoRun
  /\ HostAbort(orch[c])
  /\ UNCHANGED <<route, convVars, flushing>>

\* The host settles a prompt it still has.
Resolve(p) ==
  /\ pending' = pending \ {p}
  /\ UNCHANGED <<buttons, stage, session, aborted, spawned, raised, route, orch, turnRuns, runToConv, flushing>>

\* A number typed while a question is up answers it, and retires every button.
TypeAnswer(c) ==
  /\ question[c] # NoAsk
  /\ question' = [question EXCEPT ![c] = NoAsk]
  /\ tokens' = [tokens EXCEPT ![c] = {}]
  /\ Resolve(question[c])
  /\ UNCHANGED <<approvals, plan>>

\* /approve, /deny: the oldest approval, or else the plan.
TypeVerdict(c) ==
  \/ /\ approvals[c] # <<>>
     /\ approvals' = [approvals EXCEPT ![c] = Tail(@)]
     /\ Resolve(Head(approvals[c]))
     /\ UNCHANGED <<tokens, question, plan>>
  \/ /\ approvals[c] = <<>> /\ plan[c] # NoAsk
     /\ plan' = [plan EXCEPT ![c] = NoAsk]
     /\ Resolve(plan[c])
     /\ UNCHANGED <<tokens, question, approvals>>

\* A bug to tell apart: a tap retires every card, as a typed answer does.
TapRetiresAll(c, p) ==
  /\ p \in tokens[c]
  /\ tokens' = [tokens EXCEPT ![c] = {}]
  /\ question' = IF Kind[p] = "choice" THEN [question EXCEPT ![c] = NoAsk] ELSE question
  /\ plan' = IF Kind[p] = "plan" THEN [plan EXCEPT ![c] = NoAsk] ELSE plan
  /\ Resolve(p)
  /\ UNCHANGED approvals

\* The card's tokens are claimed before the host is told.  A card tapped
\* before its message id is known loses one token only; the host ignores the others.
Tap(c, p) ==
  /\ p \in tokens[c]
  /\ tokens' = [tokens EXCEPT ![c] = @ \ {p}]
  /\ question' = IF Kind[p] = "choice" THEN [question EXCEPT ![c] = NoAsk] ELSE question
  /\ plan' = IF Kind[p] = "plan" THEN [plan EXCEPT ![c] = NoAsk] ELSE plan
  /\ Resolve(p)
  /\ UNCHANGED approvals

-----------------------------------------------------------------------------
(* The host's side, and the events it sends *)

\* The turns of one session run one after the other; others may be ahead.
Drives(m) ==
  /\ stage[m] = "queued"
  /\ ~\E n \in Messages : Live(n) /\ session[n] = session[m]
  /\ stage' = [stage EXCEPT ![m] = "driving"]
  /\ UNCHANGED <<buttons, session, aborted, spawned, raised, pending, route, convVars, flushing>>

\* A turn that throws before its stream is opened ends without an event.
EndsUnheard(m) ==
  /\ stage[m] = "driving" /\ m \notin aborted
  /\ raised \cap Tree(m) = {} /\ ~\E d \in spawned : ParentOf[d] = m
  /\ stage' = [stage EXCEPT ![m] = "skipped"]
  /\ UNCHANGED <<buttons, session, aborted, spawned, raised, pending, route, convVars, flushing>>

\* sub-agent-start: the child joins its parent's turn, if that is registered.
Spawn(d) ==
  LET m == ParentOf[d] IN
  /\ d \notin spawned /\ stage[m] = "driving" /\ m \notin aborted
  /\ spawned' = spawned \cup {d}
  /\ IF runToConv[m] # NoConv
     THEN /\ turnRuns' = [turnRuns EXCEPT ![runToConv[m]] = @ \cup {d}]
          /\ runToConv' = [runToConv EXCEPT ![d] = runToConv[m]]
     ELSE UNCHANGED <<turnRuns, runToConv>>
  /\ UNCHANGED <<buttons, stage, session, aborted, raised, pending, route, orch, waitVars, flushing>>

\* handleApproval, handleQuestion, handlePlan for a run of the registered turn.
Shows(c, p) ==
  /\ tokens' = IF c \in buttons /\ Kind[p] # "question"
               THEN [tokens EXCEPT ![c] = @ \cup {p}] ELSE tokens
  /\ approvals' = IF c \notin buttons /\ Kind[p] = "approval" /\ p \notin ByPolicy
                  THEN [approvals EXCEPT ![c] = Append(@, p)] ELSE approvals
  /\ question' = IF Kind[p] \in {"choice", "question"}
                 THEN [question EXCEPT ![c] = p] ELSE question
  /\ plan' = IF Kind[p] = "plan" THEN [plan EXCEPT ![c] = p] ELSE plan

\* The event reaches the dispatcher before the controller registers the prompt:
\* what the channel's policy answers there and then finds no entry.
Raise(p) ==
  LET r == AskedBy[p]
      m == TurnOf(r)
      c == runToConv[r] IN
  /\ stage[m] = "driving" /\ m \notin aborted /\ r \in spawned \cup Messages
  /\ p \notin raised
  /\ raised' = raised \cup {p} /\ pending' = pending \cup {p}
  /\ IF c # NoConv THEN Shows(c, p) ELSE UNCHANGED waitVars
  /\ UNCHANGED <<buttons, stage, session, aborted, spawned, route, orch, turnRuns, runToConv, flushing>>

\* renderer.fail or finish: the first call starts the flush, and the turn is taken
\* down after it.  A second call returns at once and takes the turn down now.
LastWords(m, calls) ==
  LET c == ConvOf[m]
      heard == orch[c] = m
      again == m \in flushing \/ calls = 2 IN
  /\ flushing' = IF heard THEN flushing \cup {m} ELSE flushing
  /\ IF heard /\ again THEN EndTurn(c) ELSE UNCHANGED convVars

\* An error part of the stream.
Errs(m) ==
  /\ stage[m] = "driving"
  /\ stage' = [stage EXCEPT ![m] = "erred"]
  /\ LastWords(m, 1)
  /\ UNCHANGED <<buttons, session, aborted, spawned, raised, pending, route>>

\* run-finish; a stream that threw says error just before it.
Finishes(m) ==
  /\ Live(m) /\ pending \cap Tree(m) = {}
  /\ stage' = [stage EXCEPT ![m] = "ended"]
  /\ \/ LastWords(m, 1)
     \/ stage[m] = "driving" /\ LastWords(m, 2)
  /\ UNCHANGED <<buttons, session, aborted, spawned, raised, pending, route>>

\* A bug to tell apart: a failed turn is not taken down after its flush.
FlushedOnly(m) ==
  /\ m \in flushing
  /\ flushing' = flushing \ {m}
  /\ UNCHANGED <<hostVars, route, convVars>>

\* The flush is through: whatever turn the conversation has by now is taken down.
Flushed(m) ==
  /\ m \in flushing
  /\ flushing' = flushing \ {m}
  /\ EndTurn(ConvOf[m])
  /\ UNCHANGED <<hostVars, route>>

Next ==
  \/ \E m \in Messages :
       \/ Accept(m) \/ Composed(m) \/ Sent(m) \/ PrepareFails(m)
       \/ Drives(m) \/ EndsUnheard(m) \/ Errs(m) \/ Finishes(m) \/ Flushed(m)
  \/ \E c \in Convs : New(c) \/ Stop(c) \/ TypeAnswer(c) \/ TypeVerdict(c)
  \/ \E c \in Convs, p \in Asks : Tap(c, p)
  \/ \E d \in Subs : Spawn(d)
  \/ \E p \in Asks : Raise(p)

\* An aborted turn ends (Session), and a channel's last send answers or fails.
Fairness ==
  \A m \in Messages :
    WF_vars(m \in aborted /\ Finishes(m)) /\ WF_vars(Flushed(m))

Spec == Init /\ [][Next]_vars /\ Fairness

-----------------------------------------------------------------------------
(* Properties *)

Answerable(c, p) ==
  p \in tokens[c] \/ Contains(approvals[c], p) \/ question[c] = p \/ plan[c] = p

\* Type correctness of the dispatcher's state.
DispatcherTypeOK ==
  /\ buttons \subseteq Convs
  /\ stage \in [Messages -> Stages] /\ session \in [Messages -> Messages \cup {NoRun}]
  /\ aborted \subseteq Messages /\ spawned \subseteq Subs /\ pending \subseteq raised /\ raised \subseteq Asks
  /\ route \in [Convs -> Messages \cup {NoRun}]
  /\ orch \in [Convs -> Messages \cup {NoRun}]
  /\ turnRuns \in [Convs -> SUBSET Runs] /\ runToConv \in [Runs -> Convs \cup {NoConv}]
  /\ tokens \in [Convs -> SUBSET Asks] /\ approvals \in [Convs -> Seq(Asks)]
  /\ question \in [Convs -> Asks \cup {NoAsk}] /\ plan \in [Convs -> Asks \cup {NoAsk}]
  /\ flushing \subseteq Messages

\* What a conversation holds belongs to the one turn it has registered, whatever
\* resets, late flushes and late sub-agents did (beginTurn, endTurn, handleEvent):
\* runToConv names exactly the runs of its turn's tree, and every button, approval,
\* question and plan in it was raised by one of them.
TurnIsWhole ==
  \A c \in Convs :
    /\ turnRuns[c] = {r \in Runs : runToConv[r] = c}
    /\ \A r \in turnRuns[c] : TurnOf(r) = orch[c]
    /\ orch[c] # NoRun => orch[c] \in turnRuns[c] /\ ConvOf[orch[c]] = c
    /\ \A p \in Asks : Answerable(c, p) => AskedBy[p] \in turnRuns[c]

\* While its turn stays registered, a prompt the host waits on loses its last
\* button or command only in a step that settles or replaces the conversation's
\* question or plan: tapping or typing a verdict leaves the other prompts alone.
PromptsStayAnswerable ==
  [][\A c \in Convs, p \in Asks :
       /\ Answerable(c, p) /\ ~Answerable(c, p)'
       /\ p \in pending' /\ orch'[c] = orch[c]
       => question'[c] # question[c] \/ plan'[c] # plan[c]]_vars

\* Stopping a turn that drives gives the conversation back: its run ends, and the
\* flush of its last words takes the registration down.
StopFrees ==
  \A m \in Messages : m \in aborted ~> orch[ConvOf[m]] # m

\* The in-flight guard is released after the flush (failTurn, finishTurn): unless
\* the user resets it, a conversation is free again only when the last words of
\* its turn are out.
FlushBeforeRelease ==
  [][\A c \in Convs :
       orch[c] # NoRun /\ orch'[c] = NoRun => orch[c] \notin flushing' \/ New(c)]_vars
=============================================================================
