------------------------------- MODULE Session -------------------------------
(***************************************************************************)
(* A session's turn queue over its log (packages/agent session.ts): sends, *)
(* reports and manual compactions queue up behind one another; each send   *)
(* has an AbortController from the moment it is accepted; the task at the  *)
(* head of the queue drives: it appends the user's entry, streams, may     *)
(* compact the context on the way, appends the reply and closes its run    *)
(* record (runs.jsonl).  Forks come from the host and do not queue.        *)
(***************************************************************************)
EXTENDS SessionLog, FiniteSets

CONSTANTS
  Turns,       \* send() tasks
  Reports,     \* report() tasks
  Compactions, \* compactManual() tasks
  RecentTail,  \* compactor.ts RECENT_TAIL
  ForkMidTask, \* whether the host forks while a task drives
  MaxUpsets,   \* bound: forks and crashes together
  MaxTasks,    \* bound: tasks accepted, a report counting for two
  NoTask

Tasks == Turns \cup Reports \cup Compactions

ASSUME SessionAssumption ==
  /\ Authors = Tasks \cup {NoTask}
  /\ NoTask \notin Tasks
  /\ Turns \cap (Reports \cup Compactions) = {} /\ Reports \cap Compactions = {}
  /\ RecentTail \in Nat \ {0}
  /\ ForkMidTask \in BOOLEAN /\ MaxUpsets \in Nat /\ MaxTasks \in Nat

VARIABLES
  queue,     \* turnQueue: the tasks not over, in order; the head one may drive
  phase,     \* phase[t]: how far task t is
  aborted,   \* tasks whose signal has fired
  controllers, \* Session.controllers
  activeRun, \* Session.activeRunId
  runs,      \* runs[t]: the status in t's last record of runs.jsonl
  prompt,    \* prompt[t]: the id of t's user entry
  context,   \* context[t]: the path t took its messages from
  forks

taskVars    == <<queue, phase, aborted, controllers, activeRun, runs,
                 prompt, context, forks>>
sessionVars == <<logVars, taskVars>>

SessionTypeOK ==
  /\ LogTypeOK
  /\ phase \in [Tasks -> {"new", "queued", "stream", "compacting", "compacted",
                           "summarise", "over", "lost"}]
  /\ aborted \subseteq Tasks /\ controllers \subseteq Tasks
  /\ activeRun \in Turns \cup {NoTask}
  /\ runs \in [Tasks -> {"none", "running", "done", "error", "aborted"}]
  /\ prompt \in [Tasks -> Ids \cup {NoId}]
  /\ forks \in 0 .. MaxUpsets

SessionInit ==
  /\ LogInit
  /\ queue = <<>> /\ phase = [t \in Tasks |-> "new"]
  /\ aborted = {} /\ controllers = {} /\ activeRun = NoTask
  /\ runs = [t \in Tasks |-> "none"]
  /\ prompt = [t \in Tasks |-> NoId]
  /\ context = [t \in Tasks |-> <<>>] /\ forks = 0

\* Mutant of Driving: enqueue starts the task without waiting for its turn.
DrivingAtOnce(t) == up /\ \E k \in DOMAIN queue : queue[k] = t

\* The promise chain: a task runs once all those before it are over.
Driving(t) == up /\ queue # <<>> /\ Head(queue) = t

Enter(t, p) == phase' = [phase EXCEPT ![t] = p]

Message(kind, t) ==
  [parent |-> NoId, kind |-> kind, turn |-> t, msg |-> created + 1,
   covers |-> {}, auto |-> FALSE, text |-> TRUE]

\* The reply of t, if there is one: a text, or tool calls alone.
Reply(t, parts) ==
  IF parts = "none" THEN <<>>
  ELSE <<[Message("assistant", t) EXCEPT !.text = (parts = "text")]>>

\* RunStore.start / finish: one record of runs.jsonl.
RunWrite(t, status) == <<[type |-> "run", id |-> t, status |-> status]>>

\* A summary made from the entries in S.
Summary(t, S, auto) ==
  [Message("summary", t) EXCEPT !.covers = Remembered(S), !.auto = auto]

\* The entries of a path that are in S, in order.
Among(path, S) ==
  LET upTo[n \in 0 .. Len(path)] ==
        IF n = 0 THEN <<>>
        ELSE IF path[n] \in S THEN Append(upTo[n - 1], path[n])
        ELSE upTo[n - 1]
  IN  upTo[Len(path)]

Voiced == {i \in Known : entries[i].text}

\* buildMessages: an entry without text makes no message.
Messages(path) == Among(path, Voiced)

\* Compactor.summarize over the messages of path and then steps more: all but
\* the last RECENT_TAIL of them are summarised, and always the first.
Summarised(path, steps) ==
  LET m   == Messages(path)
      n   == Len(m) + steps
      cut == IF n > RecentTail THEN n - RecentTail ELSE 1
  IN  {m[k] : k \in {j \in DOMAIN m : j <= cut}}

\* The last n elements of s.
Last(s, n) == SubSeq(s, (IF Len(s) > n THEN Len(s) - n ELSE 0) + 1, Len(s))

------------------------------------------------------------------------------
(* The host's side.                                                        *)

\* send / report / compactManual: only a send has a controller at once.
Accept(t) ==
  /\ Ready /\ phase[t] = "new"
  /\ LET begun == {u \in Tasks : phase[u] # "new"} \cup {t}
     IN  Cardinality(begun) + Cardinality(begun \cap Reports) <= MaxTasks
  /\ Enter(t, "queued")
  /\ queue' = Append(queue, t)
  /\ controllers' = IF t \in Turns THEN controllers \cup {t} ELSE controllers
  /\ UNCHANGED <<logVars, aborted, activeRun, runs, prompt, context, forks>>

Abort(t) ==
  /\ Ready /\ t \in controllers \ aborted
  /\ aborted' = aborted \cup {t}
  /\ UNCHANGED <<logVars, queue, phase, controllers, activeRun, runs,
                 prompt, context, forks>>

Fork(i) ==
  /\ forks + crashes < MaxUpsets
  /\ ForkMidTask \/ \A t \in Tasks : phase[t] \in {"new", "queued", "over", "lost"}
  /\ MoveHead(i)
  /\ forks' = forks + 1
  /\ UNCHANGED <<queue, phase, aborted, controllers, activeRun, runs,
                 prompt, context>>

------------------------------------------------------------------------------
(* The turn at the head of the queue.                                      *)

\* The task is over: its promise settles and the next one may start.
Dequeue(t) ==
  /\ queue' = Tail(queue)
  /\ Enter(t, "over")
  /\ controllers' = controllers \ {t}
  /\ activeRun' = NoTask
  /\ context' = [context EXCEPT ![t] = <<>>]

\* Aborted while it was queued: it never touches the tree.
Skip(t) ==
  /\ t \in Turns \cap aborted /\ Driving(t) /\ phase[t] = "queued" /\ Ready
  /\ Dequeue(t)
  /\ UNCHANGED <<logVars, aborted, runs, prompt, forks>>

Begin(t) ==
  /\ t \in Turns \ aborted /\ Driving(t) /\ phase[t] = "queued"
  /\ AppendAll(<<Message("user", t)>>, RunWrite(t, "running"))
  /\ prompt' = [prompt EXCEPT ![t] = created + 1]
  /\ activeRun' = t /\ Enter(t, "stream")
  /\ context' = [context EXCEPT ![t] = Append(Path(head), created + 1)]
  /\ UNCHANGED <<queue, aborted, controllers, runs, forks>>

\* A delegation of the task ends: its transcript hangs under the turn's prompt
\* (a report has none: under the head).
SubTranscript(t) ==
  /\ Driving(t) /\ phase[t] \in {"stream", "compacted"}
  /\ AppendAside([Message("sub", t) EXCEPT
                    !.parent = IF t \in Turns THEN prompt[t] ELSE head])
  /\ UNCHANGED taskVars

\* Threshold or overflow compaction awaits the summary of the messages the turn
\* began with and its own steps since.
BeginSummary(t) ==
  /\ t \in Turns /\ Driving(t) /\ phase[t] = "stream" /\ Ready
  /\ Enter(t, "compacting")
  /\ UNCHANGED <<logVars, queue, aborted, controllers, activeRun, runs,
                 prompt, context, forks>>

\* It comes: the summary entry is appended, and that is all.  The turn's own
\* steps count among the messages but are no entries yet.  The call was not given
\* the abort signal and nobody looks at it here.
EndSummary(t, steps) ==
  /\ t \in Turns /\ Driving(t) /\ phase[t] = "compacting"
  /\ AppendAll(<<Summary(t, Summarised(context[t], steps), TRUE)>>, <<>>)
  /\ Enter(t, "compacted")
  /\ UNCHANGED <<queue, aborted, controllers, activeRun, runs,
                 prompt, context, forks>>

Streams(t) == t \in Turns /\ Driving(t) /\ phase[t] \in {"stream", "compacted"}

\* The attempt is over: the reply, if there is any, then the run record and the
\* run-finish event.
Close(t, how, parts) ==
  /\ how = "aborted" => t \in aborted
  /\ how = "error" => t \notin aborted
  /\ AppendAll(Reply(t, parts), RunWrite(t, how))
  /\ Dequeue(t)
  /\ UNCHANGED <<aborted, runs, prompt, forks>>

\* Mutant of EndTurn: the stream is not given the abort signal.
EndTurnDeaf(t, how, parts) == Streams(t) /\ how # "aborted" /\ Close(t, how, parts)

\* The stream has ended.
EndTurn(t, how, parts) == Streams(t) /\ Close(t, how, parts)

\* The summary call throws, and the attempt with it.
SummaryThrows(t, how, parts) ==
  /\ t \in Turns /\ Driving(t) /\ phase[t] = "compacting" /\ how # "done"
  /\ Close(t, how, parts)

------------------------------------------------------------------------------
(* Reports and manual compactions.                                         *)

BeginReport(t) ==
  /\ t \in Reports /\ Driving(t) /\ phase[t] = "queued"
  /\ AppendAll(<<>>, RunWrite(t, "running"))
  /\ controllers' = controllers \cup {t}
  /\ Enter(t, "stream")
  /\ UNCHANGED <<queue, aborted, activeRun, runs, prompt, context, forks>>

EndReport(t, how) ==
  /\ t \in Reports /\ Driving(t) /\ phase[t] = "stream"
  /\ how \in {"done", "error"}
  /\ AppendAll(<<>>, RunWrite(t, how))
  /\ Dequeue(t)
  /\ UNCHANGED <<aborted, runs, prompt, forks>>

\* compactManual reads the path, then awaits the summary.
BeginCompact(t) ==
  /\ t \in Compactions /\ Driving(t) /\ phase[t] = "queued" /\ Ready
  /\ IF Len(Path(head)) < 2
     THEN Dequeue(t)
     ELSE /\ Enter(t, "summarise") /\ context' = [context EXCEPT ![t] = Path(head)]
          /\ UNCHANGED <<queue, controllers, activeRun>>
  /\ UNCHANGED <<logVars, aborted, runs, prompt, forks>>

\* The entries of a path that are no summaries, those without text included.
Spoken(path) == Among(path, {i \in Known : entries[i].kind # "summary"})

\* The entries a manual compaction re-anchors under its summary.
KeptTail(t) == Last(Spoken(context[t]), RecentTail)

Copies(t) == [k \in DOMAIN KeptTail(t) |-> entries[KeptTail(t)[k]]]

\* Mutant of EndCompact: the recent tail is not re-anchored.
EndCompactBare(t) ==
  /\ t \in Compactions /\ Driving(t) /\ phase[t] = "summarise"
  /\ AppendAll(<<Summary(t, Summarised(context[t], 0), FALSE)>>, <<>>)
  /\ Dequeue(t)
  /\ UNCHANGED <<aborted, runs, prompt, forks>>

\* The summary of all but the last RECENT_TAIL messages, and copies of those.
EndCompact(t) ==
  /\ t \in Compactions /\ Driving(t) /\ phase[t] = "summarise"
  /\ AppendAll(<<Summary(t, Summarised(context[t], 0), FALSE)>> \o Copies(t), <<>>)
  /\ Dequeue(t)
  /\ UNCHANGED <<aborted, runs, prompt, forks>>

\* The summary call throws: nothing is appended and the task is over.
CompactFails(t) ==
  /\ t \in Compactions /\ Driving(t) /\ phase[t] = "summarise" /\ Ready
  /\ Dequeue(t)
  /\ UNCHANGED <<logVars, aborted, runs, prompt, forks>>

------------------------------------------------------------------------------
(* Crash and restart: the queue, the controllers and the streams are gone.  *)

HostCrash ==
  /\ forks + crashes < MaxUpsets
  /\ Crash
  /\ queue' = <<>> /\ controllers' = {} /\ activeRun' = NoTask
  /\ phase' = [t \in Tasks |-> IF phase[t] \in {"new", "over"} THEN phase[t] ELSE "lost"]
  /\ context' = [t \in Tasks |-> <<>>]
  /\ UNCHANGED <<aborted, runs, prompt, forks>>

\* appendJsonl of a run record; of several records of a run the last one counts.
FlushRun ==
  /\ up /\ buffer # <<>> /\ Head(buffer).type = "run"
  /\ runs' = [runs EXCEPT ![Head(buffer).id] = Head(buffer).status]
  /\ buffer' = Tail(buffer)
  /\ UNCHANGED <<log, fragment, entries, head, created, up, crashes, queue, phase,
                 aborted, controllers, activeRun, prompt, context, forks>>

LogStep == FlushRun \/ ((Flush \/ Reopen) /\ UNCHANGED taskVars)

Steps == 0 .. RecentTail

Parts == {"none", "calls", "text"}

EndOf(t) ==
  \/ \E how \in {"done", "error", "aborted"}, parts \in Parts :
       EndTurn(t, how, parts) \/ SummaryThrows(t, how, parts)
  \/ \E how \in {"done", "error"} : EndReport(t, how)
  \/ EndCompact(t) \/ CompactFails(t)

SessionNext ==
  \/ \E t \in Tasks : Accept(t) \/ Abort(t)
  \/ \E i \in Ids : Fork(i)
  \/ \E t \in Tasks : Skip(t) \/ Begin(t) \/ BeginReport(t) \/ BeginCompact(t)
  \/ \E t \in Tasks : SubTranscript(t) \/ BeginSummary(t) \/ \E n \in Steps : EndSummary(t, n)
  \/ \E t \in Tasks : EndOf(t)
  \/ HostCrash \/ LogStep

SessionSpec == SessionInit /\ [][SessionNext]_sessionVars

(***************************************************************************)
(* A synchronous write completes, and the stream of an aborted turn ends:  *)
(* the provider's stream and every tool call of the turn are given its     *)
(* signal.  Nothing is assumed of a stream nobody aborts, nor of a summary *)
(* call: it gets no signal.                                                *)
(***************************************************************************)
SessionFairness ==
  /\ WF_sessionVars(LogStep)
  /\ \A t \in Turns : WF_sessionVars(\E parts \in Parts : EndTurn(t, "aborted", parts))

SessionFairSpec == SessionSpec /\ SessionFairness

------------------------------------------------------------------------------
(* Properties.                                                             *)

Original(i) == entries[i].msg = i

\* A turn is one unbroken path: from its reply back to its prompt there is
\* nothing of another task (session.ts: "two turns driving at once interleave
\* their appendEntry calls and scramble the session tree's parent chain").
TurnIsOnePath ==
  \A i \in Known : entries[i].kind = "assistant" /\ Original(i) =>
    LET t == entries[i].turn IN
      /\ prompt[t] \in Ancestors(i)
      /\ \A j \in Ancestors(i) : j > prompt[t] => entries[j].turn = t

\* Between tasks, everything said on the branch of the head is still known to the
\* model: on the active path word for word, or in a summary made from it
\* (session.ts, of the recent tail: "Without this, the next turn would see only
\* the summary").
NothingForgotten ==
  Ready /\ queue = <<>> => \A i \in Ancestors(head) \cap Voiced :
    entries[i].kind \in {"user", "assistant"} =>
      entries[i].msg \in Remembered(Elements(Path(head)) \cap Voiced)

\* Manual compaction keeps that promise, unless the process dies before the tail
\* is re-anchored, the host forks onto the summary itself, or an entry without text
\* is re-anchored.  The compactor counts its tail in messages and the session in
\* entries, so that a re-anchored entry without text takes the place of a message
\* that the summary has left to the tail: that one is forgotten, although the code
\* calls the tail what "the summary did NOT fold in" (session.ts:481).
ManualForgetsNothing ==
  /\ crashes = 0 /\ forks = 0
  /\ \A i \in Known : ~entries[i].auto /\ (entries[i].text \/ Original(i))
  => NothingForgotten

\* Aborting the turn that drives ends it, provided every summary call returns or
\* throws: such a call hears of no abort (compactor.ts:47).
AbortEnds ==
  \A t \in Turns :
    []<>(phase[t] # "compacting") => ((t \in aborted /\ activeRun = t) ~> t \notin controllers)
==============================================================================
