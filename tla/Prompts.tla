------------------------------- MODULE Prompts -------------------------------
(***************************************************************************)
(* How a session suspends a run on a human and wakes it up again: the      *)
(* approval, question and plan controllers of packages/agent, the grant    *)
(* table they share, and the three ways a suspended call is settled: the   *)
(* host's decision, the abort listener of the call's own run, and the      *)
(* session-wide rejectAll/cancelAll.                                       *)
(*                                                                         *)
(* A call is one execution of a tool that asks.  It belongs to a run; the  *)
(* run is the orchestrator's turn (a root) or one of its sub-agents, whose *)
(* abort signal also fires with its parent's.  A call is correlated by a   *)
(* key (toolCallId / questionId / planId), not by its identity: two calls  *)
(* may carry the same key (the sandbox-extension gate derives it from the  *)
(* denied path).                                                           *)
(***************************************************************************)
EXTENDS FiniteSets

CONSTANTS
  Roots,    \* orchestrator runs (one per user turn or report)
  Reports,  \* the roots that are structured-output reports
  Subs,     \* sub-agent runs
  Parent,   \* Parent[s]: the root that spawned sub-agent run s
  Calls,    \* tool calls that may ask a human
  RunOf,    \* RunOf[c]: the run call c belongs to
  Kind,     \* Kind[c]: which controller c goes through
  Keys,     \* correlation ids
  KeyOf,    \* KeyOf[c]: the id c registers its pending entry under
  Scopes,   \* <tool, grantKey> pairs
  ScopeOf,  \* ScopeOf[c]: what an approval of c would grant
  AgentScoped,  \* calls whose SESSION grant stays with the issuing agent
  PlanScopes,   \* PlanScopes[c]: the allowedActions plan call c declares
  PreScopes,  \* scopes a schedule's author may grant in advance
  Inherit,  \* sub-agent runs spawned with inheritScopedGrants
  Eager,    \* calls whose prompt the host answers inside its event listener
  Orch,     \* the orchestrator's agent id
  NoRun, NoCall

Runs   == Roots \cup Subs
Agents == Subs \cup {Orch}
Kinds  == {"approval", "question", "plan"}

ASSUME PromptsAssumption ==
  /\ Parent \in [Subs -> Roots]
  /\ RunOf \in [Calls -> Runs]
  /\ Kind \in [Calls -> Kinds]
  /\ KeyOf \in [Calls -> Keys]
  /\ \A c, d \in Calls : KeyOf[c] = KeyOf[d] => Kind[c] = Kind[d]
  /\ ScopeOf \in [Calls -> Scopes]
  /\ PlanScopes \in [Calls -> SUBSET Scopes]
  /\ PreScopes \subseteq Scopes
  /\ AgentScoped \subseteq Calls
  /\ Eager \subseteq Calls
  /\ Inherit \subseteq Subs
  /\ Reports \subseteq Roots
  /\ Roots \cap Subs = {}
  /\ NoRun \notin Runs
  /\ NoCall \notin Calls
  /\ Orch \notin Subs

(***************************************************************************)
(* The decisions the host can deliver, with "reject" for every negative    *)
(* one (REJECT, a dismissed question, a plan that is kept or rejected).    *)
(***************************************************************************)
Decisions(c) ==
  CASE Kind[c] = "approval" -> {"once", "session", "reject"}
    [] Kind[c] = "question" -> {"answer", "reject"}
    [] OTHER -> {"approve", "reject"}
AllDecisions == {"once", "session", "answer", "approve", "reject"}

AgentOf(c) == IF RunOf[c] \in Roots THEN Orch ELSE RunOf[c]
RootOf(r)  == IF r \in Subs THEN Parent[r] ELSE r
TreeOf(r)  == {q \in Runs : RootOf(q) = r}

Grant == [scope : Scopes, agent : Agents, scoped : BOOLEAN, from : Agents \cup {NoRun}]

VARIABLES
  grants,     \* GrantTable.grants
  pending,    \* pending[k]: the call whose entry sits under key k
  listening,  \* calls whose abort listener is attached
  call,       \* call[c]: where the call stands
  decision,   \* decision[c]: what its wait resolved with
  prompt,     \* prompt[c]: whether the host was asked / has answered
  aborted,    \* runs whose abort signal has fired
  driving,    \* the root at the head of the turn queue
  ended,      \* roots that are over
  spawned,    \* sub-agent runs that have started
  authority   \* what humans granted: SESSION answers and approved plans

vars == <<grants, pending, listening, call, decision, prompt, aborted, driving,
          ended, spawned, authority>>
runVars == <<aborted, driving, ended, spawned>>

TypeOK ==
  /\ grants \subseteq Grant
  /\ pending \in [Keys -> Calls \cup {NoCall}]
  /\ listening \subseteq Calls
  /\ call \in [Calls -> {"new", "waiting", "settled", "allowed", "refused"}]
  /\ decision \in [Calls -> AllDecisions \cup {"none", "granted"}]
  /\ prompt \in [Calls -> {"none", "asked", "answered"}]
  /\ aborted \subseteq Runs
  /\ driving \in Roots \cup {NoRun}
  /\ ended \subseteq Roots
  /\ spawned \subseteq Subs
  /\ authority \subseteq Grant

Init ==
  /\ grants = {} /\ authority = {}
  /\ pending = [k \in Keys |-> NoCall]
  /\ listening = {}
  /\ call = [c \in Calls |-> "new"]
  /\ decision = [c \in Calls |-> "none"]
  /\ prompt = [c \in Calls |-> "none"]
  /\ aborted = {} /\ driving = NoRun /\ ended = {} /\ spawned = {}

------------------------------------------------------------------------------
(* The grant table (approval/grants.ts).                                   *)

\* Mutant of Covers: agentScoped is not looked at.
CoversAnyAgent(g, scope, agent) == g.scope = scope

Covers(g, scope, agent) == g.scope = scope /\ (g.scoped => g.agent = agent)
Matched(G, scope, agent) == \E g \in G : Covers(g, scope, agent)

\* GrantTable.add: a grant the table already covers is not recorded.
AddAll(G, new) == G \cup {g \in new : ~Matched(G, g.scope, g.agent)}

\* The parent's own agent-scoped grants, copied to the child.
DelegateScoped(G, from, to) ==
  G \cup {[scope |-> g.scope, agent |-> to, scoped |-> TRUE, from |-> from] :
            g \in {h \in G : /\ h.scoped /\ h.agent = from
                             /\ ~Matched(G, h.scope, to)}}

Granted(c) == Matched(grants, ScopeOf[c], AgentOf(c))

------------------------------------------------------------------------------
(* The runs the prompts belong to.                                         *)

\* A turn aborted while it was queued never drives.
StartTurn(r) ==
  /\ driving = NoRun /\ r \notin ended \cup aborted
  /\ driving' = r
  /\ UNCHANGED <<grants, pending, listening, call, decision, prompt, aborted,
                 ended, spawned, authority>>

\* A sub-agent starts; with inheritScopedGrants the parent's grants follow.
Spawn(s) ==
  /\ driving = Parent[s] /\ s \notin spawned
  /\ spawned' = spawned \cup {s}
  /\ grants' = IF s \in Inherit THEN DelegateScoped(grants, Orch, s) ELSE grants
  /\ UNCHANGED <<pending, listening, call, decision, prompt, aborted, driving,
                 ended, authority>>

\* The turn's stream ends only once every tool call it executes has returned.
EndTurn ==
  /\ driving # NoRun
  /\ \A c \in Calls : RootOf(RunOf[c]) = driving => call[c] \notin {"waiting", "settled"}
  /\ driving' = NoRun
  /\ ended' = ended \cup {driving}
  /\ UNCHANGED <<grants, pending, listening, call, decision, prompt, aborted,
                 spawned, authority>>

------------------------------------------------------------------------------
(* Asking: ApprovalController.gate, QuestionController.ask and             *)
(* PlanController.propose up to their await.                               *)

Running(r) == RootOf(r) = driving /\ (r \in Subs => r \in spawned)

\* gate(): an existing grant answers for the user, before anything else.
AutoAllow(c) ==
  /\ Kind[c] = "approval" /\ Granted(c)
  /\ call' = [call EXCEPT ![c] = "allowed"]
  /\ decision' = [decision EXCEPT ![c] = "granted"]
  /\ UNCHANGED <<grants, pending, listening, prompt, authority>>

\* Already aborted: settle without prompting.
RefuseAborted(c) ==
  /\ Kind[c] = "approval" => ~Granted(c)
  /\ RunOf[c] \in aborted
  /\ call' = [call EXCEPT ![c] = "refused"]
  /\ decision' = [decision EXCEPT ![c] = "reject"]
  /\ UNCHANGED <<grants, pending, listening, prompt, authority>>

\* Mutant of Suspend: a wait that does not listen to its run's abort signal.
SuspendDeaf(c) ==
  /\ Kind[c] = "approval" => ~Granted(c)
  /\ RunOf[c] \notin aborted
  /\ call' = [call EXCEPT ![c] = "waiting"]
  /\ pending' = [pending EXCEPT ![KeyOf[c]] = c]
  /\ prompt' = [prompt EXCEPT ![c] = "asked"]
  /\ UNCHANGED <<grants, listening, decision, authority>>

\* Mutant of Suspend: one pending slot per session instead of a map.
SuspendOneSlot(c) ==
  /\ Kind[c] = "approval" => ~Granted(c)
  /\ RunOf[c] \notin aborted
  /\ call' = [call EXCEPT ![c] = "waiting"]
  /\ listening' = listening \cup {c}
  /\ pending' = [k \in Keys |-> IF k = KeyOf[c] THEN c ELSE NoCall]
  /\ prompt' = [prompt EXCEPT ![c] = "asked"]
  /\ UNCHANGED <<grants, decision, authority>>

\* Emit the event, then register the pending entry and the abort listener.  A
\* host that answers inside its event listener runs before the registration:
\* its answer reaches whatever entry the key names at that moment.
Suspend(c) ==
  /\ Kind[c] = "approval" => ~Granted(c)
  /\ RunOf[c] \notin aborted
  /\ \E d \in Decisions(c) :
       LET early == IF c \in Eager THEN pending[KeyOf[c]] ELSE NoCall IN
       /\ c \notin Eager => d = "reject"    \* d is irrelevant then
       /\ call' = [x \in Calls |-> IF x = c THEN "waiting"
                                   ELSE IF x = early THEN "settled" ELSE call[x]]
       /\ decision' = [x \in Calls |-> IF x = early THEN d ELSE decision[x]]
       /\ listening' = (listening \ {early}) \cup {c}
  /\ pending' = [pending EXCEPT ![KeyOf[c]] = c]
  /\ prompt' = [prompt EXCEPT ![c] = IF c \in Eager THEN "answered" ELSE "asked"]
  /\ UNCHANGED <<grants, authority>>

Gate(c) ==
  /\ call[c] = "new" /\ Running(RunOf[c])
  /\ AutoAllow(c) \/ RefuseAborted(c) \/ Suspend(c)
  /\ UNCHANGED runVars

------------------------------------------------------------------------------
(* Settling.                                                               *)

\* Mutant of Answer: the entry is resolved but stays in the map.
AnswerKeepsEntry(c, d) ==
  /\ prompt[c] # "none" /\ pending[KeyOf[c]] # NoCall
  /\ prompt' = [prompt EXCEPT ![c] = "answered"]
  /\ listening' = listening \ {pending[KeyOf[c]]}
  /\ call' = [call EXCEPT ![pending[KeyOf[c]]] = "settled"]
  /\ decision' = [decision EXCEPT ![pending[KeyOf[c]]] = d]
  /\ UNCHANGED <<pending, grants, authority, runVars>>

\* Host -> module: resolve(key, d).  Without a pending entry it returns false
\* and changes nothing, so a late or repeated answer is harmless.
Answer(c, d) ==
  /\ prompt[c] # "none"
  /\ prompt' = [prompt EXCEPT ![c] = "answered"]
  /\ LET p == pending[KeyOf[c]] IN
       IF p = NoCall
       THEN UNCHANGED <<pending, listening, call, decision>>
       ELSE /\ pending' = [pending EXCEPT ![KeyOf[c]] = NoCall]
            /\ listening' = listening \ {p}
            /\ call' = [call EXCEPT ![p] = "settled"]
            /\ decision' = [decision EXCEPT ![p] = d]
  /\ UNCHANGED <<grants, authority, runVars>>

\* The calls whose abort listener wins when the signals of runs S fire: for each
\* pending key the first listener deletes the entry and settles its own call;
\* a later listener on the same key finds nothing left to delete.
Winners(S) ==
  LET firing == {c \in listening : RunOf[c] \in S /\ pending[KeyOf[c]] # NoCall}
  IN  {W \in SUBSET firing :
         /\ \A c \in firing : \E w \in W : KeyOf[w] = KeyOf[c]
         /\ \A v, w \in W : KeyOf[v] = KeyOf[w] => v = w}

\* Fire the signals of S; with all, then rejectAll / cancelAll the session.
FireSignals(S, all) ==
  \E W \in Winners(S) :
    LET cleared == {KeyOf[w] : w \in W}
        left    == {pending[k] : k \in Keys \ cleared} \ {NoCall}
        over    == W \cup (IF all THEN left ELSE {})
    IN  /\ pending' = [k \in Keys |-> IF all \/ k \in cleared THEN NoCall ELSE pending[k]]
        /\ listening' = {c \in listening \ over : RunOf[c] \notin S}
        /\ call' = [c \in Calls |-> IF c \in over THEN "settled" ELSE call[c]]
        /\ decision' = [c \in Calls |-> IF c \in over THEN "reject" ELSE decision[c]]
        /\ aborted' = aborted \cup S

\* Session.activeRunId: a report drives without being the active run.
ActiveRun == IF driving \in Reports THEN NoRun ELSE driving

\* Mutant of Abort: every abort tears down the session-wide controllers.
AbortEverything(r) ==
  /\ r \notin aborted \cup ended
  /\ r \in Reports => r = driving
  /\ FireSignals(TreeOf(r), TRUE)
  /\ UNCHANGED <<grants, prompt, driving, ended, spawned, authority>>

\* Session.abort(r): the root's signal, which its sub-agents' signals follow.
\* Only the active run may tear down the session-wide controllers.  A turn can
\* be aborted while it is queued, a report only once it has started.
Abort(r) ==
  /\ r \notin aborted \cup ended
  /\ r \in Reports => r = driving
  /\ FireSignals(TreeOf(r), r = ActiveRun)
  /\ UNCHANGED <<grants, prompt, driving, ended, spawned, authority>>

\* The wall-clock timeout of a sub-agent aborts that sub-agent alone.
Timeout(s) ==
  /\ s \in spawned \ aborted /\ driving = Parent[s]
  /\ FireSignals({s}, FALSE)
  /\ UNCHANGED <<grants, prompt, driving, ended, spawned, authority>>

\* The grants a positive decision records: SESSION grants the call's scope, an
\* approved plan its declared actions.
NewGrants(c) ==
  CASE decision[c] = "session" ->
         {[scope |-> ScopeOf[c], agent |-> AgentOf(c),
           scoped |-> c \in AgentScoped, from |-> NoRun]}
    [] decision[c] = "approve" ->
         {[scope |-> s, agent |-> AgentOf(c), scoped |-> FALSE, from |-> NoRun] :
            s \in PlanScopes[c]}
    [] OTHER -> {}

\* approval.grant for a schedule's declared scopes: granted by the schedule's
\* author, in the orchestrator's name, before the scheduled turn is sent.
PreGrant(S) ==
  LET G == {[scope |-> s, agent |-> Orch, scoped |-> FALSE, from |-> NoRun] : s \in S}
  IN  /\ grants' = AddAll(grants, G)
      /\ authority' = authority \cup G
      /\ UNCHANGED <<pending, listening, call, decision, prompt, runVars>>

\* The awaiting call resumes with its decision.
Resume(c) ==
  /\ call[c] = "settled"
  /\ call' = [call EXCEPT ![c] = IF decision[c] = "reject" THEN "refused" ELSE "allowed"]
  /\ grants' = AddAll(grants, NewGrants(c))
  /\ authority' = authority \cup NewGrants(c)
  /\ UNCHANGED <<pending, listening, decision, prompt, runVars>>

------------------------------------------------------------------------------
Next ==
  \/ \E r \in Roots : StartTurn(r) \/ Abort(r)
  \/ \E s \in Subs : Spawn(s) \/ Timeout(s)
  \/ EndTurn
  \/ \E S \in SUBSET PreScopes : PreGrant(S)
  \/ \E c \in Calls : Gate(c) \/ Resume(c)
  \/ \E c \in Calls : \E d \in Decisions(c) : Answer(c, d)

Spec == Init /\ [][Next]_vars

(***************************************************************************)
(* The process keeps running: a started sub-agent's timer eventually fires *)
(* (setTimeout) and a settled promise eventually resumes its awaiting call *)
(* (the microtask queue).  Nothing is assumed of the host: it may never    *)
(* answer.                                                                 *)
(***************************************************************************)
Fairness ==
  /\ \A s \in Subs : WF_vars(Timeout(s))
  /\ \A c \in Calls : WF_vars(Resume(c))

FairSpec == Spec /\ Fairness

------------------------------------------------------------------------------
(* Properties.                                                             *)

\* No two calls that can wait at once share a correlation id: what the tool
\* calls' own toolCallIds guarantee, and the sandbox-extension gate's
\* `sandbox-${key}` does not.
UniqueKeys == \A c, d \in Calls : KeyOf[c] = KeyOf[d] => c = d

\* Once a run's abort signal has fired, none of its calls is left waiting for
\* a human (approval.ts: "On abort we settle as REJECT so the run unwinds").
AbortReleases ==
  \A c \in Calls : RunOf[c] \in aborted => call[c] # "waiting"

\* A call whose prompt the host has answered does not go on waiting.
AnsweredNotWaiting ==
  \A c \in Calls : prompt[c] = "answered" => call[c] # "waiting"

\* The controllers hold an entry and an abort listener for the waiting calls
\* and for no other: nothing leaks, and resolve() never reports success for a
\* call that no longer waits.
NoLeak ==
  /\ \A k \in Keys : pending[k] # NoCall => call[pending[k]] = "waiting"
  /\ listening = {c \in Calls : call[c] = "waiting"}

\* A call allowed without a prompt rests on what a human granted: a SESSION
\* answer or an approved plan for the same scope, made for everyone, for the
\* call's own agent, or for the orchestrator that delegated it at the spawn.
HumanAuthority ==
  \A c \in Calls : decision[c] = "granted" =>
    \E a \in authority :
      /\ a.scope = ScopeOf[c]
      /\ a.scoped => \/ a.agent = AgentOf(c)
                     \/ a.agent = Orch /\ AgentOf(c) \in Inherit

\* A waiting call is settled by its own prompt's answer or by the abort of its
\* own run, never by the abort of another one (session.ts: "aborting a queued
\* run would force-reject the in-flight run's prompts").
NoForeignReject ==
  [][\A c \in Calls : call[c] = "waiting" /\ call'[c] # "waiting" =>
       RunOf[c] \in aborted' \/ prompt'[c] = "answered"]_vars

\* A sub-agent suspended on a prompt nobody answers is unblocked by its
\* wall-clock timeout (approval.ts: "never block on a stuck delegation").
DelegationUnblocks ==
  \A c \in Calls : RunOf[c] \in Subs =>
    (call[c] = "waiting" ~> call[c] \in {"allowed", "refused"})
==============================================================================
