------------------------------- MODULE Trace -------------------------------
(***************************************************************************)
(* The trace the terminal interface renders (apps/cli/src/core/trace.ts):  *)
(* a tree folded from the event stream, one operator per reducer case.     *)
(*                                                                         *)
(* The node of a sub-agent hangs among the orchestrator's children or in   *)
(* the ToolItem of the call that spawned it.  A sub-agent spawns none, so  *)
(* a delegate call and the node it spawns share one name here.  Rows of    *)
(* text and tools, their status, usage, to-dos and toasts are left out.    *)
(***************************************************************************)
EXTENDS Naturals, Sequences

CONSTANTS
  Orchestrator,  \* ORCHESTRATOR_AGENT_ID
  Subs,          \* delegate calls, each with the sub-agent it spawns
  NoAgent

Agents == Subs \cup {Orchestrator}

Traces ==
  [root: Agents \cup {NoAgent},  \* rootAgentId
   agents: SUBSET Agents,        \* keys of agents
   calls: SUBSET Subs,           \* delegate calls among the keys of tools
   spawned: SUBSET Subs,         \* nodes with a spawnedByToolCallId
   flat: SUBSET Subs,            \* nodes among the orchestrator's children
   under: [Subs -> SUBSET Subs], \* nodes in the ToolItem of a call
   pending: Seq(Subs)]           \* approvals, the first of them on screen

\* initialTrace(): also what @reset leaves.
Empty ==
  [root |-> NoAgent, agents |-> {}, calls |-> {}, spawned |-> {}, flat |-> {},
   under |-> [d \in Subs |-> {}], pending |-> <<>>]

\* @load of a session with a history: only the orchestrator's node is known, and
\* the calls of the history are rows that no later event reaches.
Loaded == [Empty EXCEPT !.root = Orchestrator, !.agents = {Orchestrator}]

OrRoot(tr, a) == IF tr.root = NoAgent THEN a ELSE tr.root

\* ensureAgent without a parent.
Ensure(tr, a) ==
  IF a \in tr.agents THEN tr
  ELSE [tr EXCEPT !.agents = @ \cup {a}, !.root = OrRoot(tr, a)]

\* ensureAgent with the orchestrator as parent.
EnsureChild(tr, d) ==
  IF d \in tr.agents THEN tr
  ELSE IF Orchestrator \in tr.agents
  THEN [tr EXCEPT !.agents = @ \cup {d}, !.flat = @ \cup {d}]
  ELSE [tr EXCEPT !.agents = @ \cup {d}, !.root = OrRoot(tr, d)]

\* detachItem: the first array that holds the node, agents before tools.
Detach(tr, d) ==
  IF d \in tr.flat THEN [tr EXCEPT !.flat = @ \ {d}]
  ELSE [tr EXCEPT !.under = [c \in Subs |-> @[c] \ {d}]]

\* A node moves under the call that spawned it.
Rehome(tr, d) ==
  IF d \in tr.under[d] THEN tr
  ELSE [Detach(tr, d) EXCEPT !.under[d] = @ \cup {d}]

\* @user-text
UserText(tr) == Ensure(tr, Orchestrator)

\* A text, a reasoning or a tool-call of a sub-agent.
SubText(tr, d) == Ensure(tr, d)

\* A bug to tell apart: a call that arrives late leaves its node where it is.
DelegateCallFlat(tr, d) ==
  [Ensure(tr, Orchestrator) EXCEPT !.calls = @ \cup {d}, !.under[d] = {}]

\* tool-call of delegateToSubAgent, with rehomeSubAgentsForTool.
DelegateCall(tr, d) ==
  LET item == [Ensure(tr, Orchestrator) EXCEPT
                 !.calls = @ \cup {d}, !.under[d] = {}]
  IN IF d \in tr.spawned THEN Rehome(item, d) ELSE item

\* sub-agent-start: under the call if it is known, else under the parent.
SubStart(tr, d) ==
  LET placed == IF d \notin tr.calls THEN EnsureChild(tr, d)
                ELSE IF d \in tr.agents THEN Rehome(tr, d)
                ELSE [tr EXCEPT !.agents = @ \cup {d}, !.under[d] = @ \cup {d}]
  IN [placed EXCEPT !.spawned = @ \cup {d}]

\* tool-approval-required
ApprovalRequired(tr, d) == [EnsureChild(tr, d) EXCEPT !.pending = Append(@, d)]

\* pendingApprovals.filter: the others, in their order.
Without(s, d) ==
  LET kept[n \in 0..Len(s)] == IF n = 0 THEN <<>>
                               ELSE IF s[n] = d THEN kept[n - 1]
                               ELSE Append(kept[n - 1], s[n])
  IN kept[Len(s)]

\* @approval-decision, and the tool-result of the gated call.
Settle(tr, d) == [tr EXCEPT !.pending = Without(@, d)]

Places(tr, d) == (IF d \in tr.flat THEN {Orchestrator} ELSE {})
                 \cup {c \in Subs : d \in tr.under[c]}
=============================================================================
