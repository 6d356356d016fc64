----------------------------- MODULE ToolGateProofs -----------------------------
(***************************************************************************)
(* The prompt controllers and the path of a call around them, for every    *)
(* set of runs, calls and keys.  The tool-gate path implements the         *)
(* controllers: every step of it is a step of Prompts or leaves Prompts    *)
(* alone, so what is proved of the controllers holds of a session with     *)
(* modes, classifiers and schedules.                                       *)
(*                                                                         *)
(* TypeOK and HumanAuthority hold as they stand; the other properties of   *)
(* Prompts need that no two calls share a correlation id (UniqueKeys),     *)
(* which two sandbox-extension prompts for one path do.                    *)
(***************************************************************************)
EXTENDS ToolGate, TLAPS


------------------------------------------------------------------------------
(* Lemmas about the helpers.                                               *)

\* Every run has a root, and every call an agent.
LEMMA RunFacts ==
  ASSUME NEW c \in Calls
  PROVE  RunOf[c] \in Runs /\ RootOf(RunOf[c]) \in Roots /\ AgentOf(c) \in Agents
BY PromptsAssumption DEF RootOf, AgentOf, Runs, Agents

\* A decision is never "granted", and always one of the known ones.
LEMMA DecisionFacts ==
  ASSUME NEW c \in Calls, NEW d \in Decisions(c)
  PROVE  d \in AllDecisions /\ d # "granted"
BY DEF Decisions, AllDecisions

\* The table only takes in what it is offered.
LEMMA AddAllBounds ==
  ASSUME NEW G, NEW new
  PROVE  G \subseteq AddAll(G, new) /\ AddAll(G, new) \subseteq G \cup new
BY DEF AddAll

\* A grant is a record of a scope, its holder, its reach and its origin.
LEMMA GrantType ==
  ASSUME NEW x \in Scopes, NEW a \in Agents, NEW b \in BOOLEAN,
         NEW f \in Agents \cup {NoRun}
  PROVE  [scope |-> x, agent |-> a, scoped |-> b, from |-> f] \in Grant
BY DEF Grant

\* What a decision grants is a grant.
LEMMA NewGrantsType ==
  ASSUME NEW c \in Calls
  PROVE  NewGrants(c) \subseteq Grant
<1>1. CASE decision[c] = "session"
  <2>1. NewGrants(c) = {[scope |-> ScopeOf[c], agent |-> AgentOf(c),
                         scoped |-> c \in AgentScoped, from |-> NoRun]}
    BY <1>1 DEF NewGrants
  <2>2. ScopeOf[c] \in Scopes /\ (c \in AgentScoped) \in BOOLEAN
    BY PromptsAssumption
  <2> QED BY <2>1, <2>2, RunFacts DEF Grant
<1>2. CASE decision[c] = "approve"
  <2>1. NewGrants(c) = {[scope |-> s, agent |-> AgentOf(c), scoped |-> FALSE,
                         from |-> NoRun] : s \in PlanScopes[c]}
    BY <1>2 DEF NewGrants
  <2>2. PlanScopes[c] \subseteq Scopes
    BY PromptsAssumption
  <2>3. ASSUME NEW s \in PlanScopes[c]
        PROVE  [scope |-> s, agent |-> AgentOf(c), scoped |-> FALSE, from |-> NoRun] \in Grant
    <3>1. s \in Scopes /\ AgentOf(c) \in Agents
      BY <2>2, RunFacts
    <3> QED BY <3>1, GrantType
  <2> QED BY <2>1, <2>3
<1>3. CASE decision[c] \notin {"session", "approve"}
  BY <1>3 DEF NewGrants
<1> QED BY <1>1, <1>2, <1>3

\* What is delegated is a grant.
LEMMA DelegateType ==
  ASSUME NEW s \in Subs, NEW G \in SUBSET Grant
  PROVE  DelegateScoped(G, Orch, s) \subseteq Grant
<1> DEFINE copy(g) == [scope |-> g.scope, agent |-> s, scoped |-> TRUE, from |-> Orch]
<1>1. ASSUME NEW g \in G PROVE copy(g) \in Grant
  <2>1. g.scope \in Scopes /\ s \in Agents /\ Orch \in Agents
    BY DEF Grant, Agents
  <2> QED BY <2>1, GrantType
<1>2. ASSUME NEW x \in DelegateScoped(G, Orch, s) PROVE x \in G \/ \E g \in G : x = copy(g)
  BY <1>2 DEF DelegateScoped
<1> QED BY <1>1, <1>2

------------------------------------------------------------------------------
(* Type correctness.                                                       *)

\* A session opens with every variable in its type.
LEMMA InitType == Init => TypeOK
BY DEF Init, TypeOK

\* Firing signals keeps the types: the winners are calls.
LEMMA FireSignalsType ==
  ASSUME TypeOK, NEW S \in SUBSET Runs, NEW all \in BOOLEAN, FireSignals(S, all)
  PROVE  /\ pending' \in [Keys -> Calls \cup {NoCall}]
         /\ listening' \subseteq Calls
         /\ call' \in [Calls -> {"new", "waiting", "settled", "allowed", "refused"}]
         /\ decision' \in [Calls -> AllDecisions \cup {"none", "granted"}]
         /\ aborted' \subseteq Runs
BY DEF TypeOK, FireSignals, AllDecisions

\* Asking keeps the types.
LEMMA GateType ==
  ASSUME TypeOK, NEW c \in Calls, Gate(c)
  PROVE  TypeOK'
<1>k. KeyOf[c] \in Keys
  BY PromptsAssumption
<1>1. CASE AutoAllow(c)
  BY <1>1, SMT DEF Gate, AutoAllow, TypeOK, runVars
<1>2. CASE RefuseAborted(c)
  BY <1>2, SMT DEF Gate, RefuseAborted, TypeOK, runVars, AllDecisions
<1>3. CASE Suspend(c)
  <2>1. PICK d \in Decisions(c) :
          LET early == IF c \in Eager THEN pending[KeyOf[c]] ELSE NoCall IN
          /\ call' = [x \in Calls |-> IF x = c THEN "waiting"
                                      ELSE IF x = early THEN "settled" ELSE call[x]]
          /\ decision' = [x \in Calls |-> IF x = early THEN d ELSE decision[x]]
          /\ listening' = (listening \ {early}) \cup {c}
    BY <1>3 DEF Suspend
  <2>2. d \in AllDecisions
    BY DecisionFacts
  <2>3. /\ call' \in [Calls -> {"new", "waiting", "settled", "allowed", "refused"}]
        /\ decision' \in [Calls -> AllDecisions \cup {"none", "granted"}]
        /\ listening' \subseteq Calls
    BY <2>1, <2>2 DEF TypeOK
  <2>4. /\ pending' \in [Keys -> Calls \cup {NoCall}]
        /\ prompt' \in [Calls -> {"none", "asked", "answered"}]
    BY <1>3, <1>k DEF Suspend, TypeOK
  <2> QED BY <1>3, <2>3, <2>4 DEF Gate, Suspend, TypeOK, runVars
<1> QED BY <1>1, <1>2, <1>3 DEF Gate

\* No operation of the controllers, the turns or the host leaves the types.
LEMMA NextType == TypeOK /\ [Next]_vars => TypeOK'
<1> SUFFICES ASSUME TypeOK, [Next]_vars PROVE TypeOK'
  OBVIOUS
<1>1. ASSUME NEW r \in Roots, StartTurn(r) PROVE TypeOK'
  BY <1>1 DEF StartTurn, TypeOK
<1>2. ASSUME NEW r \in Roots, Abort(r) PROVE TypeOK'
  <2>1. TreeOf(r) \in SUBSET Runs /\ (r = ActiveRun) \in BOOLEAN
    BY DEF TreeOf
  <2> QED BY <1>2, <2>1, FireSignalsType DEF Abort, TypeOK
<1>3. ASSUME NEW s \in Subs, Spawn(s) PROVE TypeOK'
  BY <1>3, DelegateType DEF Spawn, TypeOK
<1>4. ASSUME NEW s \in Subs, Timeout(s) PROVE TypeOK'
  <2>1. {s} \in SUBSET Runs
    BY DEF Runs
  <2> QED BY <1>4, <2>1, FireSignalsType DEF Timeout, TypeOK
<1>5. ASSUME EndTurn PROVE TypeOK'
  BY <1>5 DEF EndTurn, TypeOK
<1>6. ASSUME NEW S \in SUBSET PreScopes, PreGrant(S) PROVE TypeOK'
  <2> DEFINE G == {[scope |-> x, agent |-> Orch, scoped |-> FALSE, from |-> NoRun] : x \in S}
  <2>1. G \subseteq Grant
    <3>1. ASSUME NEW x \in S
          PROVE  [scope |-> x, agent |-> Orch, scoped |-> FALSE, from |-> NoRun] \in Grant
      <4>1. x \in Scopes /\ Orch \in Agents
        BY PromptsAssumption DEF Agents
      <4> QED BY <4>1, GrantType
    <3> QED BY <3>1
  <2>2. grants' = AddAll(grants, G) /\ authority' = authority \cup G
    BY <1>6 DEF PreGrant
  <2>3. grants' \subseteq Grant /\ authority' \subseteq Grant
    BY <2>1, <2>2, AddAllBounds DEF TypeOK
  <2> QED BY <1>6, <2>3 DEF PreGrant, TypeOK, runVars
<1>7. ASSUME NEW c \in Calls, Gate(c) PROVE TypeOK'
  BY <1>7, GateType
<1>8. ASSUME NEW c \in Calls, Resume(c) PROVE TypeOK'
  <2>1. grants' \subseteq Grant /\ authority' \subseteq Grant
    BY <1>8, NewGrantsType, AddAllBounds DEF Resume, TypeOK
  <2> QED BY <1>8, <2>1 DEF Resume, TypeOK, runVars
<1>9. ASSUME NEW c \in Calls, NEW d \in Decisions(c), Answer(c, d) PROVE TypeOK'
  <2>1. KeyOf[c] \in Keys /\ d \in AllDecisions
    BY PromptsAssumption, DecisionFacts
  <2> QED BY <1>9, <2>1 DEF Answer, TypeOK, runVars
<1>10. CASE UNCHANGED vars
  BY <1>10 DEF vars, TypeOK
<1> QED
  BY <1>1, <1>2, <1>3, <1>4, <1>5, <1>6, <1>7, <1>8, <1>9, <1>10 DEF Next

\* Every variable keeps its type: no call, run or grant is ever made up.
THEOREM TypeCorrect == Spec => []TypeOK
<1>1. TypeOK /\ [Next]_vars => TypeOK'
  BY NextType
<1> QED BY InitType, <1>1, PTL DEF Spec

------------------------------------------------------------------------------
(* The waiting calls and the controllers.  AbortReleases is not inductive: *)
(* that the abort of a run reaches a waiting call rests on the call having *)
(* an abort listener and on the entry under its key being its own, and     *)
(* both on every step having kept the map and the waiting calls one-to-one. *)

\* Every entry is the entry of a call that waits under that very key.
EntriesWait ==
  \A k \in Keys : pending[k] # NoCall =>
    pending[k] \in Calls /\ call[pending[k]] = "waiting" /\ KeyOf[pending[k]] = k

\* Every waiting call has its entry, and its run is alive and driving.
WaitersHeld ==
  \A c \in Calls : call[c] = "waiting" =>
    pending[KeyOf[c]] = c /\ RunOf[c] \notin aborted /\ RootOf(RunOf[c]) = driving

\* The abort listeners are those of the waiting calls.
ListenersWait == listening = {c \in Calls : call[c] = "waiting"}

PromptInv == TypeOK /\ EntriesWait /\ WaitersHeld /\ ListenersWait

\* A session opens with nobody waiting and nothing pending.
LEMMA PromptInit == Init => PromptInv
<1> SUFFICES ASSUME Init PROVE PromptInv
  OBVIOUS
<1>1. TypeOK
  BY InitType
<1>2. EntriesWait /\ WaitersHeld /\ ListenersWait
  BY DEF Init, EntriesWait, WaitersHeld, ListenersWait
<1> QED BY <1>1, <1>2 DEF PromptInv

\* With unique keys the listener that wins a key is the waiting call's own, so
\* the signals of S settle exactly the waiting calls of the runs in S.
LEMMA WinnersAreWaiters ==
  ASSUME UniqueKeys, PromptInv, NEW S \in SUBSET Runs, NEW W \in Winners(S)
  PROVE  W = {c \in Calls : call[c] = "waiting" /\ RunOf[c] \in S}
<1> DEFINE firing == {c \in listening : RunOf[c] \in S /\ pending[KeyOf[c]] # NoCall}
<1>1. W \subseteq firing /\ \A c \in firing : \E w \in W : KeyOf[w] = KeyOf[c]
  BY DEF Winners
<1>2. firing = {c \in Calls : call[c] = "waiting" /\ RunOf[c] \in S}
  BY PromptsAssumption DEF PromptInv, WaitersHeld, ListenersWait
<1>3. firing \subseteq W
  BY <1>1, <1>2 DEF UniqueKeys
<1> QED BY <1>1, <1>2, <1>3

\* What is left of the waiting calls when signals fire.
LEMMA FireSignalsWaiting ==
  ASSUME UniqueKeys, PromptInv, NEW S \in SUBSET Runs, NEW all \in BOOLEAN,
         FireSignals(S, all)
  PROVE  /\ \A c \in Calls : call'[c] = "waiting" <=>
               call[c] = "waiting" /\ ~all /\ RunOf[c] \notin S
         /\ \A k \in Keys : pending'[k] =
               IF pending[k] # NoCall /\ call'[pending[k]] = "waiting"
               THEN pending[k] ELSE NoCall
         /\ listening' = {c \in Calls : call'[c] = "waiting"}
<1> DEFINE cleared(W) == {KeyOf[w] : w \in W}
           left(W) == {pending[k] : k \in Keys \ cleared(W)} \ {NoCall}
           over(W) == W \cup (IF all THEN left(W) ELSE {})
<1>1. PICK W \in Winners(S) :
        /\ pending' = [k \in Keys |-> IF all \/ k \in cleared(W) THEN NoCall ELSE pending[k]]
        /\ listening' = {c \in listening \ over(W) : RunOf[c] \notin S}
        /\ call' = [c \in Calls |-> IF c \in over(W) THEN "settled" ELSE call[c]]
  BY DEF FireSignals
<1>2. W = {c \in Calls : call[c] = "waiting" /\ RunOf[c] \in S}
  BY WinnersAreWaiters
<1>3. \A c \in Calls : call[c] = "waiting" => KeyOf[c] \in Keys /\ pending[KeyOf[c]] = c /\ c # NoCall
  BY PromptsAssumption DEF PromptInv, WaitersHeld
<1>4. \A k \in Keys : pending[k] # NoCall =>
        pending[k] \in Calls /\ call[pending[k]] = "waiting" /\ KeyOf[pending[k]] = k
  BY DEF PromptInv, EntriesWait
<1>5. \A c \in Calls : call[c] = "waiting" => (KeyOf[c] \in cleared(W) <=> c \in W)
  BY <1>2, <1>3
<1>6. \A c \in Calls : call[c] = "waiting" => (c \in over(W) <=> all \/ RunOf[c] \in S)
  BY <1>2, <1>3, <1>4, <1>5
<1>7. \A c \in Calls : call'[c] = "waiting" <=>
               call[c] = "waiting" /\ ~all /\ RunOf[c] \notin S
  BY <1>1, <1>6
<1>8. \A k \in Keys : pending'[k] =
               IF pending[k] # NoCall /\ call'[pending[k]] = "waiting"
               THEN pending[k] ELSE NoCall
  <2> SUFFICES ASSUME NEW k \in Keys
               PROVE  pending'[k] = IF pending[k] # NoCall /\ call'[pending[k]] = "waiting"
                                    THEN pending[k] ELSE NoCall
    OBVIOUS
  <2>1. CASE pending[k] = NoCall
    BY <1>1, <2>1
  <2>2. CASE pending[k] # NoCall
    <3>1. pending[k] \in Calls /\ call[pending[k]] = "waiting" /\ KeyOf[pending[k]] = k
      BY <1>4, <2>2
    <3>2. k \in cleared(W) <=> RunOf[pending[k]] \in S
      BY <1>2, <1>5, <3>1
    <3> QED BY <1>1, <1>7, <2>2, <3>1, <3>2
  <2> QED BY <2>1, <2>2
<1>9. listening' = {c \in Calls : call'[c] = "waiting"}
  <2>1. listening = {c \in Calls : call[c] = "waiting"}
    BY DEF PromptInv, ListenersWait
  <2> QED BY <1>1, <1>6, <1>7, <2>1
<1> QED BY <1>7, <1>8, <1>9

\* A call that is about to wait finds its key free, so asking adds its entry and
\* settles nobody, even when the host answers inside its listener.
LEMMA SuspendWaits ==
  ASSUME UniqueKeys, PromptInv, NEW c \in Calls, call[c] = "new", Suspend(c)
  PROVE  /\ call' = [call EXCEPT ![c] = "waiting"]
         /\ decision' = decision
         /\ listening' = listening \cup {c}
<1>1. pending[KeyOf[c]] = NoCall
  BY PromptsAssumption DEF PromptInv, EntriesWait, UniqueKeys
<1>2. NoCall \notin Calls
  BY PromptsAssumption
<1>3. PICK d \in Decisions(c) :
        /\ call' = [x \in Calls |-> IF x = c THEN "waiting"
                                    ELSE IF x = NoCall THEN "settled" ELSE call[x]]
        /\ decision' = [x \in Calls |-> IF x = NoCall THEN d ELSE decision[x]]
        /\ listening' = (listening \ {NoCall}) \cup {c}
  BY <1>1 DEF Suspend
<1>4. /\ listening \subseteq Calls
      /\ call \in [Calls -> {"new", "waiting", "settled", "allowed", "refused"}]
      /\ decision \in [Calls -> AllDecisions \cup {"none", "granted"}]
  BY DEF PromptInv, TypeOK
<1>5. call' = [call EXCEPT ![c] = "waiting"]
  BY <1>2, <1>3, <1>4
<1>6. decision' = decision
  BY <1>2, <1>3, <1>4
<1>7. listening' = listening \cup {c}
  BY <1>2, <1>3, <1>4
<1> QED BY <1>5, <1>6, <1>7

\* gate(), ask() and propose() register the entry and the listener of the call
\* they suspend, and disturb no other wait.
LEMMA GateStep ==
  ASSUME UniqueKeys, PromptInv, NEW c \in Calls, Gate(c)
  PROVE  (EntriesWait /\ WaitersHeld /\ ListenersWait)'
<1>t. /\ call \in [Calls -> {"new", "waiting", "settled", "allowed", "refused"}]
      /\ pending \in [Keys -> Calls \cup {NoCall}]
      /\ KeyOf \in [Calls -> Keys] /\ NoCall \notin Calls
  BY PromptsAssumption DEF PromptInv, TypeOK
<1>n. call[c] = "new" /\ RootOf(RunOf[c]) = driving /\ UNCHANGED runVars
  BY DEF Gate, Running
<1>i. EntriesWait /\ WaitersHeld /\ ListenersWait
  BY DEF PromptInv
<1>1. CASE AutoAllow(c) \/ RefuseAborted(c)
  <2>1. /\ \A x \in Calls : call'[x] = "waiting" <=> call[x] = "waiting"
        /\ pending' = pending /\ listening' = listening
    BY <1>1, <1>t, <1>n DEF AutoAllow, RefuseAborted
  <2> QED BY <1>t, <1>n, <1>i, <2>1 DEF EntriesWait, WaitersHeld, ListenersWait, runVars
<1>2. CASE Suspend(c)
  <2>1. /\ \A x \in Calls : call'[x] = "waiting" <=> call[x] = "waiting" \/ x = c
        /\ listening' = listening \cup {c}
    BY <1>2, <1>t, <1>n, SuspendWaits
  <2>2. pending' = [pending EXCEPT ![KeyOf[c]] = c] /\ RunOf[c] \notin aborted
    BY <1>2 DEF Suspend
  <2>3. EntriesWait'
    BY <1>t, <1>i, <2>1, <2>2 DEF EntriesWait
  <2>4. WaitersHeld'
    BY <1>t, <1>n, <1>i, <2>1, <2>2 DEF WaitersHeld, runVars, UniqueKeys
  <2>5. ListenersWait'
    BY <1>i, <2>1 DEF ListenersWait
  <2> QED BY <2>3, <2>4, <2>5
<1> QED BY <1>1, <1>2 DEF Gate

\* resolve() settles the call its key names, with its entry and its listener, and
\* no other call.
LEMMA AnswerStep ==
  ASSUME UniqueKeys, PromptInv, NEW c \in Calls, NEW d \in Decisions(c), Answer(c, d)
  PROVE  /\ (EntriesWait /\ WaitersHeld /\ ListenersWait)'
         /\ \A x \in Calls : call'[x] = "waiting" <=> call[x] = "waiting" /\ x # c
<1>t. /\ call \in [Calls -> {"new", "waiting", "settled", "allowed", "refused"}]
      /\ pending \in [Keys -> Calls \cup {NoCall}]
      /\ KeyOf \in [Calls -> Keys] /\ NoCall \notin Calls
  BY PromptsAssumption DEF PromptInv, TypeOK
<1>i. EntriesWait /\ WaitersHeld /\ ListenersWait
  BY DEF PromptInv
<1>u. UNCHANGED runVars
  BY DEF Answer
<1>1. CASE pending[KeyOf[c]] = NoCall
  <2>1. call' = call /\ pending' = pending /\ listening' = listening
    BY <1>1 DEF Answer
  <2>2. call[c] # "waiting"
    BY <1>1, <1>i, <1>t DEF WaitersHeld
  <2> QED BY <1>i, <1>u, <2>1, <2>2 DEF EntriesWait, WaitersHeld, ListenersWait, runVars
<1>2. CASE pending[KeyOf[c]] # NoCall
  <2>1. pending[KeyOf[c]] = c
    BY <1>2, <1>i, <1>t DEF EntriesWait, UniqueKeys
  <2>2. /\ pending' = [pending EXCEPT ![KeyOf[c]] = NoCall]
        /\ listening' = listening \ {c}
        /\ call' = [call EXCEPT ![c] = "settled"]
    BY <1>2, <2>1 DEF Answer
  <2>3. \A x \in Calls : call'[x] = "waiting" <=> call[x] = "waiting" /\ x # c
    BY <1>t, <2>2
  <2>4. EntriesWait'
    BY <1>t, <1>i, <2>1, <2>2, <2>3 DEF EntriesWait
  <2>5. WaitersHeld'
    BY <1>t, <1>i, <1>u, <2>2, <2>3 DEF WaitersHeld, runVars, UniqueKeys
  <2>6. ListenersWait'
    BY <1>i, <2>2, <2>3 DEF ListenersWait
  <2> QED BY <2>3, <2>4, <2>5, <2>6
<1> QED BY <1>1, <1>2

\* Firing signals keeps the three, if the runs that stay alive are as before.
LEMMA FireSignalsStep ==
  ASSUME UniqueKeys, PromptInv, NEW S \in SUBSET Runs, NEW all \in BOOLEAN,
         FireSignals(S, all), driving' = driving
  PROVE  (EntriesWait /\ WaitersHeld /\ ListenersWait)'
<1>1. /\ \A c \in Calls : call'[c] = "waiting" <=>
               call[c] = "waiting" /\ ~all /\ RunOf[c] \notin S
      /\ \A k \in Keys : pending'[k] =
               IF pending[k] # NoCall /\ call'[pending[k]] = "waiting"
               THEN pending[k] ELSE NoCall
      /\ listening' = {c \in Calls : call'[c] = "waiting"}
  BY FireSignalsWaiting
<1>2. aborted' = aborted \cup S
  BY DEF FireSignals
<1>3. KeyOf \in [Calls -> Keys] /\ NoCall \notin Calls
  BY PromptsAssumption
<1>4. EntriesWait'
  BY <1>1 DEF PromptInv, EntriesWait
<1>5. WaitersHeld'
  BY <1>1, <1>2, <1>3 DEF PromptInv, WaitersHeld
<1>6. ListenersWait'
  BY <1>1 DEF ListenersWait
<1> QED BY <1>4, <1>5, <1>6

\* Every step keeps entries, listeners and waiting calls in step.
LEMMA PromptStep == UniqueKeys /\ PromptInv /\ [Next]_vars => PromptInv'
<1> SUFFICES ASSUME UniqueKeys, PromptInv, [Next]_vars PROVE PromptInv'
  OBVIOUS
<1>t. TypeOK'
  BY NextType DEF PromptInv
<1>i. EntriesWait /\ WaitersHeld /\ ListenersWait
  BY DEF PromptInv
<1> SUFFICES (EntriesWait /\ WaitersHeld /\ ListenersWait)'
  BY <1>t DEF PromptInv
<1>1. ASSUME NEW r \in Roots, StartTurn(r)
      PROVE  (EntriesWait /\ WaitersHeld /\ ListenersWait)'
  <2>1. NoRun \notin Roots
    BY PromptsAssumption DEF Runs
  <2>2. \A c \in Calls : call[c] # "waiting"
    BY <1>1, <1>i, <2>1, RunFacts DEF StartTurn, WaitersHeld
  <2> QED BY <1>1, <1>i, <2>2 DEF StartTurn, EntriesWait, WaitersHeld, ListenersWait
<1>2. ASSUME NEW r \in Roots, Abort(r)
      PROVE  (EntriesWait /\ WaitersHeld /\ ListenersWait)'
  <2>1. TreeOf(r) \in SUBSET Runs /\ (r = ActiveRun) \in BOOLEAN
    BY DEF TreeOf
  <2> QED BY <1>2, <2>1, FireSignalsStep DEF Abort
<1>3. ASSUME NEW s \in Subs, Spawn(s)
      PROVE  (EntriesWait /\ WaitersHeld /\ ListenersWait)'
  BY <1>3, <1>i DEF Spawn, EntriesWait, WaitersHeld, ListenersWait
<1>4. ASSUME NEW s \in Subs, Timeout(s)
      PROVE  (EntriesWait /\ WaitersHeld /\ ListenersWait)'
  <2>1. {s} \in SUBSET Runs
    BY DEF Runs
  <2> QED BY <1>4, <2>1, FireSignalsStep DEF Timeout
<1>5. ASSUME EndTurn
      PROVE  (EntriesWait /\ WaitersHeld /\ ListenersWait)'
  <2>1. \A c \in Calls : call[c] # "waiting"
    BY <1>5, <1>i DEF EndTurn, WaitersHeld
  <2> QED BY <1>5, <1>i, <2>1 DEF EndTurn, EntriesWait, WaitersHeld, ListenersWait
<1>6. ASSUME NEW S \in SUBSET PreScopes, PreGrant(S)
      PROVE  (EntriesWait /\ WaitersHeld /\ ListenersWait)'
  BY <1>6, <1>i DEF PreGrant, EntriesWait, WaitersHeld, ListenersWait, runVars
<1>7. ASSUME NEW c \in Calls, Gate(c)
      PROVE  (EntriesWait /\ WaitersHeld /\ ListenersWait)'
  BY <1>7, GateStep
<1>8. ASSUME NEW c \in Calls, Resume(c)
      PROVE  (EntriesWait /\ WaitersHeld /\ ListenersWait)'
  <2>1. \A x \in Calls : call'[x] = "waiting" <=> call[x] = "waiting"
    BY <1>8 DEF Resume, PromptInv, TypeOK
  <2> QED BY <1>8, <1>i, <2>1 DEF Resume, EntriesWait, WaitersHeld, ListenersWait, runVars
<1>9. ASSUME NEW c \in Calls, NEW d \in Decisions(c), Answer(c, d)
      PROVE  (EntriesWait /\ WaitersHeld /\ ListenersWait)'
  BY <1>9, AnswerStep
<1>10. CASE UNCHANGED vars
  BY <1>10, <1>i DEF vars, EntriesWait, WaitersHeld, ListenersWait
<1> QED
  BY <1>1, <1>2, <1>3, <1>4, <1>5, <1>6, <1>7, <1>8, <1>9, <1>10 DEF Next

\* The inductive invariant of the controllers holds throughout a session.
LEMMA PromptInvariant ==
  ASSUME UniqueKeys
  PROVE  Spec => []PromptInv
<1>1. PromptInv /\ [Next]_vars => PromptInv'
  BY PromptStep
<1> QED BY PromptInit, <1>1, PTL DEF Spec

\* Once a run's signal has fired none of its calls is left waiting.
THEOREM AbortsRelease ==
  ASSUME UniqueKeys
  PROVE  Spec => []AbortReleases
<1>1. PromptInv => AbortReleases
  BY DEF PromptInv, WaitersHeld, AbortReleases
<1> QED BY PromptInvariant, <1>1, PTL

\* The controllers hold an entry and a listener for exactly the waiting calls.
THEOREM NothingLeaks ==
  ASSUME UniqueKeys
  PROVE  Spec => []NoLeak
<1>1. PromptInv => NoLeak
  BY DEF PromptInv, EntriesWait, ListenersWait, NoLeak
<1> QED BY PromptInvariant, <1>1, PTL

\* A waiting call is settled by its own prompt's answer or its own run's abort.
THEOREM NoForeignRejects ==
  ASSUME UniqueKeys
  PROVE  Spec => NoForeignReject
<1> DEFINE Foreign(c) == call[c] = "waiting" /\ call'[c] # "waiting"
           Own(c) == RunOf[c] \in aborted' \/ prompt'[c] = "answered"
<1>1. PromptInv /\ [Next]_vars => [\A c \in Calls : Foreign(c) => Own(c)]_vars
  <2> SUFFICES ASSUME PromptInv, Next, NEW c \in Calls, Foreign(c) PROVE Own(c)
    BY DEF vars
  <2>t. call \in [Calls -> {"new", "waiting", "settled", "allowed", "refused"}]
    BY DEF PromptInv, TypeOK
  <2>d. RootOf(RunOf[c]) = driving /\ RunOf[c] \in Runs
    BY RunFacts DEF PromptInv, WaitersHeld
  <2>1. ASSUME NEW r \in Roots, Abort(r) PROVE Own(c)
    <3>1. TreeOf(r) \in SUBSET Runs /\ (r = ActiveRun) \in BOOLEAN
      BY DEF TreeOf
    <3>2. FireSignals(TreeOf(r), r = ActiveRun)
      BY <2>1 DEF Abort
    <3>3. r = ActiveRun \/ RunOf[c] \in TreeOf(r)
      BY <3>1, <3>2, FireSignalsWaiting
    <3>4. r = ActiveRun => RunOf[c] \in TreeOf(r)
      BY <2>d, PromptsAssumption DEF ActiveRun, TreeOf, Runs
    <3> QED BY <3>2, <3>3, <3>4 DEF FireSignals
  <2>2. ASSUME NEW s \in Subs, Timeout(s) PROVE Own(c)
    <3>1. {s} \in SUBSET Runs /\ FireSignals({s}, FALSE)
      BY <2>2 DEF Runs, Timeout
    <3>2. RunOf[c] \in {s}
      BY <3>1, FireSignalsWaiting
    <3> QED BY <3>1, <3>2 DEF FireSignals
  <2>3. ASSUME NEW x \in Calls, NEW d \in Decisions(x), Answer(x, d) PROVE Own(c)
    <3>1. x = c
      BY <2>3, AnswerStep
    <3>2. prompt \in [Calls -> {"none", "asked", "answered"}]
      BY DEF PromptInv, TypeOK
    <3> QED BY <2>3, <3>1, <3>2 DEF Answer
  <2>4. ASSUME NEW x \in Calls, Gate(x) PROVE Own(c)
    <3>1. call[x] = "new"
      BY <2>4 DEF Gate
    <3>2. \A y \in Calls : call[y] = "waiting" => call'[y] = "waiting"
      BY <2>4, <2>t, <3>1, SuspendWaits DEF Gate, AutoAllow, RefuseAborted
    <3> QED BY <3>2
  <2>5. ASSUME NEW x \in Calls, Resume(x) PROVE Own(c)
    BY <2>5, <2>t DEF Resume
  <2>6. ASSUME NEW S \in SUBSET PreScopes, PreGrant(S) PROVE Own(c)
    BY <2>6 DEF PreGrant
  <2>7. ASSUME NEW r \in Roots, StartTurn(r) PROVE Own(c)
    BY <2>7 DEF StartTurn
  <2>8. ASSUME NEW s \in Subs, Spawn(s) PROVE Own(c)
    BY <2>8 DEF Spawn
  <2>9. ASSUME EndTurn PROVE Own(c)
    BY <2>9 DEF EndTurn
  <2> QED BY <2>1, <2>2, <2>3, <2>4, <2>5, <2>6, <2>7, <2>8, <2>9 DEF Next
<1> QED BY PromptInvariant, <1>1, PTL DEF Spec, NoForeignReject

------------------------------------------------------------------------------
(* Answers.  A waiting call's prompt is unanswered, unless its host answers *)
(* inside its event listener: that answer comes before the entry it is for. *)

AskedWhileWaiting ==
  \A c \in Calls \ Eager : call[c] = "waiting" => prompt[c] = "asked"

\* A waiting call stays unanswered, unless its host answers inside its listener:
\* the answer to its prompt is what ends its wait, and an answer given inside the
\* listener of another call finds that call's key free and ends no wait.
LEMMA AskedStep ==
  ASSUME UniqueKeys, PromptInv, AskedWhileWaiting, [Next]_vars
  PROVE  AskedWhileWaiting'
<1>t. /\ call \in [Calls -> {"new", "waiting", "settled", "allowed", "refused"}]
      /\ prompt \in [Calls -> {"none", "asked", "answered"}]
  BY DEF PromptInv, TypeOK
<1>1. ASSUME NEW r \in Roots, Abort(r) PROVE AskedWhileWaiting'
  <2>1. TreeOf(r) \in SUBSET Runs /\ (r = ActiveRun) \in BOOLEAN
    BY DEF TreeOf
  <2>2. \A c \in Calls : call'[c] = "waiting" => call[c] = "waiting"
    BY <1>1, <2>1, FireSignalsWaiting DEF Abort
  <2> QED BY <1>1, <2>2 DEF Abort, AskedWhileWaiting
<1>2. ASSUME NEW s \in Subs, Timeout(s) PROVE AskedWhileWaiting'
  <2>1. {s} \in SUBSET Runs
    BY DEF Runs
  <2>2. \A c \in Calls : call'[c] = "waiting" => call[c] = "waiting"
    BY <1>2, <2>1, FireSignalsWaiting DEF Timeout
  <2> QED BY <1>2, <2>2 DEF Timeout, AskedWhileWaiting
<1>3. ASSUME NEW c \in Calls, NEW d \in Decisions(c), Answer(c, d) PROVE AskedWhileWaiting'
  <2>1. \A x \in Calls : call'[x] = "waiting" => call[x] = "waiting" /\ x # c
    BY <1>3, AnswerStep
  <2>2. prompt' = [prompt EXCEPT ![c] = "answered"]
    BY <1>3 DEF Answer
  <2> QED BY <1>t, <2>1, <2>2 DEF AskedWhileWaiting
<1>4. ASSUME NEW c \in Calls, Gate(c) PROVE AskedWhileWaiting'
  <2>1. CASE AutoAllow(c) \/ RefuseAborted(c)
    BY <2>1, <1>t DEF AutoAllow, RefuseAborted, AskedWhileWaiting
  <2>2. CASE Suspend(c)
    <3>1. call' = [call EXCEPT ![c] = "waiting"]
      BY <1>4, <2>2, SuspendWaits DEF Gate
    <3>2. prompt' = [prompt EXCEPT ![c] = IF c \in Eager THEN "answered" ELSE "asked"]
      BY <2>2 DEF Suspend
    <3> QED BY <1>t, <3>1, <3>2 DEF AskedWhileWaiting
  <2> QED BY <1>4, <2>1, <2>2 DEF Gate
<1>5. ASSUME NEW c \in Calls, Resume(c) PROVE AskedWhileWaiting'
  BY <1>5, <1>t DEF Resume, AskedWhileWaiting
<1>6. ASSUME NEW S \in SUBSET PreScopes, PreGrant(S) PROVE AskedWhileWaiting'
  BY <1>6 DEF PreGrant, AskedWhileWaiting
<1>7. ASSUME NEW r \in Roots, StartTurn(r) PROVE AskedWhileWaiting'
  BY <1>7 DEF StartTurn, AskedWhileWaiting
<1>8. ASSUME NEW s \in Subs, Spawn(s) PROVE AskedWhileWaiting'
  BY <1>8 DEF Spawn, AskedWhileWaiting
<1>9. ASSUME EndTurn PROVE AskedWhileWaiting'
  BY <1>9 DEF EndTurn, AskedWhileWaiting
<1>10. CASE UNCHANGED vars
  BY <1>10 DEF vars, AskedWhileWaiting
<1> QED
  BY <1>1, <1>2, <1>3, <1>4, <1>5, <1>6, <1>7, <1>8, <1>9, <1>10 DEF Next

\* No answered call goes on waiting, as long as its own host answers after its
\* listener has returned, whatever the hosts of the other calls do.  A call of a
\* host that answers inside its listener, as the headless one does (run.ts:104),
\* is left out because it does go on waiting: the run prompts_eager shows it.
THEOREM AnswersRelease ==
  ASSUME UniqueKeys
  PROVE  Spec => [](/\ \A c \in Calls \ Eager : prompt[c] = "answered" => call[c] # "waiting"
                    /\ Eager = {} => AnsweredNotWaiting)
<1>1. Init => AskedWhileWaiting
  BY DEF Init, AskedWhileWaiting
<1>2. PromptInv /\ AskedWhileWaiting /\ [Next]_vars => AskedWhileWaiting'
  BY AskedStep
<1>3. AskedWhileWaiting =>
        /\ \A c \in Calls \ Eager : prompt[c] = "answered" => call[c] # "waiting"
        /\ Eager = {} => AnsweredNotWaiting
  BY DEF AskedWhileWaiting, AnsweredNotWaiting
<1> QED BY PromptInvariant, <1>1, <1>2, <1>3, PTL DEF Spec

------------------------------------------------------------------------------
(* Authority.  HumanAuthority speaks of the calls a grant has answered; it  *)
(* is kept because every grant in the table goes back to a human's, which   *)
(* reaches at least as far: delegation copies a grant that stays with the   *)
(* orchestrator to an inheriting sub-agent and to no one else.              *)

\* a, a human's grant, allows whatever the table's grant g allows.
Backs(a, g) ==
  /\ a.scope = g.scope
  /\ a.scoped => g.scoped /\ (a.agent = g.agent \/ (a.agent = Orch /\ g.agent \in Inherit))

GrantsBacked == \A g \in grants : \E a \in authority : Backs(a, g)

AuthorityInv == TypeOK /\ GrantsBacked /\ HumanAuthority

\* Adding what is also recorded as authority keeps the table backed.
LEMMA AddAllBacked ==
  ASSUME NEW new, GrantsBacked,
         grants' = AddAll(grants, new), authority' = authority \cup new
  PROVE  GrantsBacked'
<1>1. \A g \in new : Backs(g, g)
  BY DEF Backs
<1>2. grants' \subseteq grants \cup new
  BY AddAllBounds
<1> QED BY <1>1, <1>2 DEF GrantsBacked

\* A call a grant covers has a human's grant behind it.
LEMMA GrantedIsBacked ==
  ASSUME NEW c \in Calls, GrantsBacked, Granted(c)
  PROVE  \E a \in authority :
           /\ a.scope = ScopeOf[c]
           /\ a.scoped => a.agent = AgentOf(c) \/ (a.agent = Orch /\ AgentOf(c) \in Inherit)
<1>1. PICK g \in grants : g.scope = ScopeOf[c] /\ (g.scoped => g.agent = AgentOf(c))
  BY DEF Granted, Matched, Covers
<1>2. PICK a \in authority : Backs(a, g)
  BY DEF GrantsBacked
<1> QED BY <1>1, <1>2 DEF Backs

\* A step that invents no "granted" decision and takes back no authority.
LEMMA AuthorityKept ==
  ASSUME HumanAuthority, authority \subseteq authority',
         \A c \in Calls : decision'[c] = "granted" => decision[c] = "granted"
  PROVE  HumanAuthority'
BY DEF HumanAuthority

\* Firing signals decides "reject" and nothing else.
LEMMA FireSignalsDecides ==
  ASSUME TypeOK, NEW S, NEW all, FireSignals(S, all)
  PROVE  \A c \in Calls : decision'[c] = "granted" => decision[c] = "granted"
BY DEF FireSignals

\* The grants a sub-agent is spawned with rest on what was granted to the
\* orchestrator (GrantTable.delegateScoped).
LEMMA DelegateBacked ==
  ASSUME AuthorityInv, NEW s \in Subs, Spawn(s)
  PROVE  GrantsBacked'
<1>1. CASE s \notin Inherit
  BY <1>1 DEF Spawn, AuthorityInv, GrantsBacked
<1>2. CASE s \in Inherit
  <2> DEFINE copy(g) == [scope |-> g.scope, agent |-> s, scoped |-> TRUE, from |-> Orch]
  <2>1. grants' = DelegateScoped(grants, Orch, s) /\ authority' = authority
    BY <1>2 DEF Spawn
  <2>2. ASSUME NEW x \in DelegateScoped(grants, Orch, s)
        PROVE  x \in grants \/ \E g \in grants : g.scoped /\ g.agent = Orch /\ x = copy(g)
    BY <2>2 DEF DelegateScoped
  <2>3. ASSUME NEW g \in grants, g.scoped, g.agent = Orch
        PROVE  \E a \in authority : Backs(a, copy(g))
    <3>1. PICK a \in authority : Backs(a, g)
      BY DEF AuthorityInv, GrantsBacked
    <3>2. Orch \notin Inherit
      BY PromptsAssumption
    <3>3. Backs(a, copy(g))
      BY <1>2, <2>3, <3>1, <3>2 DEF Backs
    <3> QED BY <3>3
  <2> QED BY <2>1, <2>2, <2>3 DEF AuthorityInv, GrantsBacked
<1> QED BY <1>1, <1>2

\* No step adds a grant, or lets one answer for a call, that no human gave.
LEMMA AuthorityStep == AuthorityInv /\ [Next]_vars => AuthorityInv'
<1> SUFFICES ASSUME AuthorityInv, [Next]_vars PROVE AuthorityInv'
  OBVIOUS
<1>t. TypeOK /\ TypeOK' /\ GrantsBacked /\ HumanAuthority
  BY NextType DEF AuthorityInv
<1>d. decision \in [Calls -> AllDecisions \cup {"none", "granted"}]
  BY <1>t DEF TypeOK
<1> SUFFICES GrantsBacked' /\ HumanAuthority'
  BY <1>t DEF AuthorityInv
<1>1. ASSUME NEW r \in Roots, StartTurn(r) PROVE GrantsBacked' /\ HumanAuthority'
  BY <1>1, <1>t DEF StartTurn, GrantsBacked, HumanAuthority
<1>2. ASSUME NEW r \in Roots, Abort(r) PROVE GrantsBacked' /\ HumanAuthority'
  BY <1>2, <1>t, FireSignalsDecides, AuthorityKept DEF Abort, GrantsBacked
<1>3. ASSUME NEW s \in Subs, Spawn(s) PROVE GrantsBacked' /\ HumanAuthority'
  BY <1>3, <1>t, DelegateBacked DEF Spawn, HumanAuthority
<1>4. ASSUME NEW s \in Subs, Timeout(s) PROVE GrantsBacked' /\ HumanAuthority'
  BY <1>4, <1>t, FireSignalsDecides, AuthorityKept DEF Timeout, GrantsBacked
<1>5. ASSUME EndTurn PROVE GrantsBacked' /\ HumanAuthority'
  BY <1>5, <1>t DEF EndTurn, GrantsBacked, HumanAuthority
<1>6. ASSUME NEW S \in SUBSET PreScopes, PreGrant(S) PROVE GrantsBacked' /\ HumanAuthority'
  BY <1>6, <1>t, AddAllBacked, AuthorityKept DEF PreGrant
<1>7. ASSUME NEW c \in Calls, Gate(c) PROVE GrantsBacked' /\ HumanAuthority'
  <2>1. CASE AutoAllow(c)
    <3>1. GrantsBacked'
      BY <2>1, <1>t DEF AutoAllow, GrantsBacked
    <3>2. decision' = [decision EXCEPT ![c] = "granted"] /\ authority' = authority
      BY <2>1 DEF AutoAllow
    <3>3. \E a \in authority :
            /\ a.scope = ScopeOf[c]
            /\ a.scoped => a.agent = AgentOf(c) \/ (a.agent = Orch /\ AgentOf(c) \in Inherit)
      BY <2>1, <1>t, GrantedIsBacked DEF AutoAllow
    <3>4. HumanAuthority'
      BY <1>t, <1>d, <3>2, <3>3 DEF HumanAuthority
    <3> QED BY <3>1, <3>4
  <2>2. CASE RefuseAborted(c)
    <3>1. decision' = [decision EXCEPT ![c] = "reject"] /\ UNCHANGED <<grants, authority>>
      BY <2>2 DEF RefuseAborted
    <3> QED BY <1>t, <1>d, <3>1, AuthorityKept DEF GrantsBacked
  <2>3. CASE Suspend(c)
    <3>1. PICK d \in Decisions(c) : \E early \in Calls \cup {NoCall} :
            decision' = [x \in Calls |-> IF x = early THEN d ELSE decision[x]]
      BY <2>3, <1>t, PromptsAssumption DEF Suspend, TypeOK
    <3>2. d # "granted"
      BY DecisionFacts
    <3>3. UNCHANGED <<grants, authority>>
      BY <2>3 DEF Suspend
    <3> QED BY <1>t, <1>d, <3>1, <3>2, <3>3, AuthorityKept DEF GrantsBacked
  <2> QED BY <1>7, <2>1, <2>2, <2>3 DEF Gate
<1>8. ASSUME NEW c \in Calls, Resume(c) PROVE GrantsBacked' /\ HumanAuthority'
  BY <1>8, <1>t, AddAllBacked, AuthorityKept DEF Resume
<1>9. ASSUME NEW c \in Calls, NEW d \in Decisions(c), Answer(c, d)
      PROVE  GrantsBacked' /\ HumanAuthority'
  <2>1. d # "granted"
    BY DecisionFacts
  <2>2. \A x \in Calls : decision'[x] = "granted" => decision[x] = "granted"
    BY <1>9, <1>d, <2>1 DEF Answer
  <2>3. UNCHANGED <<grants, authority>>
    BY <1>9 DEF Answer
  <2> QED BY <1>t, <2>2, <2>3, AuthorityKept DEF GrantsBacked
<1>10. CASE UNCHANGED vars
  BY <1>10, <1>t DEF vars, GrantsBacked, HumanAuthority
<1> QED
  BY <1>1, <1>2, <1>3, <1>4, <1>5, <1>6, <1>7, <1>8, <1>9, <1>10 DEF Next

\* A call allowed without a prompt rests on what a human granted, for any number
\* of turns, sub-agents, plans and delegations, and whatever keys they share.
THEOREM AuthorityIsHuman == Spec => []HumanAuthority
<1>1. Init => AuthorityInv
  BY InitType DEF Init, AuthorityInv, GrantsBacked, HumanAuthority
<1>2. AuthorityInv /\ [Next]_vars => AuthorityInv'
  BY AuthorityStep
<1>3. AuthorityInv => HumanAuthority
  BY DEF AuthorityInv
<1> QED BY <1>1, <1>2, <1>3, PTL DEF Spec

------------------------------------------------------------------------------
(* The path around the controllers.                                        *)


\* The tail of gated() either asks through the controller or denies.
LEMMA InteractiveRefines ==
  ASSUME NEW c \in Calls, Interactive(c)
  PROVE  [Next]_vars
<1>1. CASE Ask(c)
  <2>1. Gate(c)
    BY <1>1 DEF Ask
  <2> QED BY <2>1 DEF Next
<1>2. CASE DenyUnattended(c)
  BY <1>2 DEF DenyUnattended
<1> QED BY <1>1, <1>2 DEF Interactive

\* Every step of the tool-gate path is a step of the controllers or none.
LEMMA StepRefines == [GateNext]_allVars => [Next]_vars
<1> SUFFICES ASSUME [GateNext]_allVars PROVE [Next]_vars
  OBVIOUS
<1>1. ASSUME RunStep PROVE [Next]_vars
  BY <1>1 DEF RunStep, Next
<1>2. ASSUME NEW c \in Calls, Start(c) PROVE [Next]_vars
  <2>1. CASE UNCHANGED vars
    BY <2>1
  <2>2. CASE Interactive(c)
    BY <2>2, InteractiveRefines
  <2> QED BY <1>2, <2>1, <2>2 DEF Start, Stop, Run, Classify
<1>3. ASSUME NEW c \in Calls, NEW v \in Verdicts, Classified(c, v) PROVE [Next]_vars
  <2>1. CASE UNCHANGED vars
    BY <2>1
  <2>2. CASE Interactive(c)
    BY <2>2, InteractiveRefines
  <2> QED BY <1>3, <2>1, <2>2 DEF Classified, Stop, Run
<1>4. ASSUME NEW c \in Calls, Decided(c) PROVE [Next]_vars
  BY <1>4 DEF Decided, Stop, Run
<1>5. ASSUME NEW c \in Calls, Finish(c) \/ Elicited(c) PROVE [Next]_vars
  BY <1>5 DEF Finish, Elicited
<1>6. ASSUME NEW c \in Calls, Elicit(c) PROVE [Next]_vars
  BY <1>6 DEF Elicit, Next
<1>7. ASSUME NEW c \in Calls, GateResume(c) PROVE [Next]_vars
  BY <1>7 DEF GateResume, Next
<1>8. ASSUME NEW m \in UserModes, SetMode(m) PROVE [Next]_vars
  BY <1>8 DEF SetMode
<1>9. ASSUME NEW z \in Scheduled, FireSchedule(z) PROVE [Next]_vars
  <2>1. ScheduleGrants[z] \in SUBSET PreScopes /\ PreGrant(ScheduleGrants[z])
    BY <1>9, ToolGateAssumption DEF FireSchedule
  <2> QED BY <2>1 DEF Next
<1>10. ASSUME NEW z \in Scheduled, ScheduleDone(z) PROVE [Next]_vars
  BY <1>10 DEF ScheduleDone
<1>11. CASE UNCHANGED allVars
  BY <1>11 DEF allVars
<1> QED
  BY <1>1, <1>2, <1>3, <1>4, <1>5, <1>6, <1>7, <1>8, <1>9, <1>10, <1>11 DEF GateNext

\* The gate implements the controllers, for every mode, policy and schedule.
THEOREM GateImplementsPrompts == GateSpec => Spec
<1>1. GateInit => Init
  BY DEF GateInit
<1> QED BY <1>1, StepRefines, PTL DEF GateSpec, Spec

\* So no classifier verdict, mode or schedule lets a call pass as granted that
\* no human granted, an approved plan or a schedule's author included.
THEOREM GateAuthorityIsHuman == GateSpec => []HumanAuthority
BY GateImplementsPrompts, AuthorityIsHuman, PTL

\* Nor is a call of an aborted run left waiting behind the gate.
THEOREM GateAbortsRelease ==
  ASSUME UniqueKeys
  PROVE  GateSpec => []AbortReleases
BY GateImplementsPrompts, AbortsRelease, PTL

------------------------------------------------------------------------------
(* The plan-mode lockdown.  A mutating call that met plan mode is over, and *)
(* refused, in the very step that read the mode; what has to be shown is    *)
(* that no later step of the call revives it.                               *)

Shapes ==
  /\ stage = [c \in Calls |-> stage[c]]
  /\ seen  = [c \in Calls |-> seen[c]]
  /\ audit = [c \in Calls |-> audit[c]]

LockedOut(c) == stage[c] = "over" /\ audit[c] \in {"denied-policy", "blocked-plan"}

LockdownInv == Shapes /\ \A c \in Mutates : seen[c] = "plan" => LockedOut(c)

\* A step that leaves seen alone and touches only calls that are not locked out.
LEMMA LockdownKept ==
  ASSUME LockdownInv, Shapes', seen' = seen,
         \A c \in Calls : LockedOut(c) => stage'[c] = stage[c] /\ audit'[c] = audit[c]
  PROVE  LockdownInv'
BY ToolGateAssumption DEF LockdownInv, LockedOut, Gated

\* Every way a decision can go on writes the call's own stage and record only.
LEMMA OutcomeShape ==
  ASSUME Shapes, NEW c \in Calls,
         Interactive(c) \/ Classify(c) \/ \E tag : Stop(c, tag) \/ Run(c, tag)
  PROVE  /\ stage' = [x \in Calls |-> stage'[x]] /\ audit' = [x \in Calls |-> audit'[x]]
         /\ \A x \in Calls \ {c} : stage'[x] = stage[x] /\ audit'[x] = audit[x]
<1>1. /\ \E s : stage' = [stage EXCEPT ![c] = s]
      /\ audit' = audit \/ \E tag : audit' = [audit EXCEPT ![c] = tag]
  BY DEF Interactive, Ask, DenyUnattended, Classify, Stop, Run
<1> QED BY <1>1 DEF Shapes

\* No step wakes up a mutating call that started in plan mode.
LEMMA LockdownStep == LockdownInv /\ [GateNext]_allVars => LockdownInv'
<1> SUFFICES ASSUME LockdownInv, [GateNext]_allVars PROVE LockdownInv'
  OBVIOUS
<1>s. Shapes
  BY DEF LockdownInv
<1>1. ASSUME RunStep PROVE LockdownInv'
  BY <1>1, <1>s, LockdownKept DEF RunStep, gateVars, Shapes
<1>2. ASSUME NEW c \in Calls, Start(c) PROVE LockdownInv'
  <2>1. /\ seen' = [seen EXCEPT ![c] = mode] /\ stage[c] = "idle"
        /\ Interactive(c) \/ Classify(c) \/ \E tag : Stop(c, tag) \/ Run(c, tag)
    BY <1>2 DEF Start
  <2>2. /\ Shapes'
        /\ \A x \in Calls \ {c} : /\ stage'[x] = stage[x] /\ audit'[x] = audit[x]
                                  /\ seen'[x] = seen[x]
        /\ seen'[c] = mode
    BY <1>s, <2>1, OutcomeShape DEF Shapes
  <2>3. c \in Mutates /\ mode = "plan" => LockedOut(c)'
    <3> SUFFICES ASSUME c \in Mutates, mode = "plan" PROVE LockedOut(c)'
      OBVIOUS
    <3>1. Stop(c, "denied-policy") \/ Stop(c, "blocked-plan")
      BY <1>2 DEF Start, Locked
    <3> QED BY <1>s, <3>1 DEF Stop, LockedOut, Shapes
  <2> QED BY <2>2, <2>3, ToolGateAssumption DEF LockdownInv, LockedOut, Gated
<1>3. ASSUME NEW c \in Calls, NEW v \in Verdicts, Classified(c, v) PROVE LockdownInv'
  <2>1. /\ seen' = seen /\ stage[c] = "classifying"
        /\ Interactive(c) \/ Classify(c) \/ \E tag : Stop(c, tag) \/ Run(c, tag)
    BY <1>3 DEF Classified, shared
  <2>2. Shapes' /\ \A x \in Calls \ {c} : stage'[x] = stage[x] /\ audit'[x] = audit[x]
    BY <1>s, <2>1, OutcomeShape DEF Shapes
  <2>3. ~LockedOut(c)
    BY <2>1 DEF LockedOut
  <2> QED BY <2>1, <2>2, <2>3, LockdownKept
<1>4. ASSUME NEW c \in Calls, Decided(c) PROVE LockdownInv'
  <2>1. /\ seen' = seen /\ stage[c] = "gated"
        /\ \E tag : Stop(c, tag) \/ Run(c, tag)
    BY <1>4 DEF Decided
  <2>2. Shapes' /\ \A x \in Calls \ {c} : stage'[x] = stage[x] /\ audit'[x] = audit[x]
    BY <1>s, <2>1 DEF Stop, Run, Shapes
  <2>3. ~LockedOut(c)
    BY <2>1 DEF LockedOut
  <2> QED BY <2>1, <2>2, <2>3, LockdownKept
<1>5. ASSUME NEW c \in Calls, Finish(c) \/ Elicit(c) \/ Elicited(c) PROVE LockdownInv'
  <2>1. /\ seen' = seen /\ audit' = audit /\ stage[c] # "over"
        /\ \E s : stage' = [stage EXCEPT ![c] = s]
    BY <1>5 DEF Finish, Elicit, Elicited, shared
  <2>2. Shapes' /\ \A x \in Calls \ {c} : stage'[x] = stage[x]
    BY <1>s, <2>1 DEF Shapes
  <2>3. ~LockedOut(c)
    BY <2>1 DEF LockedOut
  <2> QED BY <2>1, <2>2, <2>3, LockdownKept
<1>6. ASSUME NEW c \in Calls, GateResume(c) PROVE LockdownInv'
  BY <1>6, <1>s, LockdownKept DEF GateResume, Shapes
<1>7. ASSUME NEW m \in UserModes, SetMode(m) PROVE LockdownInv'
  BY <1>7, <1>s, LockdownKept DEF SetMode, Shapes
<1>8. ASSUME NEW z \in Scheduled, FireSchedule(z) \/ ScheduleDone(z) PROVE LockdownInv'
  BY <1>8, <1>s, LockdownKept DEF FireSchedule, ScheduleDone, Shapes
<1>9. CASE UNCHANGED allVars
  BY <1>9, <1>s, LockdownKept DEF allVars, gateVars, Shapes
<1> QED
  BY <1>1, <1>2, <1>3, <1>4, <1>5, <1>6, <1>7, <1>8, <1>9 DEF GateNext

\* A call that met plan mode never runs if it mutates, whatever list it is on and
\* however the mode changes later.
THEOREM PlanLocks == GateSpec => []PlanLockdown
<1>1. GateInit => LockdownInv
  BY ToolGateAssumption DEF GateInit, LockdownInv, Shapes, Gated
<1>2. LockdownInv => PlanLockdown
  BY DEF LockdownInv, LockedOut, PlanLockdown, Ran
<1> QED BY <1>1, <1>2, LockdownStep, PTL DEF GateSpec

------------------------------------------------------------------------------
(* What full mode still asks.  A high-risk call that met full mode waits   *)
(* at the gate, was refused, or was allowed there; that a rejection allows *)
(* nothing, and that what is allowed stays so, is a fact of the            *)
(* controllers, also when calls share a correlation id and hosts answer    *)
(* inside their listeners.  The types of the gate follow on the way.       *)

\* The calls pending or listening wait; a decision fits the kind of its call, a wait
\* is over with one only, and a rejection allows nothing.
PendingWait == \A k \in Keys : pending[k] # NoCall =>
                 KeyOf[pending[k]] = k /\ call[pending[k]] = "waiting"
ListenersHeld == \A c \in listening : call[c] = "waiting"
DecisionsFit ==
  \A c \in Calls : /\ decision[c] \in Decisions(c) \cup {"none", "granted"}
                   /\ call[c] = "allowed" => decision[c] # "reject"
                   /\ call[c] \in {"settled", "allowed"} => decision[c] # "none"

SettleInv == TypeOK /\ PendingWait /\ ListenersHeld /\ DecisionsFit

\* Calls with one correlation id are offered the same decisions.
LEMMA SameDecisions ==
  ASSUME NEW c \in Calls, NEW p \in Calls, KeyOf[p] = KeyOf[c]
  PROVE  Decisions(p) = Decisions(c)
BY PromptsAssumption DEF Decisions

\* Every call may be rejected.
LEMMA RejectFits == ASSUME NEW c \in Calls PROVE "reject" \in Decisions(c)
BY DEF Decisions

\* Asking settles at most the call that waits under the same id.
LEMMA GateSettles ==
  ASSUME SettleInv, NEW c \in Calls, Gate(c)
  PROVE  /\ (PendingWait /\ ListenersHeld /\ DecisionsFit)'
         /\ \A x \in Calls : call[x] = "allowed" => call'[x] = "allowed"
<1>t. /\ call \in [Calls -> {"new", "waiting", "settled", "allowed", "refused"}]
      /\ pending \in [Keys -> Calls \cup {NoCall}]
      /\ decision \in [Calls -> AllDecisions \cup {"none", "granted"}]
      /\ listening \subseteq Calls /\ KeyOf[c] \in Keys /\ NoCall \notin Calls
  BY PromptsAssumption DEF SettleInv, TypeOK
<1>n. call[c] = "new"
  BY DEF Gate
<1>1. CASE AutoAllow(c) \/ RefuseAborted(c)
  <2>1. \E s \in {"allowed", "refused"} : call' = [call EXCEPT ![c] = s]
    BY <1>1 DEF AutoAllow, RefuseAborted
  <2>2. pending' = pending /\ listening' = listening
    BY <1>1 DEF AutoAllow, RefuseAborted
  <2>3. \/ call'[c] = "allowed" /\ decision' = [decision EXCEPT ![c] = "granted"]
        \/ call'[c] = "refused" /\ decision' = [decision EXCEPT ![c] = "reject"]
    BY <1>1, <1>t DEF AutoAllow, RefuseAborted
  <2>4. (PendingWait /\ ListenersHeld)'
    BY <1>n, <1>t, <2>1, <2>2 DEF PendingWait, ListenersHeld, SettleInv
  <2>5. DecisionsFit'
    BY <1>t, <2>1, <2>3, RejectFits DEF DecisionsFit, SettleInv, Decisions
  <2> QED BY <1>n, <1>t, <2>1, <2>4, <2>5
<1>2. CASE Suspend(c)
  <2> DEFINE early == IF c \in Eager THEN pending[KeyOf[c]] ELSE NoCall
  <2>1. PICK d \in Decisions(c) :
          /\ call' = [x \in Calls |-> IF x = c THEN "waiting"
                                      ELSE IF x = early THEN "settled" ELSE call[x]]
          /\ decision' = [x \in Calls |-> IF x = early THEN d ELSE decision[x]]
          /\ listening' = (listening \ {early}) \cup {c}
    BY <1>2 DEF Suspend
  <2>2. pending' = [pending EXCEPT ![KeyOf[c]] = c]
    BY <1>2 DEF Suspend
  <2>3. early = NoCall \/ (early \in Calls /\ early = pending[KeyOf[c]]
                           /\ call[early] = "waiting" /\ KeyOf[early] = KeyOf[c])
    BY <1>t DEF SettleInv, PendingWait
  <2>4. \A x \in Calls \ {c} : x # early => call'[x] = call[x]
    BY <2>1
  <2>5. PendingWait'
    BY <1>t, <2>1, <2>2, <2>3, <2>4 DEF PendingWait, SettleInv
  <2>6. ListenersHeld'
    BY <1>t, <2>1, <2>4 DEF ListenersHeld, SettleInv
  <2>7. \A x \in Calls : call[x] = "allowed" <=> call'[x] = "allowed"
    BY <1>n, <1>t, <2>1, <2>3
  <2>8. \A x \in Calls : \/ decision'[x] = decision[x]
                         \/ x = early /\ decision'[x] = d /\ call'[x] # "allowed"
    BY <2>1
  <2>9. early \in Calls => Decisions(early) = Decisions(c)
    BY <2>3, SameDecisions, <1>t
  <2>10. \A x \in Calls : call'[x] \in {"settled", "allowed"} =>
           call[x] \in {"settled", "allowed"} \/ decision'[x] = d
    BY <1>t, <2>1, <2>3
  <2>11. DecisionsFit'
    <3> SUFFICES ASSUME NEW x \in Calls
                 PROVE  /\ decision'[x] \in Decisions(x) \cup {"none", "granted"}
                        /\ call'[x] = "allowed" => decision'[x] # "reject"
                        /\ call'[x] \in {"settled", "allowed"} => decision'[x] # "none"
      BY DEF DecisionsFit, Decisions
    <3>1. d # "none"
      BY DEF Decisions
    <3>2. /\ decision[x] \in Decisions(x) \cup {"none", "granted"}
          /\ call[x] = "allowed" => decision[x] # "reject"
          /\ call[x] \in {"settled", "allowed"} => decision[x] # "none"
      BY DEF SettleInv, DecisionsFit
    <3>3. CASE decision'[x] = decision[x]
      BY <3>1, <3>2, <3>3, <2>7, <2>10
    <3>4. CASE x = early /\ decision'[x] = d /\ call'[x] # "allowed"
      BY <3>1, <3>4, <2>9
    <3> QED BY <3>3, <3>4, <2>8
  <2> QED BY <2>5, <2>6, <2>7, <2>11
<1> QED BY <1>1, <1>2 DEF Gate

\* Signals settle waiting calls, and reject them.
LEMMA SignalsSettle ==
  ASSUME SettleInv, NEW S \in SUBSET Runs, NEW all \in BOOLEAN, FireSignals(S, all)
  PROVE  /\ (PendingWait /\ ListenersHeld /\ DecisionsFit)'
         /\ \A x \in Calls : call[x] = "allowed" => call'[x] = "allowed"
<1>t. /\ call \in [Calls -> {"new", "waiting", "settled", "allowed", "refused"}]
      /\ pending \in [Keys -> Calls \cup {NoCall}]
      /\ listening \subseteq Calls /\ NoCall \notin Calls
  BY PromptsAssumption DEF SettleInv, TypeOK
<1>1. PICK W \in Winners(S) :
        LET cleared == {KeyOf[w] : w \in W}
            left    == {pending[k] : k \in Keys \ cleared} \ {NoCall}
            over    == W \cup (IF all THEN left ELSE {})
        IN  /\ pending' = [k \in Keys |-> IF all \/ k \in cleared THEN NoCall ELSE pending[k]]
            /\ listening' = {c \in listening \ over : RunOf[c] \notin S}
            /\ call' = [c \in Calls |-> IF c \in over THEN "settled" ELSE call[c]]
            /\ decision' = [c \in Calls |-> IF c \in over THEN "reject" ELSE decision[c]]
  BY DEF FireSignals
<1> DEFINE cleared == {KeyOf[w] : w \in W}
           left    == {pending[k] : k \in Keys \ cleared} \ {NoCall}
           over    == W \cup (IF all THEN left ELSE {})
<1>2. W \subseteq listening
  BY DEF Winners
<1>3. \A x \in over : x \in Calls /\ call[x] = "waiting"
  BY <1>t, <1>2 DEF SettleInv, PendingWait, ListenersHeld
<1>4. PendingWait'
  <2> SUFFICES ASSUME NEW k \in Keys, pending'[k] # NoCall
               PROVE  KeyOf[pending'[k]] = k /\ call'[pending'[k]] = "waiting"
    BY DEF PendingWait
  <2>1. ~all /\ k \notin cleared /\ pending'[k] = pending[k]
    BY <1>1
  <2>2. KeyOf[pending[k]] = k /\ call[pending[k]] = "waiting" /\ pending[k] \in Calls
    BY <1>t, <2>1 DEF SettleInv, PendingWait
  <2>3. pending[k] \notin over
    BY <2>1, <2>2
  <2> QED BY <1>1, <2>1, <2>2, <2>3
<1>5. ListenersHeld'
  BY <1>1, <1>t DEF ListenersHeld, SettleInv
<1>6. \A x \in Calls : call'[x] = "allowed" <=> call[x] = "allowed"
  BY <1>1, <1>3
<1>7. \A x \in Calls : \/ decision'[x] = decision[x]
                       \/ decision'[x] = "reject" /\ call'[x] # "allowed"
  BY <1>1
<1>8. \A x \in Calls : call'[x] \in {"settled", "allowed"} =>
        call[x] \in {"settled", "allowed"} \/ decision'[x] = "reject"
  BY <1>1
<1>9. DecisionsFit'
  <2> SUFFICES ASSUME NEW x \in Calls
               PROVE  /\ decision'[x] \in Decisions(x) \cup {"none", "granted"}
                      /\ call'[x] = "allowed" => decision'[x] # "reject"
                      /\ call'[x] \in {"settled", "allowed"} => decision'[x] # "none"
    BY DEF DecisionsFit, Decisions
  <2>1. /\ decision[x] \in Decisions(x) \cup {"none", "granted"}
        /\ call[x] = "allowed" => decision[x] # "reject"
        /\ call[x] \in {"settled", "allowed"} => decision[x] # "none"
    BY DEF SettleInv, DecisionsFit
  <2>2. CASE decision'[x] = decision[x]
    BY <2>1, <2>2, <1>6, <1>8
  <2>3. CASE decision'[x] = "reject" /\ call'[x] # "allowed"
    BY <2>3, RejectFits
  <2> QED BY <2>2, <2>3, <1>7
<1> QED BY <1>4, <1>5, <1>6, <1>9

\* Every step keeps what is said of pending calls and decisions, and a call that is
\* allowed stays allowed.
LEMMA SettleStep ==
  ASSUME SettleInv, [Next]_vars
  PROVE  SettleInv' /\ \A x \in Calls : call[x] = "allowed" => call'[x] = "allowed"
<1> DEFINE Kept == /\ (PendingWait /\ ListenersHeld /\ DecisionsFit)'
                   /\ \A x \in Calls : call[x] = "allowed" => call'[x] = "allowed"
<1>t. /\ call \in [Calls -> {"new", "waiting", "settled", "allowed", "refused"}]
      /\ pending \in [Keys -> Calls \cup {NoCall}]
      /\ decision \in [Calls -> AllDecisions \cup {"none", "granted"}]
      /\ listening \subseteq Calls /\ NoCall \notin Calls
  BY PromptsAssumption DEF SettleInv, TypeOK
<1>u. ASSUME UNCHANGED <<pending, listening, call, decision>> PROVE Kept
  BY <1>u DEF SettleInv, PendingWait, ListenersHeld, DecisionsFit, Decisions
<1>1. ASSUME NEW r \in Roots, StartTurn(r) PROVE Kept
  BY <1>1, <1>u DEF StartTurn
<1>2. ASSUME NEW r \in Roots, Abort(r) PROVE Kept
  <2>1. TreeOf(r) \in SUBSET Runs /\ (r = ActiveRun) \in BOOLEAN
    BY DEF TreeOf
  <2>2. FireSignals(TreeOf(r), r = ActiveRun)
    BY <1>2 DEF Abort
  <2> QED BY <2>1, <2>2, SignalsSettle
<1>3. ASSUME NEW s \in Subs, Spawn(s) PROVE Kept
  BY <1>3, <1>u DEF Spawn
<1>4. ASSUME NEW s \in Subs, Timeout(s) PROVE Kept
  <2>1. {s} \in SUBSET Runs /\ FireSignals({s}, FALSE)
    BY <1>4 DEF Timeout, Runs
  <2> QED BY <2>1, SignalsSettle
<1>5. ASSUME EndTurn PROVE Kept
  BY <1>5, <1>u DEF EndTurn
<1>6. ASSUME NEW S \in SUBSET PreScopes, PreGrant(S) PROVE Kept
  BY <1>6, <1>u DEF PreGrant
<1>7. ASSUME NEW c \in Calls, Gate(c) PROVE Kept
  BY <1>7, GateSettles
<1>8. ASSUME NEW c \in Calls, Resume(c) PROVE Kept
  <2>1. /\ call[c] = "settled" /\ pending' = pending /\ listening' = listening
        /\ decision' = decision
        /\ call' = [call EXCEPT ![c] = IF decision[c] = "reject" THEN "refused" ELSE "allowed"]
    BY <1>8 DEF Resume
  <2>2. (PendingWait /\ ListenersHeld)'
    BY <1>t, <2>1 DEF SettleInv, PendingWait, ListenersHeld
  <2>3. DecisionsFit'
    BY <1>t, <2>1 DEF SettleInv, DecisionsFit, Decisions
  <2> QED BY <1>t, <2>1, <2>2, <2>3
<1>9. ASSUME NEW c \in Calls, NEW d \in Decisions(c), Answer(c, d) PROVE Kept
  <2> DEFINE p == pending[KeyOf[c]]
  <2>1. CASE p = NoCall
    BY <1>9, <1>u, <2>1 DEF Answer
  <2>2. CASE p # NoCall
    <3>1. /\ pending' = [pending EXCEPT ![KeyOf[c]] = NoCall]
          /\ listening' = listening \ {p}
          /\ call' = [call EXCEPT ![p] = "settled"]
          /\ decision' = [decision EXCEPT ![p] = d]
      BY <1>9, <2>2 DEF Answer
    <3>2. /\ KeyOf[c] \in Keys /\ p \in Calls /\ KeyOf[p] = KeyOf[c]
          /\ call[p] = "waiting"
      BY <1>t, <2>2, PromptsAssumption DEF SettleInv, PendingWait
    <3>3. PendingWait'
      BY <1>t, <3>1, <3>2 DEF SettleInv, PendingWait
    <3>4. ListenersHeld'
      BY <1>t, <3>1, <3>2 DEF SettleInv, ListenersHeld
    <3>5. Decisions(p) = Decisions(c)
      BY <3>2, SameDecisions
    <3>6. DecisionsFit'
      BY <1>t, <3>1, <3>2, <3>5 DEF SettleInv, DecisionsFit, Decisions
    <3> QED BY <1>t, <3>1, <3>2, <3>3, <3>4, <3>6
  <2> QED BY <2>1, <2>2
<1>10. ASSUME UNCHANGED vars PROVE Kept
  BY <1>10, <1>u DEF vars
<1>11. Kept
  BY <1>1, <1>2, <1>3, <1>4, <1>5, <1>6, <1>7, <1>8, <1>9, <1>10 DEF Next
<1>12. TypeOK'
  BY NextType DEF SettleInv
<1> QED BY <1>11, <1>12 DEF SettleInv

------------------------------------------------------------------------------
(* The gate.                                                               *)

\* A tag that Decided writes is a tag.
LEMMA DecidedTag ==
  ASSUME DecisionsFit, NEW c \in Gated
  PROVE  decision[c] # "granted" => decision[c] \in Tags
<1>1. c \in Calls /\ Kind[c] = "approval"
  BY DEF Gated
<1>2. Decisions(c) = {"once", "session", "reject"}
  BY <1>1 DEF Decisions
<1> QED BY <1>1, <1>2 DEF DecisionsFit, Tags

\* Every way a decision goes on keeps the types.
LEMMA OutcomeType ==
  ASSUME GateTypeOK, NEW c \in Calls,
         Interactive(c) \/ Classify(c) \/ \E tag \in Tags : Stop(c, tag) \/ Run(c, tag)
  PROVE  /\ stage' \in [Calls -> {"idle", "classifying", "gated", "running", "over", "threw"}]
         /\ audit' \in [Calls -> Tags]
<1>1. /\ \E s \in {"classifying", "gated", "running", "over"} : stage' = [stage EXCEPT ![c] = s]
      /\ audit' = audit \/ \E tag \in Tags : audit' = [audit EXCEPT ![c] = tag]
  BY DEF Interactive, Ask, DenyUnattended, Classify, Stop, Run, Tags
<1> QED BY <1>1 DEF GateTypeOK

\* No step of the gate leaves its types.
LEMMA GateTypeStep ==
  ASSUME GateTypeOK, DecisionsFit, [GateNext]_allVars
  PROVE  GateTypeOK'
<1>1. ASSUME RunStep PROVE GateTypeOK'
  BY <1>1 DEF RunStep, gateVars, GateTypeOK
<1>2. ASSUME NEW c \in Calls, Start(c) PROVE GateTypeOK'
  <2>1. Interactive(c) \/ Classify(c) \/ \E tag \in Tags : Stop(c, tag) \/ Run(c, tag)
    BY <1>2 DEF Start, Tags
  <2> QED BY <1>2, <2>1, OutcomeType DEF Start, shared, GateTypeOK
<1>3. ASSUME NEW c \in Calls, NEW v \in Verdicts, Classified(c, v) PROVE GateTypeOK'
  <2>1. Interactive(c) \/ Classify(c) \/ \E tag \in Tags : Stop(c, tag) \/ Run(c, tag)
    BY <1>3 DEF Classified, Tags
  <2> QED BY <1>3, <2>1, OutcomeType DEF Classified, shared, GateTypeOK
<1>4. ASSUME NEW c \in Calls, Decided(c) PROVE GateTypeOK'
  <2>1. \E tag \in Tags : Stop(c, tag) \/ Run(c, tag)
    <3>1. "reject" \in Tags /\ "session-auto" \in Tags
      BY DEF Tags
    <3>2. (IF decision[c] = "granted" THEN "session-auto" ELSE decision[c]) \in Tags
      BY <1>4, <3>1, DecidedTag DEF Decided
    <3> QED BY <1>4, <3>1, <3>2 DEF Decided
  <2> QED BY <1>4, <2>1, OutcomeType DEF Decided, shared, GateTypeOK
<1>5. ASSUME NEW c \in Calls, Finish(c) \/ Elicit(c) \/ Elicited(c) PROVE GateTypeOK'
  BY <1>5 DEF Finish, Elicit, Elicited, shared, GateTypeOK
<1>6. ASSUME NEW c \in Calls, GateResume(c) PROVE GateTypeOK'
  BY <1>6, ToolGateAssumption DEF GateResume, GateTypeOK, Modes
<1>7. ASSUME NEW m \in UserModes, SetMode(m) PROVE GateTypeOK'
  BY <1>7, ToolGateAssumption DEF SetMode, GateTypeOK
<1>8. ASSUME NEW z \in Scheduled, FireSchedule(z) \/ ScheduleDone(z) PROVE GateTypeOK'
  <2>1. ScheduleMode[z] \in Modes
    BY ToolGateAssumption
  <2>2. /\ mode' \in {mode, ScheduleMode[z]} /\ unattended' \in BOOLEAN
        /\ \E s \in {"fired", "done"} : schedule' = [schedule EXCEPT ![z] = s]
        /\ UNCHANGED <<stage, seen, verdict, audit>>
    BY <1>8 DEF FireSchedule, ScheduleDone
  <2> QED BY <2>1, <2>2 DEF GateTypeOK
<1>9. CASE UNCHANGED allVars
  BY <1>9 DEF allVars, gateVars, GateTypeOK
<1> QED
  BY <1>1, <1>2, <1>3, <1>4, <1>5, <1>6, <1>7, <1>8, <1>9 DEF GateNext

\* What becomes of a high-risk call that met full mode.
Sorted(c) ==
  \/ stage[c] = "gated"
  \/ stage[c] = "over" /\ audit[c] \in {"denied-policy", "auto-deny", "reject"}
  \/ stage[c] \in {"running", "over", "threw"} /\ call[c] = "allowed"

AskedInFull == \A c \in HighRisk \ AllowListed : seen[c] = "full" => Sorted(c)

GateInv == SettleInv /\ GateTypeOK /\ AskedInFull

\* A step that changes nothing of sorted calls but lets them be allowed keeps them.
LEMMA SortedKept ==
  ASSUME GateInv, [Next]_vars, NEW x \in Calls, stage'[x] = stage[x], audit'[x] = audit[x]
  PROVE  Sorted(x) => Sorted(x)'
BY SettleStep DEF GateInv, Sorted

\* No step runs a high-risk call that met full mode, unless it was allowed at the gate.
LEMMA FullModeStep ==
  ASSUME GateInv, [GateNext]_allVars
  PROVE  AskedInFull'
<1>n. [Next]_vars
  BY StepRefines
<1>h. HighRisk \subseteq Calls /\ HighRisk \subseteq Gated
  BY ToolGateAssumption DEF Gated
<1>t. /\ stage \in [Calls -> {"idle", "classifying", "gated", "running", "over", "threw"}]
      /\ audit \in [Calls -> Tags] /\ seen \in [Calls -> Modes \cup {"none"}]
  BY DEF GateInv, GateTypeOK
<1>u. ASSUME UNCHANGED <<stage, audit, seen>> PROVE AskedInFull'
  BY <1>u, <1>n, <1>h, SortedKept DEF GateInv, AskedInFull
<1>o. ASSUME NEW c \in Calls,
             \A x \in Calls \ {c} : /\ stage'[x] = stage[x] /\ audit'[x] = audit[x]
                                    /\ seen'[x] = seen[x],
             c \in HighRisk \ AllowListed /\ seen'[c] = "full" => Sorted(c)'
      PROVE  AskedInFull'
  BY <1>o, <1>n, <1>h, SortedKept DEF GateInv, AskedInFull
<1>1. ASSUME RunStep PROVE AskedInFull'
  BY <1>1, <1>u DEF RunStep, gateVars
<1>2. ASSUME NEW c \in Calls, Start(c) PROVE AskedInFull'
  <2>1. /\ seen' = [seen EXCEPT ![c] = mode]
        /\ Interactive(c) \/ Classify(c) \/ \E tag : Stop(c, tag) \/ Run(c, tag)
    BY <1>2 DEF Start
  <2>2. \A x \in Calls \ {c} : /\ stage'[x] = stage[x] /\ audit'[x] = audit[x]
                               /\ seen'[x] = seen[x]
    BY <1>t, <2>1, OutcomeShape DEF Shapes
  <2>3. c \in HighRisk \ AllowListed /\ mode = "full" => Sorted(c)'
    <3> SUFFICES ASSUME c \in HighRisk, c \notin AllowListed, mode = "full" PROVE Sorted(c)'
      OBVIOUS
    <3>1. Stop(c, "denied-policy") \/ Interactive(c)
      BY <1>2 DEF Start, Locked, FastPath, FullRuns, AutoJudges
    <3> QED BY <1>t, <3>1 DEF Stop, Interactive, Ask, DenyUnattended, Sorted
  <2>4. seen'[c] = mode
    BY <1>t, <2>1
  <2> QED BY <1>o, <2>2, <2>3, <2>4
<1>3. ASSUME NEW c \in Calls, NEW v \in Verdicts, Classified(c, v) PROVE AskedInFull'
  <2>1. /\ seen' = seen /\ stage[c] = "classifying"
        /\ Interactive(c) \/ Classify(c) \/ \E tag : Stop(c, tag) \/ Run(c, tag)
    BY <1>3 DEF Classified
  <2>2. \A x \in Calls \ {c} : stage'[x] = stage[x] /\ audit'[x] = audit[x]
    BY <1>t, <2>1, OutcomeShape DEF Shapes
  <2>3. ~(c \in HighRisk \ AllowListed /\ seen[c] = "full")
    BY <2>1 DEF GateInv, AskedInFull, Sorted
  <2> QED BY <1>o, <2>1, <2>2, <2>3
<1>4. ASSUME NEW c \in Calls, Decided(c) PROVE AskedInFull'
  <2>1. seen' = seen
    BY <1>4 DEF Decided
  <2>2. \/ Stop(c, "reject")
        \/ call[c] = "allowed" /\ call' = call /\ \E tag : Run(c, tag)
    BY <1>4 DEF Decided, Run, vars
  <2>3. \A x \in Calls \ {c} : stage'[x] = stage[x] /\ audit'[x] = audit[x]
    BY <1>t, <2>2 DEF Stop, Run
  <2>4. Sorted(c)'
    BY <1>t, <2>2 DEF Stop, Run, Sorted
  <2> QED BY <1>o, <2>1, <2>3, <2>4
<1>5. ASSUME NEW c \in Calls, Finish(c) PROVE AskedInFull'
  <2>1. /\ seen' = seen /\ audit' = audit /\ call' = call /\ stage[c] = "running"
        /\ \E end \in {"over", "threw"} : stage' = [stage EXCEPT ![c] = end]
    BY <1>5 DEF Finish, vars
  <2>2. c \in HighRisk \ AllowListed /\ seen[c] = "full" => call[c] = "allowed"
    BY <2>1 DEF GateInv, AskedInFull, Sorted
  <2>3. call[c] = "allowed" => Sorted(c)'
    BY <1>t, <2>1 DEF Sorted
  <2>4. \A x \in Calls \ {c} : stage'[x] = stage[x]
    BY <1>t, <2>1
  <2> QED BY <1>o, <2>1, <2>2, <2>3, <2>4
<1>6. ASSUME NEW c \in Calls, Elicit(c) \/ Elicited(c) PROVE AskedInFull'
  <2>1. /\ seen' = seen /\ audit' = audit /\ c \notin Gated
        /\ \E s : stage' = [stage EXCEPT ![c] = s]
    BY <1>6 DEF Elicit, Elicited
  <2>2. \A x \in Calls \ {c} : stage'[x] = stage[x]
    BY <1>t, <2>1
  <2> QED BY <1>h, <1>o, <2>1, <2>2
<1>7. ASSUME NEW c \in Calls, GateResume(c) PROVE AskedInFull'
  BY <1>7, <1>u DEF GateResume
<1>8. ASSUME NEW m \in UserModes, SetMode(m) PROVE AskedInFull'
  BY <1>8, <1>u DEF SetMode
<1>9. ASSUME NEW z \in Scheduled, FireSchedule(z) \/ ScheduleDone(z) PROVE AskedInFull'
  BY <1>9, <1>u DEF FireSchedule, ScheduleDone
<1>10. CASE UNCHANGED allVars
  BY <1>10, <1>u DEF allVars, gateVars
<1> QED
  BY <1>1, <1>2, <1>3, <1>4, <1>5, <1>6, <1>7, <1>8, <1>9, <1>10 DEF GateNext

\* The invariant holds at the start and is kept.
LEMMA GateInvariant == GateSpec => []GateInv
<1>1. GateInit => GateInv
  <2> SUFFICES ASSUME GateInit PROVE GateInv
    OBVIOUS
  <2>1. SettleInv
    BY InitType DEF GateInit, Init, SettleInv, PendingWait, ListenersHeld, DecisionsFit
  <2>2. GateTypeOK
    BY ToolGateAssumption DEF GateInit, GateTypeOK, Tags
  <2>3. AskedInFull
    BY ToolGateAssumption DEF GateInit, AskedInFull, Gated
  <2> QED BY <2>1, <2>2, <2>3 DEF GateInv
<1>2. GateInv /\ [GateNext]_allVars => GateInv'
  <2> SUFFICES ASSUME GateInv, [GateNext]_allVars PROVE GateInv'
    OBVIOUS
  <2>1. SettleInv'
    BY StepRefines, SettleStep DEF GateInv
  <2>2. GateTypeOK'
    BY GateTypeStep DEF GateInv, SettleInv
  <2> QED BY <2>1, <2>2, FullModeStep DEF GateInv
<1> QED BY <1>1, <1>2, PTL DEF GateSpec

\* Mode, flag, schedules and the record of every call keep their types.
THEOREM GateTypeCorrect == GateSpec => []GateTypeOK
<1>1. GateInv => GateTypeOK
  BY DEF GateInv
<1> QED BY <1>1, GateInvariant, PTL

\* What a call that was allowed at the gate was allowed with.
LEMMA AllowedWith ==
  ASSUME SettleInv, NEW c \in Calls, Kind[c] = "approval", call[c] = "allowed"
  PROVE  decision[c] \in {"once", "session", "granted"}
BY DEF SettleInv, DecisionsFit, Decisions

\* A high-risk call that met full mode ran only after the gate allowed it, either
\* with the answer to its own prompt or under a human's grant that reaches its
\* agent, whatever modes, grants and schedules do meanwhile.
THEOREM FullModeAsks == GateSpec => []FullModeStillAsks
<1>1. GateInv /\ HumanAuthority => FullModeStillAsks
  <2> SUFFICES ASSUME GateInv, HumanAuthority,
                      NEW c \in HighRisk \ AllowListed, seen[c] = "full", Ran(c)
               PROVE  /\ call[c] = "allowed"
                      /\ \/ decision[c] \in {"once", "session"}
                         \/ /\ decision[c] = "granted"
                            /\ \E a \in authority :
                                 /\ a.scope = ScopeOf[c]
                                 /\ a.scoped => \/ a.agent = AgentOf(c)
                                                \/ a.agent = Orch /\ AgentOf(c) \in Inherit
    BY DEF FullModeStillAsks
  <2>1. c \in Calls /\ Kind[c] = "approval"
    BY ToolGateAssumption DEF Gated
  <2>2. call[c] = "allowed"
    BY <2>1 DEF GateInv, AskedInFull, Sorted, Ran
  <2>3. decision[c] \in {"once", "session", "granted"}
    BY <2>1, <2>2, AllowedWith DEF GateInv
  <2> QED BY <2>1, <2>2, <2>3 DEF HumanAuthority
<1> QED BY <1>1, GateInvariant, GateAuthorityIsHuman, PTL
------------------------------------------------------------------------------
(* The unattended rule.  A call asks only while its turn drives, and a      *)
(* scheduled turn drives only between its fire and its completion; the flag *)
(* stands for as long if no other fire of the session ends in between.      *)

\* One fire at a time in a session: the scheduler awaits each fire before the next.
\* (A manual run beside a scheduled one would clear the flag under it.)
OneFire == \A y, z \in Scheduled : schedule[y] = "fired" /\ schedule[z] = "fired" => y = z

\* A scheduled turn drives only while its fire is under way, and that sets the flag.
FireCovers ==
  /\ driving \in Scheduled => schedule[driving] = "fired" /\ driving \notin ended
  /\ \A z \in Scheduled : /\ schedule[z] = "fired" => unattended
                          /\ schedule[z] = "done" => z \in ended \cup aborted
  /\ schedule \in [Scheduled -> {"idle", "fired", "done"}] /\ unattended \in BOOLEAN

FailClosedInv == FireCovers /\ ScheduledGateFailsClosed

\* The one way to a prompt is closed while the flag stands.
LEMMA InteractiveClosed ==
  ASSUME FailClosedInv, NEW c \in Calls, Interactive(c)
  PROVE  ScheduledGateFailsClosed'
<1>1. CASE UNCHANGED vars
  BY <1>1 DEF vars, FailClosedInv, ScheduledGateFailsClosed
<1>2. CASE Ask(c)
  <2>1. Gate(c) /\ (~unattended \/ Granted(c)) /\ RootOf(RunOf[c]) = driving
    BY <1>2 DEF Ask, Gate, Running
  <2>2. ASSUME Suspend(c) PROVE ScheduledGateFailsClosed'
    <3>1. c \in Gated => ~Granted(c)
      BY <2>2 DEF Suspend, Gated
    <3>2. c \in Gated => driving \notin Scheduled
      BY <2>1, <3>1 DEF FailClosedInv, FireCovers
    <3>3. \E v : prompt' = [prompt EXCEPT ![c] = v]
      BY <2>2 DEF Suspend
    <3> QED BY <2>1, <3>2, <3>3 DEF FailClosedInv, ScheduledGateFailsClosed
  <2>3. ASSUME prompt' = prompt PROVE ScheduledGateFailsClosed'
    BY <2>3 DEF FailClosedInv, ScheduledGateFailsClosed
  <2> QED BY <2>1, <2>2, <2>3 DEF Gate, AutoAllow, RefuseAborted
<1> QED BY <1>1, <1>2 DEF Interactive, DenyUnattended

\* A decision leaves the turns and the fires alone.
LEMMA InteractiveAside ==
  ASSUME NEW c, Interactive(c) \/ Classify(c) \/ \E tag : Stop(c, tag) \/ Run(c, tag)
  PROVE  UNCHANGED <<driving, ended, aborted>>
BY DEF Interactive, Ask, DenyUnattended, Gate, runVars, vars, Classify, Stop, Run

\* No step of the gate puts a call of a scheduled turn before a human.
LEMMA FailClosedStep ==
  ASSUME GateInv, FailClosedInv, OneFire, OneFire', [GateNext]_allVars
  PROVE  FailClosedInv'
<1>t. prompt \in [Calls -> {"none", "asked", "answered"}]
  BY DEF GateInv, SettleInv, TypeOK
<1>u. ASSUME driving' = driving, ended' = ended, aborted \subseteq aborted', UNCHANGED <<schedule, unattended>>
      PROVE  FireCovers'
  BY <1>u DEF FailClosedInv, FireCovers
<1>p. ASSUME prompt' = prompt PROVE ScheduledGateFailsClosed'
  BY <1>p DEF FailClosedInv, ScheduledGateFailsClosed
<1>1. ASSUME RunStep PROVE FailClosedInv'
  <2>0. UNCHANGED <<mode, unattended, schedule>>
    BY <1>1 DEF RunStep, gateVars
  <2>1. ASSUME NEW r \in Roots, Sent(r), StartTurn(r) PROVE FailClosedInv'
    <3>1. driving' = r /\ ended' = ended /\ aborted' = aborted /\ prompt' = prompt /\ r \notin ended \cup aborted
      BY <2>1 DEF StartTurn
    <3>2. r \in Scheduled => schedule[r] = "fired"
      BY <2>1, <3>1 DEF Sent, FailClosedInv, FireCovers
    <3>3. FireCovers'
      BY <2>0, <3>1, <3>2 DEF FailClosedInv, FireCovers
    <3> QED BY <3>1, <3>3, <1>p DEF FailClosedInv
  <2>2. ASSUME NEW r \in Roots, Abort(r) PROVE FailClosedInv'
    BY <2>0, <2>2, <1>u, <1>p DEF Abort, FireSignals, FailClosedInv
  <2>3. ASSUME NEW s \in Subs, Spawn(s) PROVE FailClosedInv'
    BY <2>0, <2>3, <1>u, <1>p DEF Spawn, FailClosedInv
  <2>4. ASSUME NEW s \in Subs, Timeout(s) PROVE FailClosedInv'
    BY <2>0, <2>4, <1>u, <1>p DEF Timeout, FireSignals, FailClosedInv
  <2>5. ASSUME EndTurn PROVE FailClosedInv'
    <3>1. driving' = NoRun /\ ended \subseteq ended' /\ aborted' = aborted /\ prompt' = prompt
      BY <2>5 DEF EndTurn
    <3>2. NoRun \notin Scheduled
      BY PromptsAssumption, ToolGateAssumption DEF Runs
    <3>3. FireCovers'
      BY <2>0, <3>1, <3>2 DEF FailClosedInv, FireCovers
    <3> QED BY <3>1, <3>3, <1>p DEF FailClosedInv
  <2>6. ASSUME NEW c \in Calls, NEW d \in Decisions(c), Answer(c, d) PROVE FailClosedInv'
    <3>1. FireCovers'
      BY <2>0, <2>6, <1>u DEF Answer, runVars
    <3>2. prompt[c] # "none" /\ prompt' = [prompt EXCEPT ![c] = "answered"]
      BY <2>6 DEF Answer
    <3>3. ScheduledGateFailsClosed'
      BY <3>2 DEF FailClosedInv, ScheduledGateFailsClosed
    <3> QED BY <3>1, <3>3 DEF FailClosedInv
  <2> QED BY <1>1, <2>1, <2>2, <2>3, <2>4, <2>5, <2>6 DEF RunStep
<1>2. ASSUME NEW c \in Calls, Start(c) PROVE FailClosedInv'
  <2>1. UNCHANGED shared
        /\ (Interactive(c) \/ Classify(c) \/ \E tag : Stop(c, tag) \/ Run(c, tag))
    BY <1>2 DEF Start
  <2>2. FireCovers'
    BY <2>1, InteractiveAside, <1>u DEF shared
  <2>3. ScheduledGateFailsClosed'
    BY <2>1, InteractiveClosed, <1>p DEF Classify, Stop, Run, vars
  <2> QED BY <2>2, <2>3 DEF FailClosedInv
<1>3. ASSUME NEW c \in Calls, NEW v \in Verdicts, Classified(c, v) PROVE FailClosedInv'
  <2>1. UNCHANGED shared
        /\ (Interactive(c) \/ Classify(c) \/ \E tag : Stop(c, tag) \/ Run(c, tag))
    BY <1>3 DEF Classified
  <2>2. FireCovers'
    BY <2>1, InteractiveAside, <1>u DEF shared
  <2>3. ScheduledGateFailsClosed'
    BY <2>1, InteractiveClosed, <1>p DEF Classify, Stop, Run, vars
  <2> QED BY <2>2, <2>3 DEF FailClosedInv
<1>4. ASSUME NEW c \in Calls, Decided(c) PROVE FailClosedInv'
  <2>1. UNCHANGED <<schedule, unattended>> /\ UNCHANGED vars
    BY <1>4 DEF Decided, shared, Stop, Run
  <2> QED BY <2>1, <1>u, <1>p DEF vars, FailClosedInv
<1>5. ASSUME NEW c \in Calls, Finish(c) \/ Elicited(c) PROVE FailClosedInv'
  BY <1>5, <1>u, <1>p DEF Finish, Elicited, shared, vars, FailClosedInv
<1>6. ASSUME NEW c \in Calls, Elicit(c) PROVE FailClosedInv'
  <2>1. FireCovers'
    BY <1>6, <1>u DEF Elicit, shared, Gate, runVars
  <2>2. c \notin Gated /\ (prompt' = prompt \/ \E v : prompt' = [prompt EXCEPT ![c] = v])
    BY <1>6 DEF Elicit, Gate, AutoAllow, RefuseAborted, Suspend
  <2>3. ScheduledGateFailsClosed'
    BY <1>t, <2>2 DEF FailClosedInv, ScheduledGateFailsClosed, Gated
  <2> QED BY <2>1, <2>3 DEF FailClosedInv
<1>7. ASSUME NEW c \in Calls, GateResume(c) PROVE FailClosedInv'
  BY <1>7, <1>u, <1>p DEF GateResume, Resume, runVars, FailClosedInv
<1>8. ASSUME NEW m \in UserModes, SetMode(m) PROVE FailClosedInv'
  BY <1>8, <1>u, <1>p DEF SetMode, vars, FailClosedInv
<1>9. ASSUME NEW z \in Scheduled, FireSchedule(z) PROVE FailClosedInv'
  <2>1. /\ schedule[z] = "idle" /\ schedule' = [schedule EXCEPT ![z] = "fired"]
        /\ unattended' = TRUE /\ UNCHANGED <<driving, ended, aborted, prompt>>
    BY <1>9 DEF FireSchedule, PreGrant, runVars
  <2>2. FireCovers'
    BY <2>1 DEF FailClosedInv, FireCovers
  <2> QED BY <2>1, <2>2, <1>p DEF FailClosedInv
<1>10. ASSUME NEW z \in Scheduled, ScheduleDone(z) PROVE FailClosedInv'
  <2>1. /\ schedule[z] = "fired" /\ schedule' = [schedule EXCEPT ![z] = "done"]
        /\ unattended' = FALSE /\ UNCHANGED <<driving, ended, aborted, prompt>>
        /\ z \in ended \/ (z \in aborted /\ z # driving)
    BY <1>10 DEF ScheduleDone, vars, Completed
  <2>2. driving # z
    BY <2>1 DEF FailClosedInv, FireCovers
  <2>3. \A y \in Scheduled : schedule'[y] # "fired"
    BY <2>1 DEF OneFire, FailClosedInv, FireCovers
  <2>4. driving \notin Scheduled
    BY <2>1, <2>2 DEF OneFire, FailClosedInv, FireCovers
  <2>5. FireCovers'
    BY <2>1, <2>3, <2>4 DEF FailClosedInv, FireCovers
  <2> QED BY <2>1, <2>5, <1>p DEF FailClosedInv
<1>11. CASE UNCHANGED allVars
  BY <1>11, <1>u, <1>p DEF allVars, vars, gateVars, FailClosedInv
<1> QED
  BY <1>1, <1>2, <1>3, <1>4, <1>5, <1>6, <1>7, <1>8, <1>9, <1>10, <1>11 DEF GateNext

\* While fires of a session do not overlap, no gated call of a scheduled turn or of
\* its sub-agents is ever put before a human, whatever modes, classifiers, grants
\* and user turns do around it.
THEOREM ScheduleFailsClosed == GateSpec /\ []OneFire => []ScheduledGateFailsClosed
<1>1. GateInit => FailClosedInv
  <2> SUFFICES ASSUME GateInit PROVE FailClosedInv
    OBVIOUS
  <2>1. FireCovers
    BY PromptsAssumption, ToolGateAssumption DEF GateInit, Init, FireCovers, Runs
  <2>2. ScheduledGateFailsClosed
    BY DEF GateInit, Init, ScheduledGateFailsClosed, Gated
  <2> QED BY <2>1, <2>2 DEF FailClosedInv
<1>2. GateInv /\ FailClosedInv /\ OneFire /\ OneFire' /\ [GateNext]_allVars => FailClosedInv'
  BY FailClosedStep
<1>3. FailClosedInv => ScheduledGateFailsClosed
  BY DEF FailClosedInv
<1> QED BY <1>1, <1>2, <1>3, GateInvariant, PTL DEF GateSpec

------------------------------------------------------------------------------
(* What a suspended call can still count on.                               *)

\* A suspended call holds its turn, and if a sub-agent waits on it, that one's timer still
\* runs and its abort would reach the call.
WaiterIsReachable ==
  \A c \in Calls :
    /\ call[c] \in {"waiting", "settled"} => Running(RunOf[c])
    /\ call[c] = "waiting" => RunOf[c] \notin aborted /\ pending[KeyOf[c]] = c /\ c \in listening

\* The runs of suspended calls run.
SuspendedRun == \A c \in Calls : call[c] \in {"waiting", "settled"} => Running(RunOf[c])

\* A call that a step suspends or settles was waiting, or its run runs and asks.
LEMMA SuspendedFrom ==
  ASSUME UniqueKeys, PromptInv, [Next]_vars, NEW c \in Calls, call'[c] \in {"waiting", "settled"}
  PROVE  call[c] \in {"waiting", "settled"} \/ (Running(RunOf[c]) /\ UNCHANGED runVars)
<1>t. /\ call \in [Calls -> {"new", "waiting", "settled", "allowed", "refused"}]
      /\ pending \in [Keys -> Calls \cup {NoCall}] /\ KeyOf \in [Calls -> Keys] /\ NoCall \notin Calls
  BY PromptsAssumption DEF PromptInv, TypeOK
<1>1. ASSUME NEW S \in SUBSET Runs, NEW all \in BOOLEAN, FireSignals(S, all)
      PROVE  call[c] \in {"waiting", "settled"}
  <2>1. PICK W \in Winners(S) :
          call' = [x \in Calls |->
                     IF x \in W \cup (IF all THEN {pending[k] : k \in Keys \ {KeyOf[w] : w \in W}} \ {NoCall}
                                             ELSE {})
                     THEN "settled" ELSE call[x]]
    BY <1>1 DEF FireSignals
  <2>2. W = {x \in Calls : call[x] = "waiting" /\ RunOf[x] \in S}
    BY WinnersAreWaiters
  <2>3. \A k \in Keys : pending[k] # NoCall => call[pending[k]] = "waiting"
    BY DEF PromptInv, EntriesWait
  <2>4. CASE c \in W \cup (IF all THEN {pending[k] : k \in Keys \ {KeyOf[w] : w \in W}} \ {NoCall} ELSE {})
    BY <2>2, <2>3, <2>4
  <2>5. CASE c \notin W \cup (IF all THEN {pending[k] : k \in Keys \ {KeyOf[w] : w \in W}} \ {NoCall} ELSE {})
    BY <2>1, <2>5
  <2> QED BY <2>4, <2>5
<1>2. ASSUME NEW r \in Roots, Abort(r) PROVE call[c] \in {"waiting", "settled"}
  <2>1. TreeOf(r) \in SUBSET Runs /\ (r = ActiveRun) \in BOOLEAN
    BY DEF TreeOf
  <2> QED BY <1>1, <1>2, <2>1 DEF Abort
<1>3. ASSUME NEW s \in Subs, Timeout(s) PROVE call[c] \in {"waiting", "settled"}
  <2>1. {s} \in SUBSET Runs
    BY DEF Runs
  <2> QED BY <1>1, <1>3, <2>1 DEF Timeout
<1>4. ASSUME NEW g \in Calls, Gate(g)
      PROVE  call[c] \in {"waiting", "settled"} \/ (Running(RunOf[c]) /\ UNCHANGED runVars)
  <2>1. call[g] = "new" /\ Running(RunOf[g]) /\ UNCHANGED runVars
    BY <1>4 DEF Gate
  <2>2. \A x \in Calls : x # g => call'[x] = call[x]
    BY <1>4, <1>t, <2>1, SuspendWaits DEF Gate, AutoAllow, RefuseAborted
  <2> QED BY <2>1, <2>2
<1>5. ASSUME NEW g \in Calls, NEW d \in Decisions(g), Answer(g, d) PROVE call[c] \in {"waiting", "settled"}
  <2>1. CASE pending[KeyOf[g]] = NoCall
    BY <1>5, <2>1 DEF Answer
  <2>2. CASE pending[KeyOf[g]] # NoCall
    <3>1. call[pending[KeyOf[g]]] = "waiting"
      BY <1>t, <2>2 DEF PromptInv, EntriesWait
    <3>2. call' = [call EXCEPT ![pending[KeyOf[g]]] = "settled"]
      BY <1>5, <2>2 DEF Answer
    <3> QED BY <1>t, <3>1, <3>2
  <2> QED BY <2>1, <2>2
<1>6. ASSUME NEW g \in Calls, Resume(g) PROVE call[c] \in {"waiting", "settled"}
  BY <1>6, <1>t DEF Resume
<1>7. UNCHANGED call \/ (\E r \in Roots : Abort(r)) \/ (\E s \in Subs : Timeout(s))
      \/ (\E g \in Calls : Gate(g) \/ Resume(g) \/ \E d \in Decisions(g) : Answer(g, d))
  BY DEF Next, StartTurn, Spawn, EndTurn, PreGrant, vars
<1> QED BY <1>2, <1>3, <1>4, <1>5, <1>6, <1>7

\* The runs of suspended calls go on running.
LEMMA SuspendedStep ==
  ASSUME UniqueKeys, PromptInv, SuspendedRun, [Next]_vars
  PROVE  SuspendedRun'
<1> SUFFICES ASSUME NEW c \in Calls, call'[c] \in {"waiting", "settled"} PROVE Running(RunOf[c])'
  BY DEF SuspendedRun
<1>1. Running(RunOf[c])
  BY SuspendedFrom DEF SuspendedRun
<1>2. NoRun \notin Roots /\ RootOf(RunOf[c]) \in Roots
  BY PromptsAssumption, RunFacts DEF Runs
<1>3. driving # NoRun
  BY <1>1, <1>2 DEF Running
<1>4. ASSUME EndTurn PROVE FALSE
  <2>1. call'[c] = call[c]
    BY <1>4 DEF EndTurn
  <2> QED BY <1>1, <1>4, <2>1 DEF EndTurn, Running
<1>5. driving' = driving /\ spawned \subseteq spawned'
  BY <1>3, <1>4 DEF Next, StartTurn, Abort, Spawn, Timeout, PreGrant, Gate, Resume, Answer, runVars, vars
<1> QED BY <1>1, <1>5 DEF Running, RootOf

\* The safety half of DelegationUnblocks: a suspended call holds its turn, and while it
\* waits neither its sub-agent's timer nor its run's abort has gone by without it; so the
\* timer of one nobody answers still unblocks it (approval.ts, sub-agent.ts).
THEOREM WaitersAreReachable ==
  ASSUME UniqueKeys
  PROVE  Spec => []WaiterIsReachable
<1>1. Init => SuspendedRun
  BY DEF Init, SuspendedRun
<1>2. PromptInv /\ SuspendedRun /\ [Next]_vars => SuspendedRun'
  BY SuspendedStep
<1>3. PromptInv /\ SuspendedRun => WaiterIsReachable
  BY DEF PromptInv, WaitersHeld, ListenersWait, SuspendedRun, WaiterIsReachable
<1> QED BY <1>1, <1>2, <1>3, PromptInvariant, PTL DEF Spec

\* Behind the gate as well, whatever the modes, grants and schedules do.
THEOREM GateWaitersAreReachable ==
  ASSUME UniqueKeys
  PROVE  GateSpec => []WaiterIsReachable
BY GateImplementsPrompts, WaitersAreReachable, PTL
=================================================================================
