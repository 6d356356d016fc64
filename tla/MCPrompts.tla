------------------------------ MODULE MCPrompts ------------------------------
(***************************************************************************)
(* Two user turns and a report share one session.  The first turn spawns   *)
(* two sub-agents, one of which inherits the orchestrator's agent-scoped   *)
(* grants; all three issue a call with the same agent-scoped grant scope.  *)
(* The second turn proposes a plan that declares that scope; the report    *)
(* asks a question.                                                        *)
(***************************************************************************)
EXTENDS Prompts, TLC

CONSTANTS r1, r2, rp, s1, s2, a1, a2, a3, p1, q1, A

MCParent == (s1 :> r1) @@ (s2 :> r1)
MCRunOf  == (a1 :> r1) @@ (a2 :> s1) @@ (a3 :> s2) @@ (p1 :> r2) @@ (q1 :> rp)
MCKind   == (a1 :> "approval") @@ (a2 :> "approval") @@ (a3 :> "approval")
            @@ (p1 :> "plan") @@ (q1 :> "question")
MCKeyOf  == [c \in Calls |-> c]
MCScopeOf    == [c \in Calls |-> A]
MCPlanScopes == [c \in Calls |-> IF c = p1 THEN {A} ELSE {}]
==============================================================================
