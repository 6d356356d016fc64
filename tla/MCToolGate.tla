----------------------------- MODULE MCToolGate ------------------------------
(***************************************************************************)
(* A user turn and a scheduled turn share one session.  The user turn runs *)
(* a privileged command, an allow-listed command whose sandbox denial asks *)
(* for an extension, and proposes a plan; the scheduled turn's sub-agent   *)
(* runs a command of the privileged scope.                                 *)
(***************************************************************************)
EXTENDS ToolGate, TLC

CONSTANTS u, z, s, g1, w1, e1, p1, g2, Priv, Work

MCParent == s :> z
MCRunOf  == [c \in Calls |-> IF c = g2 THEN s ELSE u]
MCKind   == [c \in Calls |-> IF c = p1 THEN "plan" ELSE "approval"]
MCKeyOf  == [c \in Calls |-> c]
MCScopeOf    == [c \in Calls |-> IF c \in {g1, g2} THEN Priv ELSE Work]
MCPlanScopes == [c \in Calls |-> IF c = p1 THEN {Priv} ELSE {}]
MCCommandOf  == [e \in Extensions |-> w1]
MCScheduleMode   == [r \in Scheduled |-> "auto"]
MCScheduleGrants == [r \in Scheduled |-> {Work}]
==============================================================================
