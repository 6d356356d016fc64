---------------------------- MODULE MCDispatcher ----------------------------
(* A conversation on a channel with buttons or without.  Its first turn may    *)
(* ask three times at once: its own run for an approval and an open question,  *)
(* its sub-agent to choose from a list; the second proposes a plan.            *)
(* A user, two accounts and two keys, one of them an imported one, for the     *)
(* first; its first message to a channel is media only.                        *)
EXTENDS Gateway
CONSTANTS c1, m1, m2, d1, a1, e1, q1, p2, u1, b1, b2, k1, k2
MCConvOf == [m \in {m1, m2} |-> c1]
MCParentOf == d1 :> m1
MCAskedBy == (a1 :> m1) @@ (e1 :> m1) @@ (q1 :> d1) @@ (p2 :> m2)
MCKind == (a1 :> "approval") @@ (e1 :> "question") @@ (q1 :> "choice") @@ (p2 :> "plan")
MCKeyOf == (k1 :> b1) @@ (k2 :> b1)
MCLegacyUserOf == {<<u1, b1>>}
=============================================================================
