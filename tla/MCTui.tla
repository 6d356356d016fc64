------------------------------- MODULE MCTui -------------------------------
(* Tui for TLC: two turns, the first with three delegations, the second with *)
(* one, over two slots; one alias does not resolve.  With the interface      *)
(* attached three of them are made and one of those asks.                    *)
EXTENDS Tui
CONSTANTS t1, t2, d1, d2, d3, d4
MCTurns == {t1, t2}
MCDelegations == {d1, d2, d3, d4}
MCTurnOf == [d \in MCDelegations |-> IF d \in {d1, d2, d3} THEN t1 ELSE t2]
MCMessages == <<t1, t2>>
=============================================================================
