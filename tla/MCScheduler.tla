----------------------------- MODULE MCScheduler -----------------------------
(* One schedule pinned to a session by a cron expression, one that runs in    *)
(* fresh sessions every so often and skips what it missed, and a third client *)
(* fires the first one by hand; a user sends to the same session and switches *)
(* its mode.                                                                  *)
EXTENDS Scheduler
CONSTANTS k1, k2, f1, u1, g1, e1
MCSessionOf == [c \in {k1, f1, u1, g1} |-> e1]
MCOrder == <<k2, k1>>
MCPeriod == [k \in {k1, k2} |-> IF k = k1 THEN 2 ELSE 1]
=============================================================================
