------------------------------ MODULE MCSession ------------------------------
(* Two user turns, a report and a manual compaction on one session.         *)
EXTENDS Session
CONSTANTS t1, t2, rp, mc
MCAuthors == Turns \cup Reports \cup Compactions \cup {NoTask}
==============================================================================
