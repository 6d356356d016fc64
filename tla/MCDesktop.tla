----------------------------- MODULE MCDesktop ------------------------------
(* Three pids: the recorded process, one still closing, and a new one.  Two     *)
(* chats; all turns are of the first: two of this window, and one of another    *)
(* client, of which a trusted window meets one of its own and the other's, and  *)
(* a remote account its own two.  One token and one provider key.               *)
EXTENDS Desktop
CONSTANTS g1, g2, g3, c1, c2, m1, m2, f1, k1, k2
MCChatOf == [t \in {m1, m2, f1} |-> c1]
MCEarlier == [b \in BOOLEAN |-> IF b THEN m2 ELSE f1]
=============================================================================
