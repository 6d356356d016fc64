---------------------------- MODULE MCAppServer ----------------------------
(* The owner's client greets, follows the session and starts two turns on it;  *)
(* a sub-agent of the first one raises a prompt.  A trusted client answers the *)
(* prompt, interrupts the second turn and deletes the session, at any time.    *)
EXTENDS AppServer
CONSTANTS a, b, s1, r1, r2, d1, p1, ann, qi, qe, qs, qt, jr, jx, jd
MCRequests == {qi, qe, qs, qt, jr, jx, jd}
MCConnOf == [q \in MCRequests |-> IF q \in {qi, qe, qs, qt} THEN a ELSE b]
MCMethod == [q \in MCRequests |->
  CASE q = qi -> "initialize" [] q \in {qs, qt} -> "turn/start" [] q = jr -> "respond"
    [] q = qe -> "subscribe/session" [] q = jx -> "turn/interrupt" [] q = jd -> "session/delete"]
MCTarget == [q \in MCRequests |->
  CASE q = qs -> r1 [] q \in {qt, jx} -> r2 [] q = jr -> p1 [] OTHER -> s1]
MCAfter == [q \in MCRequests |->
  CASE q = qe -> {qi} [] q = qs -> {qi, qe} [] q = qt -> {qi, qe, qs}
    [] q = jx -> {jr} [] q = jd -> {jr, jx} [] OTHER -> {}]
MCSessionOf == [r \in {r1, r2} |-> s1]
MCParentOf == [d \in {d1} |-> r1]
MCAskedBy == [p \in {p1} |-> d1]
MCAccount == [c \in {a, b} |-> IF c = a THEN ann ELSE Trusted]
MCOwner == [s \in {s1} |-> ann]
=============================================================================
