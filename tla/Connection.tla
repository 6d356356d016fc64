----------------------------- MODULE Connection -----------------------------
(***************************************************************************)
(* The desktop's connection to the gateway it supervises                   *)
(* (apps/desktop main/connection.ts), composed with Sidecar: it dials the  *)
(* process that listens on /rpc and is dropped when that process goes.     *)
(* A close event of a superseded socket is ignored (its generation has     *)
(* passed), so one socket at a time is modelled.                           *)
(***************************************************************************)
EXTENDS Sidecar

VARIABLES
  target,     \* is there a target to dial
  keyValid,   \* does the gateway accept the profile's key
  socket,     \* none, dialing, greeting, subscribing or live
  peer,       \* the process at the other end
  retryTimer,
  phase       \* what the window shows

connVars == <<target, keyValid, socket, peer, retryTimer, phase>>
vars == <<sidecarVars, connVars>>

Init ==
  /\ SidecarInit
  /\ target = TRUE /\ keyValid \in BOOLEAN
  /\ socket = "dialing" /\ peer = NoPid /\ retryTimer = FALSE
  /\ phase = "connecting"

Gone == peer = NoPid \/ peer # port

-----------------------------------------------------------------------------
\* The retry timer fires.
Dial ==
  /\ retryTimer
  /\ retryTimer' = FALSE /\ socket' = "dialing" /\ phase' = "reconnecting"
  /\ UNCHANGED <<target, keyValid, peer>>

\* A bug to tell apart: a refused dial is not tried again.
ScheduleRetryOnce(p) ==
  /\ socket' = "none" /\ peer' = NoPid
  /\ retryTimer' = (socket # "dialing") /\ phase' = p

\* scheduleRetry(), and what is published last in the same turn of the loop.
ScheduleRetry(p) ==
  /\ socket' = "none" /\ peer' = NoPid
  /\ retryTimer' = TRUE /\ phase' = p

Refused ==
  /\ socket = "dialing" /\ port = NoPid
  /\ ScheduleRetry("reconnecting")
  /\ UNCHANGED <<target, keyValid>>

\* 401 or 403 at the upgrade: no retry.
Rejected ==
  /\ socket = "dialing" /\ port # NoPid /\ ~keyValid
  /\ socket' = "none" /\ phase' = "error"
  /\ UNCHANGED <<target, keyValid, peer, retryTimer>>

Opens ==
  /\ socket = "dialing" /\ port # NoPid /\ keyValid
  /\ socket' = "greeting" /\ peer' = port
  /\ UNCHANGED <<target, keyValid, retryTimer, phase>>

\* initialize is answered; subscribe goes out.
Greeted ==
  /\ socket = "greeting" /\ ~Gone
  /\ socket' = "subscribing"
  /\ UNCHANGED <<target, keyValid, peer, retryTimer, phase>>

Subscribed ==
  /\ socket = "subscribing" /\ ~Gone
  /\ socket' = "live" /\ phase' = "connected"
  /\ UNCHANGED <<target, keyValid, peer, retryTimer>>

\* The close event.  A subscribe in flight is rejected by it, the rejection is
\* swallowed, and the handshake goes on to publish "connected" after all.
Dropped ==
  /\ socket \in {"greeting", "subscribing", "live"} /\ Gone
  /\ ScheduleRetry(IF socket = "subscribing" THEN "connected" ELSE "reconnecting")
  /\ UNCHANGED <<target, keyValid>>

\* setTarget() with a key the user entered anew.
Rekeyed ==
  /\ target /\ ~keyValid
  /\ keyValid' = TRUE
  /\ socket' = "dialing" /\ peer' = NoPid /\ retryTimer' = FALSE /\ phase' = "connecting"
  /\ UNCHANGED target

\* dispose(): the profile is removed.
Disposed ==
  /\ target
  /\ target' = FALSE /\ socket' = "none" /\ peer' = NoPid /\ retryTimer' = FALSE
  /\ phase' = IF socket = "subscribing" THEN "connected" ELSE "idle"
  /\ UNCHANGED keyValid

ConnStep ==
  \/ Dial \/ Refused \/ Rejected \/ Opens \/ Greeted \/ Subscribed \/ Dropped
  \/ Rekeyed \/ Disposed

Next ==
  \/ SidecarStep /\ UNCHANGED connVars
  \/ ConnStep /\ UNCHANGED sidecarVars

\* The retry timer, the socket's own events and the gateway's answers.
ConnFairness ==
  WF_vars(/\ Dial \/ Refused \/ Rejected \/ Opens \/ Greeted \/ Subscribed \/ Dropped
          /\ UNCHANGED sidecarVars)

Spec == Init /\ [][Next]_vars /\ SidecarFairness /\ ConnFairness

-----------------------------------------------------------------------------
(* Properties *)

\* Type correctness of the connection.
ConnectionTypeOK ==
  /\ {target, keyValid, retryTimer} \subseteq BOOLEAN
  /\ socket \in {"none", "dialing", "greeting", "subscribing", "live"}
  /\ peer \in Pids \cup {NoPid}
  /\ phase \in {"idle", "connecting", "reconnecting", "connected", "error"}

\* Nobody but the user can bring the chat back: the gateway is stopped or fused,
\* it found its port taken, the key is refused, or the profile is gone.
NeedsUser ==
  \/ Status = "stopped" \/ manualStopped \/ fused
  \/ Status = "running" /\ port # file
  \/ phase = "error" \/ ~target

\* However the gateway crashes and is restarted, by the supervisor, the panel or
\* the user, the chat connects again or waits for the user: the backoff, the fuse,
\* restart()'s wait and the dial's retries never leave it stuck between.
ChatComesBack ==
  []<>(NeedsUser \/ (socket = "live" /\ phase = "connected"))
=============================================================================
