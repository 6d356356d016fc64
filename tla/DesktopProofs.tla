--------------------------- MODULE DesktopProofs ----------------------------
(***************************************************************************)
(* The desktop application (Desktop), for any number of processes, chats,  *)
(* turns, keys and handlers and every value of the limits and bounds: the  *)
(* supervisor and its fuse, the connection and its retries, the chats and  *)
(* their turns, and the keys that the files refer to.                      *)
(***************************************************************************)
EXTENDS Desktop, SequenceTheorems, TLAPS

-----------------------------------------------------------------------------
(* The gateway's supervisor *)

\* A crash that is counted and not yet answered by a start.
Owed == IF backoff = "none" THEN 0 ELSE 1

\* That streak stays within crashCount needs the backoff, which stands for one counted
\* crash not yet answered; that it stays within the limit needs the fuse to blow as soon
\* as the count passes it.
FuseInv ==
  /\ streak + Owed <= crashCount
  /\ ~fused => crashCount <= CrashLoopLimit
  /\ streak <= CrashLoopLimit
  /\ fused => backoff = "none"

\* Inductive for the supervisor.
SidecarInv == SidecarTypeOK /\ FuseInv

\* GatewayProcessManager.start() leaves the processes and the record well typed.
LEMMA ManagerStartTypes ==
  ASSUME NEW old \in Pids \cup {NoPid}, SidecarTypeOK, ManagerStart(old)
  PROVE  /\ proc' \in [Pids -> {"none", "booting", "up", "closing"}]
         /\ file' \in Pids \cup {NoPid}
BY DEF ManagerStart, SidecarTypeOK

\* Whatever the commands, the polls and the processes do, types are kept.
LEMMA TypesKept ==
  ASSUME SidecarInv, [SidecarStep]_sidecarVars
  PROVE  SidecarTypeOK'
<1> USE SidecarAssumption DEF SidecarInv, SidecarTypeOK
<1>old. file \in Pids \cup {NoPid} /\ NoPid \in Pids \cup {NoPid}
  OBVIOUS
<1>sig. Signalled \subseteq Pids
  BY DEF Signalled, Alive
<1>1. CASE Start
  <2>1. proc' \in [Pids -> {"none", "booting", "up", "closing"}] /\ file' \in Pids \cup {NoPid}
    BY <1>1, <1>old, ManagerStartTypes DEF Start
  <2>2. manual' \in 0 .. MaxManual /\ crashCount' \in 0 .. CrashLoopLimit + 1 /\ streak' \in Nat
    BY <1>1 DEF Start, Commanded, Rearmed
  <2>3. {manualStopped', fused'} \subseteq BOOLEAN /\ backoff' \in {"none", "waiting", "due"}
    BY <1>1 DEF Start, Rearmed
  <2> QED BY <1>1, <2>1, <2>2, <2>3 DEF Start
<1>2. CASE Stop
  BY <1>2, <1>sig DEF Stop, Commanded
<1>3. CASE Restart
  <2>1. proc' \in [Pids -> {"none", "booting", "up", "closing"}] /\ file' \in Pids \cup {NoPid}
    BY <1>3, <1>old, ManagerStartTypes DEF Restart
  <2>2. manual' \in 0 .. MaxManual /\ crashCount' \in 0 .. CrashLoopLimit + 1 /\ streak' \in Nat
    BY <1>3 DEF Restart, Commanded, Rearmed
  <2>3. {manualStopped', fused'} \subseteq BOOLEAN /\ backoff' \in {"none", "waiting", "due"}
    BY <1>3 DEF Restart, Rearmed
  <2>4. told' \subseteq Pids /\ restarting' \in Pids \cup {NoPid}
    BY <1>3, <1>sig DEF Restart
  <2> QED BY <1>3, <2>1, <2>2, <2>3, <2>4 DEF Restart
<1>4. CASE RestartGoesOn
  <2>1. proc' \in [Pids -> {"none", "booting", "up", "closing"}] /\ file' \in Pids \cup {NoPid}
    BY <1>4, <1>old, ManagerStartTypes DEF RestartGoesOn
  <2> QED BY <1>4, <2>1 DEF RestartGoesOn
<1>5. CASE Tick
  <2>1. CASE TickRunning
    BY <1>5, <2>1 DEF Tick, TickRunning
  <2>2. CASE TickCrashed
    <3>1. proc' \in [Pids -> {"none", "booting", "up", "closing"}] /\ file' \in Pids \cup {NoPid}
      BY <2>2, <1>old, ManagerStartTypes DEF TickCrashed
    <3>2. crashCount' \in 0 .. CrashLoopLimit + 1 /\ streak' \in Nat
      BY <2>2 DEF TickCrashed, FuseInv
    <3>3. fused' \in BOOLEAN /\ backoff' \in {"none", "waiting", "due"}
      BY <2>2 DEF TickCrashed
    <3> QED BY <1>5, <3>1, <3>2, <3>3 DEF Tick
  <2>3. CASE TickStopped
    BY <1>5, <2>3 DEF Tick, TickStopped
  <2> QED BY <1>5, <2>1, <2>2, <2>3 DEF Tick
<1>6. CASE BackoffElapses
  BY <1>6 DEF BackoffElapses, procVars
<1>7. CASE PanelStart
  <2>1. proc' \in [Pids -> {"none", "booting", "up", "closing"}] /\ file' \in Pids \cup {NoPid}
    BY <1>7, <1>old, ManagerStartTypes DEF PanelStart
  <2> QED BY <1>7, <2>1 DEF PanelStart, Commanded, supVars
<1>8. CASE PanelStop
  BY <1>8, <1>sig DEF PanelStop, Commanded, supVars
<1>9. CASE PanelRestart
  <2>1. proc' \in [Pids -> {"none", "booting", "up", "closing"}] /\ file' \in Pids \cup {NoPid}
    BY <1>9, <1>old, ManagerStartTypes DEF PanelRestart
  <2> QED BY <1>9, <1>sig, <2>1 DEF PanelRestart, Commanded, supVars
<1>10. ASSUME NEW p \in Pids, Boots(p) PROVE SidecarTypeOK'
  BY <1>10 DEF Boots, supVars
<1>11. ASSUME NEW p \in Pids, HandlesTerm(p) PROVE SidecarTypeOK'
  BY <1>11 DEF HandlesTerm, supVars
<1>12. ASSUME NEW p \in Pids, Exits(p) PROVE SidecarTypeOK'
  BY <1>12 DEF Exits, supVars
<1>13. ASSUME NEW p \in Pids, Crash(p) PROVE SidecarTypeOK'
  BY <1>13 DEF Crash, supVars
<1>14. ASSUME NEW p \in Pids, Settles(p) PROVE SidecarTypeOK'
  BY <1>14 DEF Settles, supVars
<1>15. CASE UNCHANGED sidecarVars
  BY <1>15 DEF sidecarVars, procVars, supVars
<1> QED
  BY <1>1, <1>2, <1>3, <1>4, <1>5, <1>6, <1>7, <1>8, <1>9, <1>10, <1>11, <1>12, <1>13, <1>14,
     <1>15 DEF SidecarStep

\* Only the user's commands and the supervisor's polls touch the fuse; each start
\* a poll makes uses up the crash it was owed for.
LEMMA FuseKept ==
  ASSUME SidecarInv, [SidecarStep]_sidecarVars
  PROVE  FuseInv'
<1> USE SidecarAssumption DEF SidecarInv, SidecarTypeOK, FuseInv, Owed
<1>1. CASE Start \/ Restart
  BY <1>1 DEF Start, Restart, Rearmed
<1>2. CASE Stop
  BY <1>2 DEF Stop
<1>3. CASE Tick
  <2>1. CASE TickRunning
    BY <2>1 DEF TickRunning
  <2>2. CASE TickCrashed
    <3>1. CASE backoff = "none"
      BY <2>2, <3>1 DEF TickCrashed
    <3>2. CASE backoff = "due"
      <4>1. ~fused /\ streak + 1 <= crashCount /\ crashCount <= CrashLoopLimit
        BY <2>2, <3>2 DEF TickCrashed
      <4> QED BY <2>2, <3>2, <4>1 DEF TickCrashed
    <3> QED BY <2>2, <3>1, <3>2 DEF TickCrashed
  <2>3. CASE TickStopped
    BY <2>3 DEF TickStopped
  <2> QED BY <1>3, <2>1, <2>2, <2>3 DEF Tick
<1>4. CASE BackoffElapses
  BY <1>4 DEF BackoffElapses
<1>5. CASE UNCHANGED <<fused, crashCount, backoff, streak>>
  BY <1>5
<1>6. ASSUME RestartGoesOn \/ PanelStart \/ PanelStop \/ PanelRestart
             \/ (\E p \in Pids : Boots(p) \/ HandlesTerm(p) \/ Exits(p) \/ Crash(p) \/ Settles(p))
             \/ UNCHANGED sidecarVars
      PROVE  UNCHANGED <<fused, crashCount, backoff, streak>>
  BY <1>6, Zenon DEF RestartGoesOn, PanelStart, PanelStop, PanelRestart, Boots, HandlesTerm, Exits,
     Crash, Settles, sidecarVars, supVars
<1> QED BY <1>1, <1>2, <1>3, <1>4, <1>5, <1>6 DEF SidecarStep

\* The supervisor starts with no crash counted.
LEMMA SidecarStart ==
  ASSUME SidecarInit
  PROVE  SidecarInv
<1>1. SidecarTypeOK
  <2>1. crashCount \in 0 .. CrashLoopLimit + 1 /\ streak \in Nat
    BY SidecarAssumption DEF SidecarInit
  <2>2. crashes \in 0 .. MaxCrashes /\ manual \in 0 .. MaxManual
    BY SidecarAssumption DEF SidecarInit
  <2>3. {manualStopped, fused} \subseteq BOOLEAN
    BY DEF SidecarInit
  <2>4. proc \in [Pids -> {"none", "booting", "up", "closing"}]
    BY DEF SidecarInit
  <2> QED BY <2>1, <2>2, <2>3, <2>4 DEF SidecarInit, SidecarTypeOK
<1>2. FuseInv
  BY SidecarAssumption DEF SidecarInit, FuseInv, Owed
<1> QED BY <1>1, <1>2 DEF SidecarInv

\* A signalled process is alive, a stable one up, and the listener neither dead nor booting.
\* What restart() waits for was told to stop, and is closing or dead once it has heard.
ProcInv ==
  /\ \A p \in told : proc[p] # "none"
  /\ \A p \in stable : proc[p] = "up"
  /\ port # NoPid => proc[port] \in {"up", "closing"}
  /\ restarting # NoPid => proc[restarting] \in {"none", "closing"} \/ restarting \in told

\* The process that restart() waits for, and kills after the grace period, is never the
\* one the pid record names: not one that the panel or a poll has started meanwhile.
RestartSpares == restarting # NoPid => restarting # file

\* start() changes at most one process, from none to booting; not the one awaited.
LEMMA ManagerStartSpares ==
  ASSUME NEW old \in Pids \cup {NoPid}, SidecarTypeOK, ManagerStart(old)
  PROVE  /\ \A p \in Pids : \/ proc'[p] = proc[p]
                            \/ proc[p] = "none" /\ proc'[p] = "booting" /\ p # restarting
         /\ file' = old \/ (file' # restarting /\ file' # NoPid)
BY SidecarAssumption DEF ManagerStart, SidecarTypeOK

\* Every step keeps it.
LEMMA ProcKept ==
  ASSUME SidecarInv, ProcInv, RestartSpares, [SidecarStep]_sidecarVars
  PROVE  ProcInv' /\ RestartSpares'
<1> USE SidecarAssumption
<1>1. SidecarTypeOK /\ SidecarTypeOK' /\ file \in Pids \cup {NoPid} /\ NoPid \in Pids \cup {NoPid}
  BY TypesKept DEF SidecarInv, SidecarTypeOK
<1>2. ASSUME \A p \in Pids : \/ proc'[p] = proc[p]
                             \/ proc[p] = "none" /\ proc'[p] = "booting" /\ p # restarting,
             told' \in {told, Signalled}, UNCHANGED <<stable, port>>,
             restarting' \in {restarting, NoPid} \/ (restarting' = file /\ Alive(file) /\ told' = Signalled)
      PROVE  ProcInv'
  <2>1. \A p \in told' : p \in told \/ (p \in Pids /\ proc[p] # "none")
    BY <1>1, <1>2 DEF Signalled, Alive, SidecarTypeOK
  <2>2. restarting' # NoPid => proc'[restarting'] \in {"none", "closing"} \/ restarting' \in told'
    <3>1. CASE restarting' = restarting /\ restarting' # NoPid
      <4>1. proc'[restarting] = proc[restarting] /\ told \subseteq told'
        BY <1>1, <1>2, <3>1 DEF SidecarTypeOK, Signalled
      <4> QED BY <3>1, <4>1 DEF ProcInv
    <3>2. CASE restarting' = file /\ Alive(file) /\ told' = Signalled
      BY <3>2 DEF Signalled
    <3> QED BY <1>2, <3>1, <3>2
  <2>3. (\A p \in told' : proc'[p] # "none") /\ (\A p \in stable' : proc'[p] = "up")
    BY <1>1, <1>2, <2>1 DEF ProcInv, SidecarTypeOK
  <2>4. port' # NoPid => proc'[port'] \in {"up", "closing"}
    BY <1>1, <1>2 DEF ProcInv, SidecarTypeOK
  <2> QED BY <2>2, <2>3, <2>4 DEF ProcInv
<1>3. ASSUME ManagerStart(file) \/ ManagerStart(NoPid)
      PROVE  /\ \A p \in Pids : \/ proc'[p] = proc[p]
                                \/ proc[p] = "none" /\ proc'[p] = "booting" /\ p # restarting
             /\ restarting # NoPid => file' # restarting
  BY <1>1, <1>3, ManagerStartSpares DEF RestartSpares
<1>4. CASE Start \/ PanelStart \/ PanelRestart
  BY <1>2, <1>3, <1>4 DEF Start, PanelStart, PanelRestart, supVars, RestartSpares
<1>5. CASE Stop \/ PanelStop
  BY <1>2, <1>5 DEF Stop, PanelStop, supVars, RestartSpares
<1>6. CASE Restart
  <2>1. CASE Alive(file)
    <3>1. restarting' = file /\ file' = NoPid /\ proc' = proc /\ told' = Signalled
          /\ UNCHANGED <<stable, port>>
      BY <1>6, <2>1 DEF Restart
    <3>2. ProcInv'
      BY <1>2, <2>1, <3>1
    <3> QED BY <3>1, <3>2 DEF RestartSpares
  <2>2. CASE ~Alive(file)
    BY <1>2, <1>3, <1>6, <2>2 DEF Restart, RestartSpares
  <2> QED BY <2>1, <2>2
<1>7. CASE RestartGoesOn
  <2>1. CASE Alive(restarting)
    <3>1. /\ proc' = [proc EXCEPT ![restarting] = "none"] /\ told' = told \ {restarting}
          /\ stable' = stable \ {restarting}
          /\ port' = (IF port = restarting THEN NoPid ELSE port) /\ UNCHANGED <<file, restarting>>
      BY <1>7, <2>1 DEF RestartGoesOn
    <3> QED BY <1>1, <3>1 DEF ProcInv, RestartSpares, SidecarTypeOK
  <2>2. CASE ~Alive(restarting)
    BY <1>2, <1>3, <1>7, <2>2 DEF RestartGoesOn, RestartSpares
  <2> QED BY <2>1, <2>2
<1>8. CASE Tick
  <2>1. UNCHANGED <<told, port, stable, restarting>>
    BY <1>8 DEF Tick
  <2>2. ManagerStart(file) \/ UNCHANGED <<proc, file>>
    BY <1>8 DEF Tick, TickRunning, TickCrashed, TickStopped
  <2> QED BY <1>2, <1>3, <2>1, <2>2 DEF RestartSpares
<1>9. CASE BackoffElapses \/ UNCHANGED sidecarVars
  BY <1>9 DEF BackoffElapses, procVars, sidecarVars, supVars, ProcInv, RestartSpares
<1>10. ASSUME NEW p \in Pids, Boots(p) PROVE ProcInv' /\ RestartSpares'
  BY <1>1, <1>10 DEF Boots, supVars, ProcInv, RestartSpares, SidecarTypeOK
<1>11. ASSUME NEW p \in Pids, HandlesTerm(p) PROVE ProcInv' /\ RestartSpares'
  BY <1>1, <1>11 DEF HandlesTerm, supVars, ProcInv, RestartSpares, SidecarTypeOK
<1>12. ASSUME NEW p \in Pids, Exits(p) PROVE ProcInv' /\ RestartSpares'
  BY <1>1, <1>12 DEF Exits, supVars, ProcInv, RestartSpares, SidecarTypeOK
<1>13. ASSUME NEW p \in Pids, Crash(p) PROVE ProcInv' /\ RestartSpares'
  BY <1>1, <1>13 DEF Crash, supVars, ProcInv, RestartSpares, SidecarTypeOK
<1>14. ASSUME NEW p \in Pids, Settles(p) PROVE ProcInv' /\ RestartSpares'
  BY <1>1, <1>14 DEF Settles, supVars, ProcInv, RestartSpares, SidecarTypeOK
<1> QED
  BY <1>4, <1>5, <1>6, <1>7, <1>8, <1>9, <1>10, <1>11, <1>12, <1>13, <1>14 DEF SidecarStep

\* The desktop's link to it: nobody is at the other end of a socket that is not open, and
\* after an error, a disposal or while the retry timer runs there is none.
LinkInv ==
  /\ retryTimer \in BOOLEAN
  /\ socket \in {"none", "dialing"} => peer = NoPid
  /\ retryTimer => socket = "none" /\ target
  /\ ~target => socket = "none"
  /\ phase = "error" => socket = "none" /\ ~retryTimer /\ ~keyValid

\* The socket is open or being opened, a retry is set, or the key was refused: no step
\* leaves the window without a link that nobody will dial again.
LinkHeld == target => socket # "none" \/ retryTimer \/ (phase = "error" /\ ~keyValid)

\* What the window shows as connected is, or a retry is set already: but for a profile
\* that was removed.
ShownIsLive == phase = "connected" => socket = "live" \/ retryTimer \/ ~target

\* Every step of the connection keeps it; those of the process leave it alone.
LEMMA LinkKept ==
  ASSUME LinkInv, LinkHeld, ShownIsLive, [Next]_vars
  PROVE  LinkInv' /\ LinkHeld' /\ ShownIsLive'
<1> USE DEF LinkInv, LinkHeld, ShownIsLive
<1>1. CASE UNCHANGED connVars
  BY <1>1 DEF connVars
<1>2. CASE Dial
  BY <1>2 DEF Dial
<1>3. CASE Refused \/ Dropped
  BY <1>3 DEF Refused, Dropped, ScheduleRetry
<1>4. CASE Rejected
  BY <1>4 DEF Rejected
<1>5. CASE Opens \/ Greeted \/ Subscribed
  BY <1>5 DEF Opens, Greeted, Subscribed
<1>6. CASE Rekeyed
  BY <1>6 DEF Rekeyed
<1>7. CASE Disposed
  BY <1>7 DEF Disposed
<1> QED BY <1>1, <1>2, <1>3, <1>4, <1>5, <1>6, <1>7 DEF Next, ConnStep, vars

\* They start so: the window dials, or has no target.
LEMMA LinkStart ==
  ASSUME Init \/ AtRest
  PROVE  ProcInv /\ RestartSpares /\ LinkInv /\ LinkHeld /\ ShownIsLive
BY DEF Init, AtRest, SidecarInit, ProcInv, RestartSpares, LinkInv, LinkHeld, ShownIsLive

-----------------------------------------------------------------------------
(* The window's chats *)

\* A turn in its session's queue; one the window sent there and knows of.
Live(t) == turnAt[t] \in {"queued", "driving"}
Own(t) == t \in Mine \ orphaned /\ Live(t)
\* A notice, and whether it is under way.
Note(kind, t) == [kind |-> kind, turn |-> t]
Told(kind, t) == \E i \in 1..Len(wire) : wire[i] = Note(kind, t)
\* t is in the queue, not behind g.
Waits(t, g) ==
  \E i, j \in 1..Len(line[ChatOf[t]]) :
    i <= j /\ line[ChatOf[t]][i] = t /\ line[ChatOf[t]][j] = g
\* With g in runIds the chat stays marked as running while t lives: g does not end before
\* t, or has ended and no notice of it is still to come.
Covers(g, t) == g # NoTurn /\ ~Told("done", g) /\ (Waits(t, g) \/ turnAt[g] = "over")

\* Types of what the store holds.
OrNoTurn == Turns \cup {NoTurn}
Notices == [kind : {"text", "done"}, turn : Turns]
Traces == [status : {"absent", "quiet", "running"}, shown : SUBSET Turns]
CallsOf == [at : {"none", "subscribing", "subscribed", "reading", "read", "failed"},
            chat : Chats \cup {NoChat}, again : BOOLEAN, read : SUBSET Turns, before : SUBSET Turns]

StoreTypes ==
  /\ line \in [Chats -> Seq(Turns)]
  /\ turnAt \in [Turns -> {"none", "queued", "driving", "over"}]
  /\ active \in [Chats -> OrNoTurn] /\ runIds \in [Chats -> OrNoTurn]
  /\ wire \in Seq(Notices) /\ said \subseteq Turns
  /\ grace \subseteq Chats /\ orphaned \subseteq Turns
  /\ trace \in [Chats -> Traces]
  /\ send \in [at : {"none", "asking", "answered", "failed"}, turn : OrNoTurn]
  /\ load \in [at : {"none", "asking", "answered"}, runs : [Chats -> OrNoTurn]]

CallsOK ==
  /\ opening \in [Calls -> CallsOf] /\ current \in Chats \cup {NoChat}
  /\ \A o \in Calls : opening[o] = NoCall \/ (opening[o].chat \in Chats /\ current # NoChat)

StoreOK == StoreTypes /\ CallsOK

\* A session's queue holds its live turns, each once, and only the head drives.
LineInv ==
  /\ \A c \in Chats : \A i \in 1..Len(line[c]) :
       /\ ChatOf[line[c][i]] = c /\ Live(line[c][i])
       /\ turnAt[line[c][i]] = "driving" => i = 1
       /\ \A j \in 1..Len(line[c]) : line[c][i] = line[c][j] => i = j
  /\ \A t \in Turns : Live(t) => \E i \in 1..Len(line[ChatOf[t]]) : line[ChatOf[t]][i] = t

\* A turn is told of when it drives, its end when it is over; and a text before the end of
\* another turn of the same chat is of a turn that is over as well.
WireInv ==
  /\ \A i \in 1..Len(wire) :
       /\ turnAt[wire[i].turn] \in {"driving", "over"}
       /\ wire[i].kind = "done" => turnAt[wire[i].turn] = "over"
  /\ \A i, j \in 1..Len(wire) :
       i < j /\ wire[i].kind = "text" /\ wire[j].kind = "done"
         /\ ChatOf[wire[i].turn] = ChatOf[wire[j].turn] => turnAt[wire[i].turn] = "over"

\* Of the server and the wire.
TalkInv == StoreOK /\ LineInv /\ WireInv

\* Types of single turns, queue entries and notices.
LEMMA LineTypes ==
  ASSUME StoreOK
  PROVE  /\ \A t \in Turns : ChatOf[t] \in Chats /\ line[ChatOf[t]] \in Seq(Turns)
         /\ \A c \in Chats : line[c] \in Seq(Turns) /\ Len(line[c]) \in Nat
         /\ \A c \in Chats : \A i \in 1..Len(line[c]) : line[c][i] \in Turns
         /\ Len(wire) \in Nat
         /\ \A i \in 1..Len(wire) : wire[i] \in Notices /\ wire[i].turn \in Turns
                                    /\ wire[i].kind \in {"text", "done"}
<1>1. ASSUME NEW i \in 1..Len(wire)
      PROVE  wire[i] \in Notices /\ wire[i].turn \in Turns /\ wire[i].kind \in {"text", "done"}
  <2>1. wire[i] \in Notices
    BY DEF StoreOK, StoreTypes, CallsOK
  <2> QED BY <2>1 DEF Notices
<1> QED BY <1>1, ChatAssumption DEF StoreOK, StoreTypes, CallsOK

(* The steps of the server's queue *)

\* Append, entry by entry.
LEMMA Appended ==
  ASSUME NEW S, NEW s \in Seq(S), NEW e \in S
  PROVE  /\ Append(s, e) \in Seq(S) /\ Len(Append(s, e)) = Len(s) + 1 /\ Len(s) \in Nat
         /\ \A i \in 1..Len(s) : Append(s, e)[i] = s[i]
         /\ Append(s, e)[Len(s) + 1] = e
OBVIOUS

\* Head and Tail, entry by entry.
LEMMA Taken ==
  ASSUME NEW S, NEW s \in Seq(S), s # <<>>
  PROVE  /\ Tail(s) \in Seq(S) /\ Len(Tail(s)) = Len(s) - 1 /\ Len(s) \in Nat \ {0}
         /\ Head(s) = s[1] /\ s[1] \in S
         /\ \A i \in 1..Len(Tail(s)) : i + 1 \in 1..Len(s) /\ Tail(s)[i] = s[i + 1]
OBVIOUS

\* A turn that enters its queue waits behind all others, and becomes the session's turn.
LEMMA EnterLine ==
  ASSUME StoreOK, LineInv, NEW t \in Turns, Enter(t), turnAt[t] = "none"
  PROVE  /\ LineInv'
         /\ \A u \in Turns : u # t => turnAt'[u] = turnAt[u]
         /\ turnAt'[t] = "queued"
         /\ \A u, g \in Turns : Waits(u, g) => Waits(u, g)'
         /\ \A u \in Turns : Live(u)' /\ ChatOf[u] = ChatOf[t] => Waits(u, t)'
         /\ active'[ChatOf[t]] = t /\ \A c \in Chats : c # ChatOf[t] => active'[c] = active[c]
         /\ active' \in [Chats -> OrNoTurn] /\ line' \in [Chats -> Seq(Turns)]
         /\ turnAt' \in [Turns -> {"none", "queued", "driving", "over"}]
<1> DEFINE d == ChatOf[t]
           old == line[d]
           new == Append(old, t)
<1>1. d \in Chats /\ old \in Seq(Turns)
  BY LineTypes
<1>2. /\ new \in Seq(Turns) /\ Len(new) = Len(old) + 1 /\ Len(old) \in Nat
      /\ \A i \in 1..Len(old) : new[i] = old[i]
      /\ new[Len(old) + 1] = t
  BY <1>1, Appended
<1>3. /\ line' = [line EXCEPT ![d] = new] /\ turnAt' = [turnAt EXCEPT ![t] = "queued"]
      /\ active' = [active EXCEPT ![d] = t]
  BY DEF Enter
<1>4. line'[d] = new /\ \A c \in Chats : c # d => line'[c] = line[c]
  BY <1>1, <1>3 DEF StoreOK, StoreTypes, CallsOK
<1>5. turnAt'[t] = "queued" /\ \A u \in Turns : u # t => turnAt'[u] = turnAt[u]
  BY <1>3 DEF StoreOK, StoreTypes, CallsOK
<1>6. /\ active'[d] = t /\ \A c \in Chats : c # d => active'[c] = active[c]
      /\ active' \in [Chats -> OrNoTurn] /\ line' \in [Chats -> Seq(Turns)]
      /\ turnAt' \in [Turns -> {"none", "queued", "driving", "over"}]
  BY <1>1, <1>2, <1>3 DEF StoreOK, StoreTypes, CallsOK, OrNoTurn
<1>7. \A c \in Chats : \A i \in 1..Len(line[c]) : line[c][i] # t /\ line[c][i] \in Turns
  BY LineTypes DEF LineInv, Live
<1> HIDE DEF new, old, d
<1>8. old = line[d] /\ ChatOf[t] = d
  BY DEF old, d
<1>9. \A c \in Chats : \A i \in 1..Len(line[c]) : i \in 1..Len(line'[c]) /\ line'[c][i] = line[c][i]
  BY <1>2, <1>4, <1>8, LineTypes
<1>10. ASSUME NEW c \in Chats, NEW i \in 1..Len(line'[c])
       PROVE  \/ c = d /\ i = Len(line[c]) + 1 /\ line'[c][i] = t
              \/ i \in 1..Len(line[c]) /\ line'[c][i] = line[c][i]
  BY <1>2, <1>4, <1>8, LineTypes
<1>11. \A u \in Turns : Live(u) => \E i \in 1..Len(line'[ChatOf[u]]) : line'[ChatOf[u]][i] = u
  BY <1>9, LineTypes DEF LineInv
<1>12. \A u \in Turns : Live(u)' => u = t \/ Live(u)
  BY <1>5 DEF Live
<1>13. Len(new) \in 1..Len(line'[d]) /\ line'[d][Len(new)] = t
  BY <1>2, <1>4
<1>14. LineInv'
  <2>1. ASSUME NEW c \in Chats, NEW i \in 1..Len(line'[c])
        PROVE  /\ ChatOf[line'[c][i]] = c /\ turnAt'[line'[c][i]] \in {"queued", "driving"}
               /\ turnAt'[line'[c][i]] = "driving" => i = 1
               /\ \A j \in 1..Len(line'[c]) : line'[c][i] = line'[c][j] => i = j
    <3>1. CASE c = d /\ i = Len(line[c]) + 1 /\ line'[c][i] = t
      BY <1>5, <1>7, <1>8, <1>10, <3>1 DEF Live
    <3>2. CASE i \in 1..Len(line[c]) /\ line'[c][i] = line[c][i]
      <4>1. line[c][i] # t /\ line[c][i] \in Turns /\ turnAt'[line[c][i]] = turnAt[line[c][i]]
        BY <1>5, <1>7, <3>2
      <4>2. /\ ChatOf[line[c][i]] = c /\ Live(line[c][i])
            /\ turnAt[line[c][i]] = "driving" => i = 1
            /\ \A j \in 1..Len(line[c]) : line[c][i] = line[c][j] => i = j
        BY <3>2 DEF LineInv
      <4>3. \A j \in 1..Len(line'[c]) : line'[c][i] = line'[c][j] => i = j
        BY <1>10, <3>2, <4>1, <4>2
      <4> QED BY <3>2, <4>1, <4>2, <4>3 DEF Live
    <3> QED BY <1>10, <3>1, <3>2
  <2>2. \A u \in Turns : Live(u)' => \E i \in 1..Len(line'[ChatOf[u]]) : line'[ChatOf[u]][i] = u
    BY <1>8, <1>11, <1>12, <1>13
  <2> QED BY <2>1, <2>2 DEF LineInv, Live
<1>15. ASSUME NEW u \in Turns, NEW g \in Turns, Waits(u, g) PROVE Waits(u, g)'
  BY <1>9, <1>15, LineTypes DEF Waits
<1>16. ASSUME NEW u \in Turns, Live(u)', ChatOf[u] = d PROVE Waits(u, t)'
  <2>1. PICK i \in 1..Len(line'[d]) : line'[d][i] = u
    BY <1>14, <1>16 DEF LineInv
  <2>2. i <= Len(new)
    BY <1>2, <1>4, <2>1
  <2> QED BY <1>13, <1>16, <2>1, <2>2 DEF Waits
<1> QED BY <1>5, <1>6, <1>8, <1>14, <1>15, <1>16

\* The head leaves: nobody waits for it any more.
LEMMA LeaveLine ==
  ASSUME StoreOK, LineInv, NEW h \in Turns, Live(h), Head(line[ChatOf[h]]) = h,
         turnAt' = [turnAt EXCEPT ![h] = "over"],
         line' = [line EXCEPT ![ChatOf[h]] = Tail(line[ChatOf[h]])]
  PROVE  /\ LineInv'
         /\ \A u \in Turns : u # h => turnAt'[u] = turnAt[u]
         /\ turnAt'[h] = "over"
         /\ \A u, g \in Turns : Waits(u, g) /\ u # h => g # h /\ Waits(u, g)'
         /\ line' \in [Chats -> Seq(Turns)]
         /\ turnAt' \in [Turns -> {"none", "queued", "driving", "over"}]
<1> DEFINE d == ChatOf[h]
           old == line[d]
           new == Tail(old)
<1>1. d \in Chats /\ old \in Seq(Turns)
  BY LineTypes
<1>2. old # <<>>
  BY <1>1 DEF LineInv
<1>3. /\ new \in Seq(Turns) /\ Len(new) = Len(old) - 1 /\ Len(old) \in Nat \ {0}
      /\ old[1] = h
      /\ \A i \in 1..Len(new) : i + 1 \in 1..Len(old) /\ new[i] = old[i + 1]
  BY <1>1, <1>2, Taken
<1>4. line'[d] = new /\ \A c \in Chats : c # d => line'[c] = line[c]
  BY <1>1 DEF StoreOK, StoreTypes, CallsOK
<1>5. turnAt'[h] = "over" /\ \A u \in Turns : u # h => turnAt'[u] = turnAt[u]
  BY DEF StoreOK, StoreTypes, CallsOK
<1>6. /\ line' \in [Chats -> Seq(Turns)]
      /\ turnAt' \in [Turns -> {"none", "queued", "driving", "over"}]
  BY <1>1, <1>3 DEF StoreOK, StoreTypes, CallsOK
<1> HIDE DEF new, old, d
<1>7. old = line[d] /\ ChatOf[h] = d
  BY DEF old, d
<1>8. \A c \in Chats : \A i \in 1..Len(line[c]) : line[c][i] = h => c = d /\ i = 1
  BY <1>1, <1>3, <1>7, LineTypes DEF LineInv
<1>9. ASSUME NEW c \in Chats, NEW i \in 1..Len(line'[c])
      PROVE  /\ c = d => i + 1 \in 1..Len(line[c]) /\ line'[c][i] = line[c][i + 1]
             /\ c # d => i \in 1..Len(line[c]) /\ line'[c][i] = line[c][i]
             /\ line'[c][i] # h /\ line'[c][i] \in Turns
  <2>1. CASE c = d
    <3>1. i + 1 \in 1..Len(line[c]) /\ line'[c][i] = line[c][i + 1] /\ i + 1 # 1
      BY <1>3, <1>4, <1>7, <2>1
    <3> QED BY <1>8, <2>1, <3>1, LineTypes
  <2>2. CASE c # d
    BY <1>4, <1>8, <2>2, LineTypes
  <2> QED BY <2>1, <2>2
<1>10. ASSUME NEW c \in Chats, NEW i \in 1..Len(line[c]), line[c][i] # h
       PROVE  /\ c = d => i - 1 \in 1..Len(line'[c]) /\ line'[c][i - 1] = line[c][i]
              /\ c # d => i \in 1..Len(line'[c]) /\ line'[c][i] = line[c][i]
  <2>1. CASE c = d
    <3>1. i # 1 /\ i - 1 \in 1..Len(new) /\ (i - 1) + 1 = i
      BY <1>3, <1>7, <1>10, <2>1
    <3> QED BY <1>3, <1>4, <1>7, <2>1, <3>1
  <2>2. CASE c # d
    BY <1>4, <2>2
  <2> QED BY <2>1, <2>2
<1>11. LineInv'
  <2>1. ASSUME NEW c \in Chats, NEW i \in 1..Len(line'[c])
        PROVE  /\ ChatOf[line'[c][i]] = c /\ turnAt'[line'[c][i]] \in {"queued", "driving"}
               /\ turnAt'[line'[c][i]] = "driving" => i = 1
               /\ \A j \in 1..Len(line'[c]) : line'[c][i] = line'[c][j] => i = j
    <3> DEFINE x == line'[c][i]
    <3>1. x \in Turns /\ x # h /\ turnAt'[x] = turnAt[x]
      BY <1>5, <1>9
    <3>2. CASE c = d
      <4>1. /\ i + 1 \in 1..Len(line[c]) /\ x = line[c][i + 1]
            /\ \A j \in 1..Len(line'[c]) : j + 1 \in 1..Len(line[c]) /\ line'[c][j] = line[c][j + 1]
        BY <1>9, <3>2
      <4>2. /\ ChatOf[line[c][i + 1]] = c /\ Live(line[c][i + 1])
            /\ turnAt[line[c][i + 1]] = "driving" => i + 1 = 1
            /\ \A j \in 1..Len(line[c]) : line[c][i + 1] = line[c][j] => i + 1 = j
        BY <4>1 DEF LineInv
      <4>3. i + 1 # 1 /\ \A j \in 1..Len(line'[c]) : i + 1 = j + 1 => i = j
        OBVIOUS
      <4> QED BY <3>1, <4>1, <4>2, <4>3 DEF Live
    <3>3. CASE c # d
      BY <1>9, <3>1, <3>3 DEF LineInv, Live
    <3> QED BY <3>2, <3>3
  <2>2. ASSUME NEW u \in Turns, Live(u)'
        PROVE  \E i \in 1..Len(line'[ChatOf[u]]) : line'[ChatOf[u]][i] = u
    <3>1. u # h /\ Live(u)
      BY <1>5, <2>2 DEF Live
    <3>2. PICK i \in 1..Len(line[ChatOf[u]]) : line[ChatOf[u]][i] = u
      BY <3>1 DEF LineInv
    <3> QED BY <1>10, <3>1, <3>2, LineTypes
  <2> QED BY <2>1, <2>2 DEF LineInv, Live
<1>12. ASSUME NEW u \in Turns, NEW g \in Turns, Waits(u, g), u # h PROVE g # h /\ Waits(u, g)'
  <2> DEFINE c == ChatOf[u]
  <2>1. PICK i \in 1..Len(line[c]), j \in 1..Len(line[c]) : i <= j /\ line[c][i] = u /\ line[c][j] = g
    BY <1>12 DEF Waits
  <2>2. c \in Chats
    BY LineTypes
  <2>3. CASE c = d
    <3>1. i # 1 /\ j # 1
      BY <1>3, <1>7, <1>12, <2>1, <2>3
    <3>2. g # h
      BY <1>8, <2>1, <2>2, <3>1
    <3>3. i - 1 \in 1..Len(line'[c]) /\ j - 1 \in 1..Len(line'[c]) /\ i - 1 <= j - 1
          /\ line'[c][i - 1] = u /\ line'[c][j - 1] = g
      BY <1>10, <1>12, <2>1, <2>2, <2>3, <3>2
    <3> QED BY <3>2, <3>3 DEF Waits
  <2>4. CASE c # d
    BY <1>4, <1>8, <2>1, <2>2, <2>4 DEF Waits
  <2> QED BY <2>3, <2>4
<1> QED BY <1>5, <1>6, <1>11, <1>12

(* LineTypes *)

\* A fresh call of openSession, and none.
LEMMA CallTyped ==
  ASSUME NEW c \in Chats, NEW again \in BOOLEAN
  PROVE  /\ Call(c, again) \in CallsOf /\ Call(c, again).chat = c
         /\ Call(c, again).at \in {"subscribing", "subscribed"}
         /\ Call(c, again).read = {} /\ Call(c, again).before = {}
         /\ NoCall \in CallsOf /\ NoCall.at = "none" /\ NoCall.read = {} /\ NoCall.before = {}
<1>1. NoCall \in CallsOf
  BY DEF NoCall, CallsOf
<1>2. NoCall.at = "none" /\ NoCall.read = {} /\ NoCall.before = {}
  BY DEF NoCall
<1> DEFINE a == IF up THEN "subscribing" ELSE "subscribed"
           x == [NoCall EXCEPT !.at = a, !.chat = c, !.again = again]
<1>3. a \in {"subscribing", "subscribed"}
  OBVIOUS
<1>4. Call(c, again) = x
  BY DEF Call
<1> HIDE DEF a
<1>5. x \in CallsOf /\ x.at = a /\ x.chat = c /\ x.read = NoCall.read /\ x.before = NoCall.before
  BY <1>1, <1>3 DEF CallsOf
<1> HIDE DEF x
<1> QED BY <1>1, <1>2, <1>3, <1>4, <1>5

\* What a step does to a call of openSession.
Keeps(p) == opening'[p] = opening[p]
Begins(p) == \/ opening'[p] = NoCall
             \/ /\ opening'[p].at \in {"subscribing", "subscribed"} /\ opening'[p].chat \in Chats
                /\ opening'[p].read = {} /\ opening'[p].before = {}
Fails(p) == /\ opening'[p].at \in {"subscribed", "failed"} /\ opening'[p].chat = opening[p].chat
            /\ opening'[p].read = opening[p].read /\ opening[p] # NoCall
Asks(p) == /\ opening'[p].at \in {"reading", "failed"} /\ opening'[p].chat = opening[p].chat
           /\ opening'[p].read = opening[p].read /\ opening[p] # NoCall
           /\ opening'[p].before = trace[opening[p].chat].shown
           /\ ~(trace[opening[p].chat].status # "absent" /\ Running(opening[p].chat))
IsRead(p) == /\ opening[p].at = "reading" /\ opening'[p].at = "read"
             /\ opening'[p].chat = opening[p].chat /\ opening[p] # NoCall
             /\ opening'[p].before = opening[p].before
             /\ opening'[p].read = {t \in said : ChatOf[t] = opening[p].chat /\ turnAt[t] = "over"}
Moves(p) == Keeps(p) \/ Begins(p) \/ Fails(p) \/ Asks(p) \/ IsRead(p)

\* What a step does to all of them.
CallsMove ==
  /\ opening' \in [Calls -> CallsOf] /\ current' \in Chats \cup {NoChat}
  /\ current # NoChat => current' # NoChat
  /\ \A p \in Calls : Moves(p)
  /\ \A p \in Calls : opening'[p] = NoCall \/ (opening'[p].chat \in Chats /\ current' # NoChat)

\* One call is replaced, the others stay.
LEMMA ReplacedCall ==
  ASSUME StoreOK, NEW o \in Calls, NEW x \in CallsOf, opening' = [opening EXCEPT ![o] = x],
         current' \in Chats \cup {NoChat}, current # NoChat => current' # NoChat,
         x = NoCall \/ (x.chat \in Chats /\ current' # NoChat),
         opening'[o] = x => Moves(o)
  PROVE  CallsMove
<1>1. opening' \in [Calls -> CallsOf] /\ opening'[o] = x /\ \A p \in Calls : p # o => opening'[p] = opening[p]
  BY DEF StoreOK, StoreTypes, CallsOK
<1>2. \A p \in Calls : Moves(p)
  BY <1>1 DEF Moves, Keeps
<1> QED BY <1>1, <1>2 DEF CallsMove, StoreOK, StoreTypes, CallsOK

\* A call that returns is over, or followed by another for the open chat.
LEMMA ReturnMoves ==
  ASSUME StoreOK, NEW o \in Calls, Return(o), opening[o].at # "none", current' = current
  PROVE  CallsMove
<1>1. opening[o] # NoCall
  BY DEF NoCall
<1>2. current \in Chats /\ opening[o] \in CallsOf
  BY <1>1 DEF StoreOK, StoreTypes, CallsOK
<1> DEFINE x == IF opening[o].again THEN Call(current, FALSE) ELSE NoCall
<1>3. opening' = [opening EXCEPT ![o] = x]
  BY DEF Return
<1>4. x \in CallsOf /\ (x = NoCall \/ (x.at \in {"subscribing", "subscribed"} /\ x.chat \in Chats
        /\ x.read = {} /\ x.before = {}))
  BY <1>2, CallTyped
<1> HIDE DEF x
<1>5. current # NoChat
  BY <1>2, ChatAssumption
<1> QED BY <1>2, <1>3, <1>4, <1>5, ReplacedCall DEF Moves, Begins

\* Every step moves the calls in one of these ways.
LEMMA OpeningStep ==
  ASSUME StoreOK, [StoreNext]_storeVars
  PROVE  CallsMove
<1>1. ASSUME opening' = opening, current' = current PROVE CallsMove
  BY <1>1 DEF CallsMove, StoreOK, StoreTypes, CallsOK, Moves, Keeps
<1>2. CASE Drop
  <2>1. opening' = [o \in Calls |->
       CASE opening[o].at = "subscribing" -> [opening[o] EXCEPT !.at = "subscribed"]
         [] opening[o].at \in {"reading", "read"} -> [opening[o] EXCEPT !.at = "failed"]
         [] OTHER -> opening[o]]
    BY <1>2 DEF Drop
  <2>2. ASSUME NEW o \in Calls
        PROVE  \/ opening'[o] = opening[o]
               \/ /\ opening[o].at \in {"subscribing", "reading", "read"}
                  /\ \/ opening'[o] = [opening[o] EXCEPT !.at = "subscribed"]
                     \/ opening'[o] = [opening[o] EXCEPT !.at = "failed"]
    BY <2>1
  <2>3. ASSUME NEW o \in Calls
        PROVE  /\ opening'[o] \in CallsOf /\ Moves(o)
               /\ opening'[o] = NoCall \/ (opening'[o].chat \in Chats /\ current # NoChat)
    <3>1. opening[o] \in CallsOf
      BY DEF StoreOK, StoreTypes, CallsOK
    <3>2. CASE opening'[o] = opening[o]
      BY <3>1, <3>2 DEF Moves, Keeps, StoreOK, StoreTypes, CallsOK
    <3>3. CASE /\ opening[o].at \in {"subscribing", "reading", "read"}
               /\ \/ opening'[o] = [opening[o] EXCEPT !.at = "subscribed"]
                  \/ opening'[o] = [opening[o] EXCEPT !.at = "failed"]
      <4>1. opening[o] # NoCall
        BY <3>3 DEF NoCall
      <4>2. opening'[o] \in CallsOf /\ opening'[o].chat = opening[o].chat /\ opening'[o].read = opening[o].read
            /\ opening'[o].at \in {"subscribed", "failed"}
        BY <3>1, <3>3 DEF CallsOf
      <4> QED BY <4>1, <4>2 DEF Moves, Fails, StoreOK, StoreTypes, CallsOK
    <3> QED BY <2>2, <3>2, <3>3
  <2>4. current' = current
    BY <1>2 DEF Drop
  <2>5. opening' \in [Calls -> CallsOf]
    BY <2>1, <2>3
  <2> QED BY <2>3, <2>4, <2>5 DEF CallsMove, StoreOK, StoreTypes, CallsOK
<1>3. ASSUME NEW o \in Calls, Subscribes(o) PROVE CallsMove
  <2> DEFINE x == [opening[o] EXCEPT !.at = "subscribed"]
  <2>1. opening[o].at = "subscribing" /\ opening' = [opening EXCEPT ![o].at = "subscribed"] /\ current' = current
    BY <1>3 DEF Subscribes
  <2>2. opening[o] # NoCall /\ opening[o] \in CallsOf
    BY <2>1 DEF NoCall, StoreOK, StoreTypes, CallsOK
  <2>3. x \in CallsOf /\ x.at = "subscribed" /\ x.chat = opening[o].chat /\ x.read = opening[o].read
    BY <2>2 DEF CallsOf
  <2>4. opening' = [opening EXCEPT ![o] = x]
    BY <2>1
  <2> HIDE DEF x
  <2>5. opening'[o] = x => Moves(o)
    BY <2>2, <2>3 DEF Moves, Fails
  <2> QED BY <2>1, <2>2, <2>3, <2>4, <2>5, ReplacedCall DEF StoreOK, StoreTypes, CallsOK
<1>4. ASSUME NEW o \in Calls, HistoryRead(o) PROVE CallsMove
  <2> DEFINE R == {t \in said : ChatOf[t] = opening[o].chat /\ turnAt[t] = "over"}
             x == [opening[o] EXCEPT !.at = "read", !.read = R]
  <2>1. opening[o].at = "reading" /\ opening' = [opening EXCEPT ![o].at = "read", ![o].read = R] /\ current' = current
    BY <1>4 DEF HistoryRead
  <2>2. opening[o] # NoCall /\ opening[o] \in CallsOf /\ R \in SUBSET Turns
    BY <2>1 DEF NoCall, StoreOK, StoreTypes, CallsOK
  <2>3. x \in CallsOf /\ x.at = "read" /\ x.chat = opening[o].chat /\ x.read = R /\ x.before = opening[o].before
    BY <2>2 DEF CallsOf
  <2>4. opening' = [opening EXCEPT ![o] = x]
    BY <2>1, <2>2 DEF CallsOf
  <2> HIDE DEF x
  <2>5. opening'[o] = x => Moves(o)
    BY <2>1, <2>2, <2>3 DEF Moves, IsRead
  <2>6. x.chat \in Chats /\ current # NoChat /\ current' \in Chats \cup {NoChat}
    BY <2>1, <2>2, <2>3 DEF StoreOK, CallsOK
  <2> HIDE DEF R
  <2> QED BY <2>1, <2>3, <2>4, <2>5, <2>6, ReplacedCall
<1>5. ASSUME NEW o \in Calls, Follow(o) PROVE CallsMove
  <2> DEFINE c == opening[o].chat
             a == IF up THEN "reading" ELSE "failed"
             x == [opening[o] EXCEPT !.at = a, !.before = trace[c].shown]
  <2>1. opening[o].at = "subscribed" /\ current' = current
    BY <1>5 DEF Follow
  <2>2. opening[o] # NoCall /\ opening[o] \in CallsOf /\ c \in Chats
    BY <2>1 DEF NoCall, StoreOK, StoreTypes, CallsOK
  <2>3. trace[c].shown \in SUBSET Turns
    <3>1. trace[c] \in Traces
      BY <2>2 DEF StoreOK, StoreTypes, CallsOK
    <3> QED BY <3>1 DEF Traces
  <2>4. CASE trace[c].status # "absent" /\ Running(c)
    BY <1>5, <2>1, <2>4, ReturnMoves DEF Follow
  <2>5. CASE ~(trace[c].status # "absent" /\ Running(c))
    <3>1. opening' = [opening EXCEPT ![o].at = a, ![o].before = trace[c].shown]
      BY <1>5, <2>5 DEF Follow
    <3>2. x \in CallsOf /\ x.at = a /\ x.chat = c /\ x.read = opening[o].read /\ x.before = trace[c].shown
          /\ a \in {"reading", "failed"}
      BY <2>2, <2>3 DEF CallsOf
    <3>3. opening' = [opening EXCEPT ![o] = x]
      BY <2>2, <3>1 DEF CallsOf
    <3> HIDE DEF x, a
    <3>4. opening'[o] = x => Moves(o)
      BY <2>2, <2>5, <3>2 DEF Moves, Asks
    <3> QED BY <2>1, <2>2, <3>2, <3>3, <3>4, ReplacedCall DEF StoreOK, StoreTypes, CallsOK
  <2> QED BY <2>4, <2>5
<1>6. ASSUME NEW o \in Calls, Rebuild(o) PROVE CallsMove
  BY <1>6, ReturnMoves DEF Rebuild
<1>7. ASSUME NEW o \in Calls, NEW c \in Chats, Open(o, c) PROVE CallsMove
  <2>1. current' = c /\ opening' = [opening EXCEPT ![o] = Call(c, FALSE)] /\ c # NoChat
    BY <1>7, ChatAssumption DEF Open
  <2>2. opening'[o] = Call(c, FALSE) => Moves(o)
    BY CallTyped DEF Moves, Begins
  <2> QED BY <2>1, <2>2, CallTyped, ReplacedCall
<1>8. ASSUME NEW o \in Calls, Loaded(o) PROVE CallsMove
  <2>1. PICK c \in Chats, again \in BOOLEAN :
          opening' = [opening EXCEPT ![o] = Call(c, again)] /\ current' = c
    BY <1>8 DEF Loaded, StoreOK, StoreTypes, CallsOK
  <2>2. opening'[o] = Call(c, again) => Moves(o)
    BY CallTyped DEF Moves, Begins
  <2>3. c # NoChat
    BY ChatAssumption
  <2>4. Call(c, again) \in CallsOf /\ Call(c, again).chat = c
    BY CallTyped
  <2>5. current' \in Chats \cup {NoChat} /\ (current # NoChat => current' # NoChat)
    BY <2>1, <2>3
  <2> QED BY <2>1, <2>2, <2>3, <2>4, <2>5, ReplacedCall
<1>9. ASSUME NEW t \in Turns, Submit(t) \/ OthersSend(t) \/ Begin(t) \/ Stream(t) \/ Finish(t) PROVE CallsMove
  BY <1>1, <1>9 DEF Submit, OthersSend, Begin, Stream, Finish, ServerOnly
<1>10. CASE Interrupt \/ SessionsListed \/ TurnStarts \/ Connected \/ Receive \/ Started \/ StartFailed
  BY <1>1, <1>10 DEF Interrupt, SessionsListed, TurnStarts, Connected, Receive, Started, StartFailed
<1>11. CASE UNCHANGED storeVars
  BY <1>1, <1>11 DEF storeVars
<1> QED
  BY <1>2, <1>3, <1>4, <1>5, <1>6, <1>7, <1>8, <1>9, <1>10, <1>11
  DEF StoreNext, UserStep, ServerStep, Progress

(* What a step does to the turns and the wire *)

\* Turns never go back.
Forward ==
  \A u \in Turns : /\ turnAt[u] = "over" => turnAt'[u] = "over"
                   /\ turnAt[u] = "driving" => turnAt'[u] \in {"driving", "over"}

\* A step leaves the queues alone, or a turn joins, begins to drive, or leaves; and what
\* that means for the wire and the turn session/list shows.
Calm == /\ UNCHANGED <<line, turnAt, active>>
        /\ \/ wire' \in {wire, <<>>} \/ (wire # <<>> /\ wire' = Tail(wire))
           \/ \E t \in Turns : turnAt[t] = "driving" /\ wire' = Append(wire, Note("text", t))
Joins(t) == Enter(t) /\ turnAt[t] = "none" /\ wire' = wire
Drives(t) == /\ turnAt[t] = "queued" /\ Head(line[ChatOf[t]]) = t
             /\ turnAt' = [turnAt EXCEPT ![t] = "driving"] /\ UNCHANGED <<line, active, wire>>
Leaves(h) == /\ Live(h) /\ Head(line[ChatOf[h]]) = h
             /\ turnAt' = [turnAt EXCEPT ![h] = "over"]
             /\ line' = [line EXCEPT ![ChatOf[h]] = Tail(line[ChatOf[h]])]
             /\ \/ wire' = wire /\ active' = active
                \/ /\ wire' \in {wire, Append(wire, Note("done", h))}
                   /\ active' = [active EXCEPT ![ChatOf[h]] = IF @ = h THEN NoTurn ELSE @]
Changes == Calm \/ \E t \in Turns : Joins(t) \/ Drives(t) \/ Leaves(t)

\* Every step is one of these.
LEMMA TurnsChange ==
  ASSUME StoreOK, LineInv, [StoreNext]_storeVars, send.at = "asking" => turnAt[send.turn] = "none" /\ send.turn \in Turns
  PROVE  Changes
<1>1. ASSUME UNCHANGED <<line, turnAt, active, wire>> PROVE Changes
  BY <1>1 DEF Changes, Calm
<1>2. ASSUME NEW t \in Turns, OthersSend(t) PROVE Changes
  BY <1>2 DEF OthersSend, Changes, Joins
<1>3. ASSUME NEW t \in Turns, Begin(t) PROVE Changes
  <2>1. CASE t \in aborted
    BY <1>3, <2>1 DEF Begin, Changes, Leaves, Live
  <2>2. CASE t \notin aborted
    BY <1>3, <2>2 DEF Begin, Changes, Drives
  <2> QED BY <2>1, <2>2
<1>4. ASSUME NEW t \in Turns, Stream(t) PROVE Changes
  BY <1>4 DEF Stream, ServerOnly, Tell, Changes, Calm, Note
<1>5. ASSUME NEW t \in Turns, Finish(t) PROVE Changes
  <2>1. Head(line[ChatOf[t]]) = t
    <3>1. PICK i \in 1..Len(line[ChatOf[t]]) : line[ChatOf[t]][i] = t
      BY <1>5 DEF Finish, LineInv, Live
    <3>2. i = 1
      BY <1>5, <3>1, LineTypes DEF Finish, LineInv
    <3>3. line[ChatOf[t]] \in Seq(Turns) /\ line[ChatOf[t]] # <<>>
      BY <3>1, LineTypes
    <3> QED BY <3>1, <3>2, <3>3, Taken
  <2> QED BY <1>5, <2>1 DEF Finish, Tell, Changes, Leaves, Live, Note
<1>6. CASE TurnStarts
  BY <1>6 DEF TurnStarts, Changes, Joins
<1>7. CASE Drop
  BY <1>7 DEF Drop, Changes, Calm
<1>8. CASE Receive
  BY <1>8 DEF Receive, serverVars, Changes, Calm
<1>9. ASSUME NEW o \in Calls, \/ Subscribes(o) \/ HistoryRead(o) \/ Follow(o) \/ Rebuild(o) \/ Loaded(o)
                              \/ \E c \in Chats : Open(o, c)
      PROVE  Changes
  BY <1>1, <1>9 DEF Subscribes, HistoryRead, Follow, Rebuild, Loaded, Open, WindowOnly, serverVars
<1>10. CASE Interrupt \/ SessionsListed \/ Connected \/ Started \/ StartFailed \/ \E t \in Turns : Submit(t)
  BY <1>1, <1>10 DEF Interrupt, SessionsListed, Connected, Started, StartFailed, Submit, WindowOnly, serverVars
<1>11. CASE UNCHANGED storeVars
  BY <1>1, <1>11 DEF storeVars, serverVars
<1> QED
  BY <1>2, <1>3, <1>4, <1>5, <1>6, <1>7, <1>8, <1>9, <1>10, <1>11
  DEF StoreNext, UserStep, ServerStep, Progress

\* They keep the queues in order; only a turn that joins is newly alive.
LEMMA ChangesForward ==
  ASSUME TalkInv, Changes
  PROVE  /\ LineInv' /\ Forward
         /\ line' \in [Chats -> Seq(Turns)] /\ active' \in [Chats -> OrNoTurn]
         /\ turnAt' \in [Turns -> {"none", "queued", "driving", "over"}]
         /\ \A u \in Turns : Live(u)' => Live(u) \/ Joins(u)
<1>1. CASE Calm
  BY <1>1 DEF Calm, TalkInv, StoreOK, StoreTypes, LineInv, Live, Forward
<1>2. ASSUME NEW t \in Turns, Joins(t)
      PROVE  /\ LineInv' /\ Forward
             /\ line' \in [Chats -> Seq(Turns)] /\ active' \in [Chats -> OrNoTurn]
             /\ turnAt' \in [Turns -> {"none", "queued", "driving", "over"}]
             /\ \A u \in Turns : Live(u)' => Live(u) \/ Joins(u)
  <2>1. StoreOK /\ LineInv /\ Enter(t) /\ turnAt[t] = "none"
    BY <1>2 DEF TalkInv, Joins
  <2>2. /\ LineInv' /\ turnAt'[t] = "queued"
        /\ \A u \in Turns : u # t => turnAt'[u] = turnAt[u]
        /\ line' \in [Chats -> Seq(Turns)] /\ active' \in [Chats -> OrNoTurn]
        /\ turnAt' \in [Turns -> {"none", "queued", "driving", "over"}]
    BY <2>1, EnterLine
  <2> QED BY <1>2, <2>1, <2>2 DEF Forward, Live
<1>3. ASSUME NEW t \in Turns, Drives(t)
      PROVE  /\ LineInv' /\ Forward
             /\ line' \in [Chats -> Seq(Turns)] /\ active' \in [Chats -> OrNoTurn]
             /\ turnAt' \in [Turns -> {"none", "queued", "driving", "over"}]
             /\ \A u \in Turns : Live(u)' => Live(u)
  <2>1. StoreOK /\ LineInv
    BY DEF TalkInv
  <2>2. /\ turnAt' \in [Turns -> {"none", "queued", "driving", "over"}]
        /\ turnAt'[t] = "driving" /\ turnAt[t] = "queued"
        /\ \A u \in Turns : u # t => turnAt'[u] = turnAt[u]
        /\ line' = line /\ active' = active
    BY <1>3, <2>1 DEF Drives, StoreOK, StoreTypes
  <2>3. \A u \in Turns : (turnAt'[u] \in {"queued", "driving"}) <=> (turnAt[u] \in {"queued", "driving"})
    BY <2>2
  <2>4. ASSUME NEW c \in Chats, NEW i \in 1..Len(line[c]), turnAt'[line[c][i]] = "driving" PROVE i = 1
    <3>1. CASE line[c][i] = t
      <4>1. c = ChatOf[t] /\ line[c] \in Seq(Turns) /\ line[c] # <<>> /\ 1 \in 1..Len(line[c])
        BY <2>1, <3>1, LineTypes DEF LineInv
      <4>2. line[c][1] = t
        BY <1>3, <4>1, Taken DEF Drives
      <4> QED BY <2>1, <3>1, <4>1, <4>2 DEF LineInv
    <3>2. CASE line[c][i] # t
      BY <2>1, <2>2, <2>4, <3>2, LineTypes DEF LineInv
    <3> QED BY <3>1, <3>2
  <2>5. LineInv'
    BY <2>1, <2>2, <2>3, <2>4, LineTypes, SMTT(20) DEF LineInv, Live
  <2> QED BY <2>1, <2>2, <2>3, <2>5 DEF Forward, Live, StoreOK, StoreTypes
<1>4. ASSUME NEW t \in Turns, Leaves(t)
      PROVE  /\ LineInv' /\ Forward
             /\ line' \in [Chats -> Seq(Turns)] /\ active' \in [Chats -> OrNoTurn]
             /\ turnAt' \in [Turns -> {"none", "queued", "driving", "over"}]
             /\ \A u \in Turns : Live(u)' => Live(u)
  <2>1. StoreOK /\ LineInv
    BY DEF TalkInv
  <2>2. /\ LineInv' /\ turnAt'[t] = "over"
        /\ \A u \in Turns : u # t => turnAt'[u] = turnAt[u]
        /\ line' \in [Chats -> Seq(Turns)]
        /\ turnAt' \in [Turns -> {"none", "queued", "driving", "over"}]
    BY <1>4, <2>1, LeaveLine DEF Leaves
  <2>3. active' \in [Chats -> OrNoTurn]
    BY <1>4, <2>1 DEF Leaves, StoreOK, StoreTypes, OrNoTurn
  <2> QED BY <2>2, <2>3 DEF Forward, Live
<1> QED BY <1>1, <1>2, <1>3, <1>4 DEF Changes

\* They keep the notices in order.
LEMMA WireKept ==
  ASSUME TalkInv, Changes
  PROVE  WireInv' /\ wire' \in Seq(Notices)
<1> USE DEF TalkInv
<1>1. Forward /\ StoreOK
  BY ChangesForward
<1>2. wire \in Seq(Notices) /\ Len(wire) \in Nat
  BY <1>1 DEF StoreOK, StoreTypes
<1>3. \A i \in 1..Len(wire) : wire[i].turn \in Turns /\ wire[i].kind \in {"text", "done"}
  BY <1>1, LineTypes
<1>4. /\ \A i \in 1..Len(wire) :
           /\ turnAt'[wire[i].turn] \in {"driving", "over"}
           /\ wire[i].kind = "done" => turnAt'[wire[i].turn] = "over"
      /\ \A i, j \in 1..Len(wire) :
           i < j /\ wire[i].kind = "text" /\ wire[j].kind = "done"
             /\ ChatOf[wire[i].turn] = ChatOf[wire[j].turn] => turnAt'[wire[i].turn] = "over"
  BY <1>1, <1>3 DEF WireInv, Forward
<1>5. CASE wire' = wire
  BY <1>2, <1>4, <1>5 DEF WireInv
<1>6. CASE wire' = <<>>
  BY <1>6 DEF WireInv
<1>7. CASE wire # <<>> /\ wire' = Tail(wire)
  <2> DEFINE w == Tail(wire)
  <2>1. /\ w \in Seq(Notices) /\ Len(w) \in Nat
        /\ \A i \in 1..Len(w) : i + 1 \in 1..Len(wire) /\ w[i] = wire[i + 1]
    BY <1>2, <1>7, Taken
  <2> HIDE DEF w
  <2>2. \A i, j \in 1..Len(w) : i < j => i + 1 < j + 1
    BY <2>1
  <2>3. WireInv'
    BY <1>4, <1>7, <2>1, <2>2 DEF WireInv, w
  <2> QED BY <1>7, <2>1, <2>3 DEF w
<1>8. ASSUME NEW kind \in {"text", "done"}, NEW t \in Turns, wire' = Append(wire, Note(kind, t)),
             turnAt'[t] \in {"driving", "over"}, kind = "done" => turnAt'[t] = "over",
             kind = "done" => \A u \in Turns : ChatOf[u] = ChatOf[t] => turnAt'[u] # "driving"
      PROVE  WireInv' /\ wire' \in Seq(Notices)
  <2> DEFINE m == Note(kind, t)
  <2>1. m \in Notices /\ m.kind = kind /\ m.turn = t
    BY <1>8 DEF Note, Notices
  <2> HIDE DEF m
  <2>2. /\ wire' \in Seq(Notices) /\ Len(wire') = Len(wire) + 1
        /\ \A i \in 1..Len(wire) : wire'[i] = wire[i]
        /\ wire'[Len(wire) + 1] = m
    BY <1>2, <1>8, <2>1, Appended DEF m
  <2>3. \A i \in 1..Len(wire') : i \in 1..Len(wire) \/ i = Len(wire) + 1
    BY <1>2, <2>2
  <2>4. \A i \in 1..Len(wire') : /\ turnAt'[wire'[i].turn] \in {"driving", "over"}
                                 /\ wire'[i].kind = "done" => turnAt'[wire'[i].turn] = "over"
    BY <1>4, <1>8, <2>1, <2>2, <2>3
  <2>5. ASSUME NEW i \in 1..Len(wire'), NEW j \in 1..Len(wire'),
               i < j, wire'[i].kind = "text", wire'[j].kind = "done",
               ChatOf[wire'[i].turn] = ChatOf[wire'[j].turn]
        PROVE  turnAt'[wire'[i].turn] = "over"
    <3>1. i \in 1..Len(wire) /\ wire'[i] = wire[i] /\ wire[i].turn \in Turns
      BY <1>2, <1>3, <2>2, <2>3, <2>5
    <3>2. CASE j \in 1..Len(wire)
      BY <1>4, <2>2, <2>5, <3>1, <3>2
    <3>3. CASE j = Len(wire) + 1
      BY <1>4, <1>8, <2>1, <2>2, <2>5, <3>1, <3>3
    <3> QED BY <2>3, <3>2, <3>3
  <2> QED BY <2>2, <2>4, <2>5 DEF WireInv
<1>9. ASSUME NEW t \in Turns, turnAt[t] = "driving", turnAt' = turnAt, wire' = Append(wire, Note("text", t))
      PROVE  WireInv' /\ wire' \in Seq(Notices)
  BY <1>8, <1>9
<1>10. ASSUME NEW h \in Turns, Leaves(h), wire' = Append(wire, Note("done", h))
       PROVE  WireInv' /\ wire' \in Seq(Notices)
  <2>1. LineInv' /\ turnAt'[h] = "over" /\ \A u \in Turns : u # h => turnAt'[u] = turnAt[u]
    BY <1>1, <1>10, LeaveLine DEF Leaves
  <2>2. ASSUME NEW u \in Turns, ChatOf[u] = ChatOf[h], turnAt'[u] = "driving" PROVE FALSE
    <3>1. u # h /\ turnAt[u] = "driving" /\ Live(u)
      BY <2>1, <2>2 DEF Live
    <3>2. PICK i \in 1..Len(line[ChatOf[h]]) : line[ChatOf[h]][i] = u
      BY <2>2, <3>1 DEF LineInv
    <3>3. i = 1 /\ line[ChatOf[h]] \in Seq(Turns) /\ line[ChatOf[h]] # <<>>
      BY <1>1, <3>1, <3>2, LineTypes DEF LineInv
    <3> QED BY <1>10, <3>1, <3>2, <3>3, Taken DEF Leaves
  <2> QED BY <1>8, <1>10, <2>1, <2>2
<1> QED BY <1>5, <1>6, <1>7, <1>9, <1>10 DEF Changes, Calm, Joins, Drives, Leaves

\* A notice that a step adds is of the turn that ends.
LEMMA ToldBy ==
  ASSUME TalkInv, Changes, NEW g \in Turns, Told("done", g)'
  PROVE  Told("done", g) \/ Leaves(g)
<1>1. wire \in Seq(Notices) /\ Len(wire) \in Nat
  BY DEF TalkInv, StoreOK, StoreTypes
<1>2. PICK i \in 1..Len(wire') : wire'[i] = Note("done", g)
  BY DEF Told
<1>3. CASE wire' = wire
  BY <1>2, <1>3 DEF Told
<1>4. CASE wire' = <<>>
  BY <1>2, <1>4
<1>5. CASE wire # <<>> /\ wire' = Tail(wire)
  BY <1>1, <1>2, <1>5, Taken DEF Told
<1>6. ASSUME NEW kind \in {"text", "done"}, NEW t \in Turns, wire' = Append(wire, Note(kind, t))
      PROVE  Told("done", g) \/ (kind = "done" /\ g = t)
  <2>1. Note(kind, t) \in Notices
    BY <1>6 DEF Note, Notices
  <2>2. CASE i \in 1..Len(wire)
    BY <1>1, <1>2, <1>6, <2>1, <2>2, Appended DEF Told
  <2>3. CASE i = Len(wire) + 1
    <3>1. Note(kind, t) = Note("done", g)
      BY <1>1, <1>2, <1>6, <2>1, <2>3, Appended
    <3> QED BY <3>1 DEF Note
  <2>4. i \in 1..Len(wire) \/ i = Len(wire) + 1
    BY <1>1, <1>2, <1>6, <2>1, Appended
  <2> QED BY <2>2, <2>3, <2>4
<1> QED BY <1>3, <1>4, <1>5, <1>6 DEF Changes, Calm, Joins, Drives, Leaves

\* What keeps a chat marked as running keeps doing so while the turn lives.
LEMMA CoversKept ==
  ASSUME TalkInv, Changes, NEW g \in OrNoTurn, NEW t \in Turns, Live(t), Live(t)', Covers(g, t)
  PROVE  Covers(g, t)'
<1>1. g \in Turns /\ g # NoTurn /\ ~Told("done", g)
  BY DEF Covers, OrNoTurn
<1>2. Forward /\ StoreOK /\ LineInv
  BY ChangesForward DEF TalkInv
<1>3. CASE Leaves(g)
  <2>1. turnAt[g] # "over"
    BY <1>3 DEF Leaves, Live
  <2>2. Waits(t, g) /\ t # g
    <3>1. turnAt'[g] = "over"
      BY <1>1, <1>2, <1>3 DEF Leaves, StoreOK, StoreTypes
    <3> QED BY <2>1, <3>1 DEF Covers, Live
  <2> QED BY <1>1, <1>2, <1>3, <2>2, LeaveLine DEF Leaves
<1>4. CASE ~Leaves(g)
  <2>1. ~Told("done", g)'
    BY <1>1, <1>4, ToldBy
  <2>2. CASE turnAt[g] = "over"
    BY <1>1, <1>2, <2>1, <2>2 DEF Covers, Forward
  <2>3. CASE Waits(t, g)
    <3>1. Waits(t, g)' \/ turnAt'[g] = "over"
      <4>1. ASSUME UNCHANGED line PROVE Waits(t, g)'
        BY <2>3, <4>1 DEF Waits
      <4>2. ASSUME NEW u \in Turns, Joins(u) PROVE Waits(t, g)'
        BY <1>1, <1>2, <2>3, <4>2, EnterLine DEF Joins
      <4>3. ASSUME NEW u \in Turns, Leaves(u) PROVE Waits(t, g)'
        <5>1. u # t
          BY <1>2, <4>3 DEF Leaves, Live, StoreOK, StoreTypes
        <5> QED BY <1>1, <1>2, <2>3, <4>3, <5>1, LeaveLine DEF Leaves
      <4> QED BY <4>1, <4>2, <4>3 DEF Changes, Calm, Drives
    <3> QED BY <1>1, <2>1, <3>1 DEF Covers
  <2> QED BY <2>2, <2>3 DEF Covers
<1> QED BY <1>3, <1>4

(* The window *)

\* While a message is sent it is the window's only live turn in that chat, and the chat is
\* in its grace.
SendInv ==
  /\ send.at = "none" <=> send.turn = NoTurn
  /\ send.turn # NoTurn =>
       /\ send.turn \in Mine /\ ChatOf[send.turn] \in grace
       /\ \A t \in Turns : Own(t) /\ ChatOf[t] = ChatOf[send.turn] => t = send.turn
  /\ send.at = "asking" => turnAt[send.turn] = "none"
  /\ send.at = "failed" => turnAt[send.turn] = "none" \/ send.turn \in orphaned
\* What session/list shows, what the window believes, and what a list under way will make
\* it believe covers every turn it must know of; hence no second one is submitted.
ActiveInv == \A t \in Turns : Live(t) => Covers(active[ChatOf[t]], t)
RunInv == \A t \in Turns : Own(t) => send.turn = t \/ Covers(runIds[ChatOf[t]], t)
LoadInv ==
  load.at = "answered" =>
    \A t \in Turns : Own(t) => ChatOf[t] \in grace \/ Covers(load.runs[ChatOf[t]], t)
Single == \A t, u \in Turns : Own(t) /\ Own(u) /\ ChatOf[t] = ChatOf[u] => t = u

QueueInv == SendInv /\ ActiveInv /\ RunInv /\ LoadInv /\ Single

\* The server starts the turn t for this window.
Sends(t) == TurnStarts /\ send.turn = t

\* No other step adds to the live turns of this window.
LEMMA OwnGrows ==
  ASSUME TalkInv, SendInv, [StoreNext]_storeVars
  PROVE  /\ orphaned \subseteq orphaned'
         /\ \A t \in Mine : turnAt[t] = "none" /\ ~Sends(t) => turnAt'[t] = "none"
         /\ \A t \in Turns : Own(t)' => Own(t) \/ (Sends(t) /\ t \in Mine)
<1>1. Mine \subseteq Turns /\ turnAt \in [Turns -> {"none", "queued", "driving", "over"}]
  BY ChatAssumption DEF TalkInv, StoreOK, StoreTypes
<1>2. orphaned \subseteq orphaned'
  BY DEF StoreNext, UserStep, ServerStep, Progress, storeVars, Open, Submit, Interrupt, OthersSend, Begin,
    Stream, Finish, ServerOnly, WindowOnly, Subscribes, HistoryRead, Follow, Rebuild, Loaded, SessionsListed,
    TurnStarts, Connected, Receive, Started, StartFailed, Drop
<1>3. ASSUME UNCHANGED turnAt
      PROVE  /\ \A t \in Mine : turnAt[t] = "none" => turnAt'[t] = "none"
             /\ \A t \in Turns : Own(t)' => Own(t)
  BY <1>2, <1>3 DEF Own, Live
<1>4. ASSUME NEW u \in Turns, OthersSend(u) \/ Begin(u) \/ Stream(u) \/ Finish(u)
      PROVE  /\ \A t \in Mine : turnAt[t] = "none" => turnAt'[t] = "none"
             /\ \A t \in Turns : Own(t)' => Own(t)
  <2>1. \/ turnAt' = turnAt
        \/ turnAt' = [turnAt EXCEPT ![u] = "queued"] /\ u \notin Mine
        \/ turnAt[u] \in {"queued", "driving"} /\ turnAt' = [turnAt EXCEPT ![u] = "driving"]
        \/ turnAt[u] \in {"queued", "driving"} /\ turnAt' = [turnAt EXCEPT ![u] = "over"]
    BY <1>4 DEF OthersSend, Enter, Begin, Stream, Finish
  <2> QED BY <1>1, <1>2, <2>1 DEF Own, Live
<1>5. ASSUME TurnStarts
      PROVE  /\ \A t \in Mine : turnAt[t] = "none" /\ ~Sends(t) => turnAt'[t] = "none"
             /\ \A t \in Turns : Own(t)' => Own(t) \/ (Sends(t) /\ t \in Mine)
  <2>1. send.turn \in Mine /\ turnAt' = [turnAt EXCEPT ![send.turn] = "queued"]
    BY <1>5 DEF TurnStarts, Enter, SendInv
  <2> QED BY <1>1, <1>2, <1>5, <2>1 DEF Own, Live, Sends
<1>6. ASSUME Drop \/ UserStep \/ UNCHANGED storeVars PROVE turnAt' = turnAt
  BY <1>6 DEF Drop, UserStep, Open, Submit, Interrupt, WindowOnly, serverVars, storeVars
<1>7. ASSUME Progress, ~TurnStarts PROVE turnAt' = turnAt
  BY <1>7 DEF Progress, Subscribes, HistoryRead, Follow, Rebuild, Loaded, SessionsListed, Connected, Receive,
    Started, StartFailed, WindowOnly, serverVars
<1> QED BY <1>2, <1>3, <1>4, <1>5, <1>6, <1>7 DEF StoreNext, ServerStep

\* The fields of the store keep their types.
LEMMA WindowTypes ==
  ASSUME StoreOK, SendInv, [StoreNext]_storeVars
  PROVE  /\ runIds' \in [Chats -> OrNoTurn] /\ said' \subseteq Turns
         /\ grace' \subseteq Chats /\ orphaned' \subseteq Turns
         /\ trace' \in [Chats -> Traces]
         /\ send' \in [at : {"none", "asking", "answered", "failed"}, turn : OrNoTurn]
         /\ load' \in [at : {"none", "asking", "answered"}, runs : [Chats -> OrNoTurn]]
<1>1. StoreTypes /\ CallsOK /\ Mine \subseteq Turns /\ ChatOf \in [Turns -> Chats]
  BY ChatAssumption DEF StoreOK
<1>2. CASE UNCHANGED <<runIds, said, grace, orphaned, trace, send, load>>
  BY <1>1, <1>2 DEF StoreTypes
<1>3. NoSend \in [at : {"none", "asking", "answered", "failed"}, turn : OrNoTurn]
  BY DEF NoSend, OrNoTurn
<1>4. /\ NoLoad \in [at : {"none", "asking", "answered"}, runs : [Chats -> OrNoTurn]]
      /\ [NoLoad EXCEPT !.at = "asking"] \in [at : {"none", "asking", "answered"}, runs : [Chats -> OrNoTurn]]
  BY DEF NoLoad, OrNoTurn
<1>5. \A a \in {"answered", "failed"} :
        [send EXCEPT !.at = a] \in [at : {"none", "asking", "answered", "failed"}, turn : OrNoTurn]
  BY <1>1 DEF StoreTypes
<1>6. ASSUME NEW t \in Turns, OthersSend(t) \/ Begin(t)
      PROVE  UNCHANGED <<runIds, said, grace, orphaned, trace, send, load>>
  BY <1>6 DEF OthersSend, Begin, ServerOnly
<1>7. ASSUME NEW t \in Turns, Stream(t) \/ Finish(t)
      PROVE  UNCHANGED <<runIds, grace, orphaned, trace, send, load>> /\ said' \subseteq Turns
  BY <1>1, <1>7 DEF Stream, Finish, ServerOnly, StoreTypes
<1>8. CASE SessionsListed
  <2>1. load' \in [at : {"none", "asking", "answered"}, runs : [Chats -> OrNoTurn]]
    BY <1>1, <1>8 DEF SessionsListed, StoreTypes
  <2> QED BY <1>1, <1>8, <2>1 DEF SessionsListed, serverVars, StoreTypes
<1>9. CASE TurnStarts
  BY <1>1, <1>5, <1>9 DEF TurnStarts, StoreTypes
<1>10. CASE Drop
  <2>1. send.at = "answered" => send.turn \in Turns
    BY <1>1 DEF SendInv
  <2> QED BY <1>1, <1>4, <1>5, <1>10, <2>1 DEF Drop, StoreTypes
<1>11. CASE Connected
  BY <1>1, <1>4, <1>11 DEF Connected, StoreTypes, serverVars
<1>12. ASSUME NEW c \in Chats, NEW y \in Traces, trace' = [trace EXCEPT ![c] = y]
      PROVE  trace' \in [Chats -> Traces]
  BY <1>1, <1>12 DEF StoreTypes
<1>13. \A c \in Chats : trace[c] \in Traces /\ trace[c].shown \subseteq Turns
  <2>1. ASSUME NEW c \in Chats PROVE trace[c] \in Traces
    BY <1>1 DEF StoreTypes
  <2> QED BY <2>1 DEF Traces
<1>14. CASE Receive
  <2>1. Head(wire).turn \in Turns /\ ChatOf[Head(wire).turn] \in Chats
    <3>1. wire \in Seq(Notices) /\ wire # <<>>
      BY <1>1, <1>14 DEF Receive, StoreTypes
    <3>2. Head(wire) \in Notices
      BY <3>1, Taken
    <3> QED BY <1>1, <3>2 DEF Notices
  <2> DEFINE t == Head(wire).turn
             c == ChatOf[t]
  <2>2. t \in Turns /\ c \in Chats
    BY <2>1
  <2>3. CASE TextArrives(t)
    <3>1. trace' = [trace EXCEPT ![c] = [status |-> "running", shown |-> trace[c].shown \cup {t}]] /\ runIds' = runIds
      BY <2>3 DEF TextArrives
    <3> HIDE DEF c, t
    <3>2. [status |-> "running", shown |-> trace[c].shown \cup {t}] \in Traces
      BY <1>13, <2>2 DEF Traces
    <3> QED BY <1>1, <1>12, <1>14, <2>2, <3>1, <3>2 DEF Receive, serverVars, StoreTypes
  <2>4. CASE EndArrives(t)
    <3>1. /\ trace' = [trace EXCEPT ![c] = [trace[c] EXCEPT !.status = "quiet"]]
          /\ runIds' = [runIds EXCEPT ![c] = IF runIds[c] = t THEN NoTurn ELSE runIds[c]]
      BY <2>4 DEF EndArrives
    <3> HIDE DEF c, t
    <3>2. [trace[c] EXCEPT !.status = "quiet"] \in Traces
      <4>1. trace[c] \in Traces
        BY <1>13, <2>2
      <4> QED BY <4>1 DEF Traces
    <3>3. runIds' \in [Chats -> OrNoTurn]
      BY <1>1, <2>2, <3>1 DEF StoreTypes, OrNoTurn
    <3> QED BY <1>1, <1>12, <1>14, <2>2, <3>1, <3>2, <3>3 DEF Receive, serverVars, StoreTypes
  <2> QED BY <1>14, <2>3, <2>4 DEF Receive
<1>15. ASSUME NEW o \in Calls, Rebuild(o) PROVE trace' \in [Chats -> Traces]
  <2> DEFINE c == opening[o].chat
  <2>1. CASE current # c
    BY <1>1, <1>15, <2>1 DEF Rebuild, StoreTypes
  <2>2. CASE current = c
    <3>1. opening[o] \in CallsOf /\ opening[o].read \subseteq Turns /\ c \in Chats
      <4>1. opening[o] \in CallsOf /\ opening[o] # NoCall
        BY <1>1, <1>15 DEF CallsOK, Rebuild, NoCall
      <4> QED BY <1>1, <4>1 DEF CallsOK, CallsOf
    <3>2. /\ [status |-> "quiet", shown |-> opening[o].read] \in Traces
          /\ [status |-> "quiet", shown |-> {}] \in Traces
      BY <3>1 DEF Traces
    <3>3. \E y \in Traces : trace' = [trace EXCEPT ![c] = y]
      <4>1. CASE opening[o].at = "read"
        BY <1>15, <2>2, <3>2, <4>1 DEF Rebuild
      <4>2. CASE opening[o].at # "read"
        BY <1>13, <1>15, <2>2, <3>1, <3>2, <4>2 DEF Rebuild
      <4> QED BY <4>1, <4>2
    <3> QED BY <1>12, <3>1, <3>3
  <2> QED BY <2>1, <2>2
<1>16. ASSUME NEW o \in Calls, Rebuild(o)
       PROVE  UNCHANGED <<runIds, said, grace, orphaned, send, load>>
  BY <1>16 DEF Rebuild, WindowOnly, serverVars
<1>17. ASSUME NEW o \in Calls, Subscribes(o) \/ HistoryRead(o) \/ Follow(o) \/ \E c \in Chats : Open(o, c)
       PROVE  UNCHANGED <<runIds, said, grace, orphaned, trace, send, load>>
  BY <1>17 DEF Subscribes, HistoryRead, Follow, Open, WindowOnly, serverVars
<1>18. ASSUME NEW o \in Calls, Loaded(o) PROVE runIds' \in [Chats -> OrNoTurn]
  <2>1. runIds' = [c \in Chats |-> IF c \in grace THEN runIds[c] ELSE load.runs[c]]
    BY <1>18 DEF Loaded, Reconciled
  <2>2. \A c \in Chats : runIds[c] \in OrNoTurn /\ load.runs[c] \in OrNoTurn
    BY <1>1 DEF StoreTypes
  <2> QED BY <2>1, <2>2
<1>19. ASSUME NEW o \in Calls, Loaded(o) PROVE load' = NoLoad /\ UNCHANGED <<said, grace, orphaned, trace, send>>
  BY <1>19 DEF Loaded, WindowOnly, serverVars
<1>20. ASSUME NEW t \in Turns, Submit(t)
       PROVE  /\ trace' \in [Chats -> Traces] /\ grace' \subseteq Chats
              /\ send' \in [at : {"none", "asking", "answered", "failed"}, turn : OrNoTurn]
              /\ UNCHANGED <<runIds, said, orphaned, load>>
  <2> DEFINE c == ChatOf[t]
             y == [trace[c] EXCEPT !.status = IF trace[c].status = "absent" THEN "quiet" ELSE trace[c].status]
  <2>1. c \in Chats
    BY <1>1
  <2>2. y \in Traces
    <3>1. trace[c] \in Traces
      BY <1>13, <2>1
    <3> QED BY <3>1 DEF Traces
  <2>3. trace' = [trace EXCEPT ![c] = y] /\ grace' = grace \cup {c} /\ send' = [at |-> "asking", turn |-> t]
        /\ UNCHANGED <<runIds, said, orphaned, load>>
    BY <1>20 DEF Submit, WindowOnly, serverVars
  <2> HIDE DEF y, c
  <2> QED BY <1>1, <1>12, <2>1, <2>2, <2>3 DEF StoreTypes, OrNoTurn
<1>21. CASE Started
  <2>1. send.turn \in Turns
    BY <1>1, <1>21 DEF Started, SendInv
  <2>2. runIds' \in [Chats -> OrNoTurn]
    BY <1>1, <1>21, <2>1 DEF Started, StoreTypes, OrNoTurn
  <2> QED BY <1>1, <1>3, <1>21, <2>2 DEF Started, WindowOnly, serverVars, StoreTypes
<1>22. CASE StartFailed
  BY <1>1, <1>3, <1>22 DEF StartFailed, WindowOnly, serverVars, StoreTypes
<1>23. CASE Interrupt \/ UNCHANGED storeVars
  BY <1>2, <1>23 DEF Interrupt, storeVars, serverVars
<1>24. ASSUME NEW o \in Calls, Rebuild(o) \/ Loaded(o)
       PROVE  /\ runIds' \in [Chats -> OrNoTurn] /\ said' \subseteq Turns
              /\ grace' \subseteq Chats /\ orphaned' \subseteq Turns
              /\ trace' \in [Chats -> Traces]
              /\ send' \in [at : {"none", "asking", "answered", "failed"}, turn : OrNoTurn]
              /\ load' \in [at : {"none", "asking", "answered"}, runs : [Chats -> OrNoTurn]]
  BY <1>1, <1>4, <1>15, <1>16, <1>18, <1>19, <1>24 DEF StoreTypes
<1>25. ASSUME NEW t \in Turns, Stream(t) \/ Finish(t) \/ Submit(t)
       PROVE  /\ runIds' \in [Chats -> OrNoTurn] /\ said' \subseteq Turns
              /\ grace' \subseteq Chats /\ orphaned' \subseteq Turns
              /\ trace' \in [Chats -> Traces]
              /\ send' \in [at : {"none", "asking", "answered", "failed"}, turn : OrNoTurn]
              /\ load' \in [at : {"none", "asking", "answered"}, runs : [Chats -> OrNoTurn]]
  BY <1>1, <1>7, <1>20, <1>25 DEF StoreTypes
<1> QED
  BY <1>2, <1>6, <1>8, <1>9, <1>10, <1>11, <1>14, <1>17, <1>21, <1>22, <1>23, <1>24, <1>25
  DEF StoreNext, UserStep, ServerStep, Progress

\* The invariant from which it follows that own turns are in single file.
StoreInv == TalkInv /\ QueueInv

\* What the proofs of a step start from.
LEMMA StoreFacts ==
  ASSUME StoreInv, [StoreNext]_storeVars
  PROVE  /\ Changes /\ TalkInv' /\ Forward
         /\ \A g \in OrNoTurn, t \in Turns : Live(t) /\ Live(t)' /\ Covers(g, t) => Covers(g, t)'
         /\ \A t \in Turns : Live(t) => Covers(t, t)
<1>1. StoreOK /\ LineInv /\ WireInv /\ SendInv /\ TalkInv
  BY DEF StoreInv, TalkInv, QueueInv
<1>2. send.at = "asking" => turnAt[send.turn] = "none" /\ send.turn \in Turns
  BY <1>1, ChatAssumption DEF SendInv
<1>3. Changes
  BY <1>1, <1>2, TurnsChange
<1>4. TalkInv'
  <2>1. StoreTypes'
    BY <1>1, <1>3, ChangesForward, WireKept, WindowTypes DEF StoreTypes
  <2>2. CallsOK'
    BY <1>1, OpeningStep DEF CallsMove, CallsOK
  <2> QED BY <1>1, <1>3, <2>1, <2>2, ChangesForward, WireKept DEF TalkInv, StoreOK
<1>5. ASSUME NEW t \in Turns, Live(t) PROVE Covers(t, t)
  <2>1. Waits(t, t)
    BY <1>1, <1>5, LineTypes DEF LineInv, Waits
  <2>2. ~Told("done", t)
    BY <1>1, <1>5 DEF WireInv, Told, Note, Live
  <2> QED BY <2>1, <2>2, ChatAssumption DEF Covers
<1>6. Forward
  BY <1>1, <1>3, ChangesForward
<1>7. \A g \in OrNoTurn, t \in Turns : Live(t) /\ Live(t)' /\ Covers(g, t) => Covers(g, t)'
  BY <1>1, <1>3, CoversKept
<1> QED BY <1>3, <1>4, <1>5, <1>6, <1>7

\* The turn of a session, as session/list shows it, covers all its live ones.
LEMMA ActiveStep ==
  ASSUME StoreInv, [StoreNext]_storeVars
  PROVE  ActiveInv'
<1>1. /\ Changes /\ TalkInv /\ TalkInv' /\ ActiveInv /\ StoreOK /\ LineInv /\ WireInv
      /\ \A g \in OrNoTurn, t \in Turns : Live(t) /\ Live(t)' /\ Covers(g, t) => Covers(g, t)'
      /\ \A c \in Chats : active[c] \in OrNoTurn
  BY StoreFacts DEF StoreInv, QueueInv, TalkInv, StoreOK, StoreTypes
<1>2. ASSUME NEW t \in Turns, Live(t)', NEW g \in OrNoTurn, active'[ChatOf[t]] = g PROVE Covers(g, t)'
  <2> DEFINE c == ChatOf[t]
  <2>1. c \in Chats /\ active[c] \in OrNoTurn
    BY <1>1, ChatAssumption
  <2>2. ASSUME Live(t), active'[c] = active[c] PROVE Covers(g, t)'
    BY <1>1, <1>2, <2>1, <2>2 DEF ActiveInv
  <2>3. CASE Calm \/ \E u \in Turns : Drives(u)
    BY <1>1, <1>2, <2>2, <2>3 DEF Calm, Drives, Live, StoreOK, StoreTypes
  <2>4. ASSUME NEW u \in Turns, Joins(u) PROVE Covers(g, t)'
    <3>1. /\ \A x \in Turns : x # u => turnAt'[x] = turnAt[x]
          /\ \A x \in Turns : Live(x)' /\ ChatOf[x] = ChatOf[u] => Waits(x, u)'
          /\ active'[ChatOf[u]] = u /\ \A d \in Chats : d # ChatOf[u] => active'[d] = active[d]
      BY <1>1, <2>4, EnterLine DEF Joins
    <3>2. CASE c = ChatOf[u]
      <4>1. ~Told("done", u)'
        BY <1>1, <2>4, ToldBy DEF Joins, Leaves, Live, WireInv, Told, Note
      <4> QED BY <1>2, <3>1, <3>2, <4>1, ChatAssumption DEF Covers
    <3>3. CASE c # ChatOf[u]
      BY <1>2, <2>1, <2>2, <3>1, <3>3 DEF Live
    <3> QED BY <3>2, <3>3
  <2>5. ASSUME NEW h \in Turns, Leaves(h) PROVE Covers(g, t)'
    <3>1. /\ turnAt'[h] = "over" /\ \A x \in Turns : x # h => turnAt'[x] = turnAt[x]
          /\ \A x, y \in Turns : Waits(x, y) /\ x # h => y # h /\ Waits(x, y)'
      BY <1>1, <2>5, LeaveLine DEF Leaves
    <3>2. t # h /\ Live(t)
      BY <1>2, <3>1 DEF Live
    <3>3. active[c] # h
      <4>1. SUFFICES ASSUME active[c] = h PROVE FALSE
        OBVIOUS
      <4>2. Covers(h, t)
        BY <1>1, <3>2, <4>1 DEF ActiveInv
      <4> QED BY <2>5, <3>1, <3>2, <4>2 DEF Covers, Leaves, Live
    <3>4. active'[c] = active[c]
      BY <1>1, <2>1, <2>5, <3>3 DEF Leaves, StoreOK, StoreTypes
    <3> QED BY <2>2, <3>2, <3>4
  <2> QED BY <1>1, <2>3, <2>4, <2>5 DEF Changes
<1>3. \A t \in Turns : active'[ChatOf[t]] \in OrNoTurn
  BY <1>1, ChatAssumption DEF TalkInv, StoreOK, StoreTypes
<1> QED BY <1>2, <1>3 DEF ActiveInv, Covers

\* A step that leaves the window's beliefs alone.
LEMMA QueueKept ==
  ASSUME StoreInv, [StoreNext]_storeVars, ~TurnStarts, UNCHANGED <<send, runIds, load, grace>>
  PROVE  SendInv' /\ RunInv' /\ LoadInv' /\ Single'
<1>1. /\ TalkInv /\ SendInv /\ RunInv /\ LoadInv /\ Single /\ StoreTypes
      /\ \A g \in OrNoTurn, t \in Turns : Live(t) /\ Live(t)' /\ Covers(g, t) => Covers(g, t)'
  BY StoreFacts DEF StoreInv, QueueInv, TalkInv, StoreOK
<1>2. /\ orphaned \subseteq orphaned'
      /\ \A t \in Mine : turnAt[t] = "none" => turnAt'[t] = "none"
      /\ \A t \in Turns : Own(t)' => Own(t)
  BY <1>1, OwnGrows DEF Sends
<1>3. \A t \in Turns : Own(t)' => Live(t) /\ Live(t)'
  BY <1>2 DEF Own
<1>4. \A t \in Turns : runIds[ChatOf[t]] \in OrNoTurn /\ load.runs[ChatOf[t]] \in OrNoTurn
  BY <1>1, ChatAssumption DEF StoreTypes
<1>5. RunInv'
  BY <1>1, <1>2, <1>3, <1>4 DEF RunInv
<1>6. LoadInv'
  BY <1>1, <1>2, <1>3, <1>4 DEF LoadInv
<1>7. SendInv'
  <2>1. send.at # "none" => send.turn \in Mine
    BY <1>1 DEF SendInv
  <2> QED BY <1>1, <1>2, <2>1 DEF SendInv
<1>8. Single'
  BY <1>1, <1>2 DEF Single
<1> QED BY <1>5, <1>6, <1>7, <1>8

\* One that leaves the turns alone.
LEMMA SameTurns ==
  ASSUME UNCHANGED <<line, turnAt, wire>>
  PROVE  \A g, t : Covers(g, t)' <=> Covers(g, t)
BY DEF Covers, Waits, Told

\* Every step keeps what the window believes.
LEMMA QueueStep ==
  ASSUME StoreInv, [StoreNext]_storeVars
  PROVE  SendInv' /\ RunInv' /\ LoadInv' /\ Single'
<1>1. /\ TalkInv /\ SendInv /\ ActiveInv /\ RunInv /\ LoadInv /\ Single /\ StoreTypes /\ StoreOK /\ WireInv
      /\ \A g \in OrNoTurn, t \in Turns : Live(t) /\ Live(t)' /\ Covers(g, t) => Covers(g, t)'
      /\ \A t \in Turns : Live(t) => Covers(t, t)
  BY StoreFacts DEF StoreInv, QueueInv, TalkInv, StoreOK
<1>2. \A t \in Turns : ChatOf[t] \in Chats /\ runIds[ChatOf[t]] \in OrNoTurn /\ load.runs[ChatOf[t]] \in OrNoTurn
  BY <1>1, ChatAssumption DEF StoreTypes
<1>3. NoTurn \notin Turns /\ Mine \subseteq Turns /\ NoSend.at = "none" /\ NoSend.turn = NoTurn
  BY ChatAssumption DEF NoSend
<1>4. CASE SessionsListed
  <2>1. /\ UNCHANGED <<line, turnAt, wire, orphaned, active, send, runIds, grace>>
        /\ load' = [at |-> "answered", runs |-> active]
    BY <1>4 DEF SessionsListed, serverVars
  <2>2. \A t : Own(t)' <=> Own(t)
    BY <2>1 DEF Own, Live
  <2>3. LoadInv'
    BY <1>1, <2>1, <2>2, SameTurns DEF LoadInv, ActiveInv, Own
  <2> QED BY <1>1, <2>1, <2>2, <2>3, SameTurns DEF SendInv, RunInv, Single
<1>5. CASE TurnStarts
  <2>1. /\ send.at = "asking" /\ send' = [send EXCEPT !.at = "answered"]
        /\ UNCHANGED <<runIds, grace, load, orphaned>>
    BY <1>5 DEF TurnStarts
  <2>2. send'.at = "answered" /\ send'.turn = send.turn
    BY <1>1, <2>1 DEF StoreTypes
  <2>3. send.turn \in Mine /\ send.turn # NoTurn /\ ChatOf[send.turn] \in grace
    BY <1>1, <2>1 DEF SendInv
  <2>4. \A t \in Turns : Own(t)' => Own(t) \/ t = send.turn
    BY <1>1, OwnGrows DEF Sends
  <2>5. \A t \in Turns : Own(t)' /\ t # send.turn => Live(t) /\ Live(t)' /\ Own(t)
    BY <2>4 DEF Own
  <2>6. SendInv'
    BY <1>1, <2>1, <2>2, <2>3, <2>4 DEF SendInv
  <2>7. RunInv'
    BY <1>1, <1>2, <2>1, <2>2, <2>5 DEF RunInv
  <2>8. LoadInv'
    BY <1>1, <1>2, <2>1, <2>3, <2>5 DEF LoadInv
  <2>9. Single'
    BY <1>1, <2>3, <2>4 DEF Single, SendInv
  <2> QED BY <2>6, <2>7, <2>8, <2>9
<1>6. CASE Drop
  <2>1. /\ UNCHANGED <<line, turnAt, active, runIds, grace>> /\ wire' = <<>> /\ load' = NoLoad
        /\ send' = (IF send.at \in {"asking", "answered"} THEN [send EXCEPT !.at = "failed"] ELSE send)
        /\ orphaned' = (IF send.at = "answered" THEN orphaned \cup {send.turn} ELSE orphaned)
    BY <1>6 DEF Drop
  <2>2. /\ send'.turn = send.turn /\ send.at = "none" <=> send'.at = "none"
        /\ send'.at # "asking"
        /\ send'.at = "failed" => send.at # "none"
    BY <1>1, <2>1 DEF StoreTypes
  <2>3. \A t \in Turns : Own(t)' => Own(t) /\ Live(t) /\ Live(t)'
    BY <2>1 DEF Own, Live
  <2>4. NoLoad.at = "none"
    BY DEF NoLoad
  <2>5. send'.at = "failed" => turnAt'[send'.turn] = "none" \/ send'.turn \in orphaned'
    BY <1>1, <2>1, <2>2 DEF SendInv, StoreTypes
  <2>6. SendInv'
    BY <1>1, <2>1, <2>2, <2>3, <2>5 DEF SendInv
  <2>7. RunInv'
    BY <1>1, <1>2, <2>1, <2>2, <2>3 DEF RunInv
  <2> QED BY <1>1, <2>1, <2>3, <2>4, <2>6, <2>7 DEF LoadInv, Single
<1>7. CASE Connected
  <2>1. /\ UNCHANGED <<line, turnAt, wire, orphaned, send, runIds>> /\ load' = [NoLoad EXCEPT !.at = "asking"]
        /\ send.turn # NoTurn => ChatOf[send.turn] \in grace'
    BY <1>7 DEF Connected, serverVars
  <2>2. load'.at = "asking"
    BY <2>1 DEF NoLoad
  <2>3. \A t : Own(t)' <=> Own(t)
    BY <2>1 DEF Own, Live
  <2> QED BY <1>1, <2>1, <2>2, <2>3, SameTurns DEF SendInv, RunInv, LoadInv, Single
<1>8. CASE Receive
  <2>1. UNCHANGED <<line, turnAt, orphaned, send, load, grace>> /\ wire # <<>>
    BY <1>8 DEF Receive, serverVars
  <2>2. \A t : Own(t)' <=> Own(t)
    BY <2>1 DEF Own, Live
  <2>3. \A t : Own(t) => Live(t) /\ Live(t)'
    BY <2>1 DEF Own, Live
  <2>4. LoadInv'
    BY <1>1, <1>2, <2>1, <2>2, <2>3 DEF LoadInv
  <2>5. RunInv'
    <3>1. ASSUME NEW t \in Turns, NEW g \in OrNoTurn, runIds'[ChatOf[t]] = g, Own(t)', send.turn # t
          PROVE  Covers(g, t)'
      <4>1. Covers(runIds[ChatOf[t]], t)
        BY <1>1, <2>2, <3>1 DEF RunInv
      <4>2. runIds'[ChatOf[t]] = runIds[ChatOf[t]]
        <5>1. CASE \E x : TextArrives(x)
          BY <5>1 DEF TextArrives
        <5>2. CASE Head(wire).kind = "done" /\ EndArrives(Head(wire).turn)
          <6> DEFINE x == Head(wire).turn
          <6>1. wire \in Seq(Notices) /\ Head(wire) = wire[1] /\ 1 \in 1..Len(wire) /\ Head(wire) \in Notices
            BY <1>1, <2>1, Taken DEF StoreTypes
          <6>2. x \in Turns /\ Told("done", x)
            <7>1. Head(wire) = Note("done", x) /\ x \in Turns
              BY <5>2, <6>1 DEF Note, Notices
            <7> QED BY <6>1, <7>1 DEF Told
          <6>3. runIds[ChatOf[t]] # x
            BY <4>1, <6>2 DEF Covers
          <6>4. runIds' = [runIds EXCEPT ![ChatOf[x]] = IF runIds[ChatOf[x]] = x THEN NoTurn ELSE runIds[ChatOf[x]]]
            BY <5>2 DEF EndArrives
          <6> HIDE DEF x
          <6> QED BY <1>1, <1>2, <6>2, <6>3, <6>4 DEF StoreTypes
        <5> QED BY <1>8, <5>1, <5>2 DEF Receive
      <4> QED BY <1>1, <1>2, <2>2, <2>3, <3>1, <4>1, <4>2
    <3>2. \A t \in Turns : runIds'[ChatOf[t]] \in OrNoTurn
      BY <1>1, ChatAssumption, WindowTypes
    <3> QED BY <2>1, <3>1, <3>2 DEF RunInv, Covers
  <2> QED BY <1>1, <2>1, <2>2, <2>4, <2>5 DEF SendInv, Single
<1>9. ASSUME NEW o \in Calls, Loaded(o) PROVE SendInv' /\ RunInv' /\ LoadInv' /\ Single'
  <2>1. /\ UNCHANGED <<line, turnAt, wire, orphaned, send, grace>> /\ load' = NoLoad /\ load.at = "answered"
        /\ runIds' = [c \in Chats |-> IF c \in grace THEN runIds[c] ELSE load.runs[c]]
    BY <1>9 DEF Loaded, WindowOnly, serverVars, Reconciled
  <2>2. \A t : Own(t)' <=> Own(t)
    BY <2>1 DEF Own, Live
  <2>3. RunInv'
    <3>1. ASSUME NEW t \in Turns, Own(t), send.turn # t PROVE Covers(runIds'[ChatOf[t]], t)
      <4>1. CASE ChatOf[t] \in grace
        BY <1>1, <1>2, <2>1, <3>1, <4>1 DEF RunInv
      <4>2. CASE ChatOf[t] \notin grace
        BY <1>1, <1>2, <2>1, <3>1, <4>2 DEF LoadInv
      <4> QED BY <4>1, <4>2
    <3> QED BY <2>1, <2>2, <3>1, SameTurns DEF RunInv
  <2>4. load'.at = "none"
    BY <2>1 DEF NoLoad
  <2> QED BY <1>1, <2>1, <2>2, <2>3, <2>4 DEF SendInv, LoadInv, Single
<1>10. ASSUME NEW t \in Turns, Submit(t) PROVE SendInv' /\ RunInv' /\ LoadInv' /\ Single'
  <2>1. /\ UNCHANGED <<line, turnAt, wire, orphaned, runIds, load>>
        /\ send' = [at |-> "asking", turn |-> t] /\ grace' = grace \cup {ChatOf[t]}
        /\ t \in Mine /\ turnAt[t] = "none" /\ send.at = "none" /\ runIds[ChatOf[t]] = NoTurn
    BY <1>10 DEF Submit, WindowOnly, serverVars, Running
  <2>2. \A u : Own(u)' <=> Own(u)
    BY <2>1 DEF Own, Live
  <2>3. send.turn = NoTurn /\ send'.at = "asking" /\ send'.turn = t
    BY <1>1, <2>1 DEF SendInv
  <2>4. \A u \in Turns : Own(u) => Covers(runIds[ChatOf[u]], u)
    BY <1>1, <1>3, <2>3 DEF RunInv
  <2>5. \A u \in Turns : Own(u) => ChatOf[u] # ChatOf[t]
    BY <2>1, <2>4 DEF Covers
  <2>6. SendInv'
    BY <1>3, <2>1, <2>2, <2>3, <2>5 DEF SendInv
  <2>7. RunInv'
    BY <2>1, <2>2, <2>4, SameTurns DEF RunInv
  <2>8. LoadInv'
    BY <1>1, <2>1, <2>2, SameTurns DEF LoadInv
  <2> QED BY <1>1, <2>2, <2>6, <2>7, <2>8 DEF Single
<1>11. CASE Started
  <2>1. /\ UNCHANGED <<line, turnAt, wire, orphaned, grace, load>> /\ send' = NoSend /\ send.at = "answered"
        /\ runIds' = [runIds EXCEPT ![ChatOf[send.turn]] = send.turn]
    BY <1>11 DEF Started, WindowOnly, serverVars
  <2>2. \A u : Own(u)' <=> Own(u)
    BY <2>1 DEF Own, Live
  <2>3. /\ send.turn \in Turns /\ ChatOf[send.turn] \in grace
        /\ \A t \in Turns : Own(t) /\ ChatOf[t] = ChatOf[send.turn] => t = send.turn
    BY <1>1, <1>3, <2>1 DEF SendInv
  <2>4. RunInv'
    <3>1. ASSUME NEW t \in Turns, Own(t) PROVE Covers(runIds'[ChatOf[t]], t)
      <4>1. CASE t = send.turn
        BY <1>1, <1>2, <2>1, <3>1, <4>1 DEF Own, StoreTypes
      <4>2. CASE t # send.turn
        <5>1. ChatOf[t] # ChatOf[send.turn] /\ Covers(runIds[ChatOf[t]], t)
          BY <1>1, <2>3, <3>1, <4>2 DEF RunInv
        <5> QED BY <1>1, <1>2, <2>1, <5>1 DEF StoreTypes
      <4> QED BY <4>1, <4>2
    <3> QED BY <2>1, <2>2, <3>1, SameTurns DEF RunInv
  <2>5. LoadInv'
    BY <1>1, <2>1, <2>2, SameTurns DEF LoadInv
  <2> QED BY <1>1, <1>3, <2>1, <2>2, <2>4, <2>5 DEF SendInv, Single
<1>12. CASE StartFailed
  <2>1. /\ UNCHANGED <<line, turnAt, wire, orphaned, runIds, load>> /\ send' = NoSend /\ send.at = "failed"
        /\ grace' = grace \ {ChatOf[send.turn]}
    BY <1>12 DEF StartFailed, WindowOnly, serverVars
  <2>2. \A u : Own(u)' <=> Own(u)
    BY <2>1 DEF Own, Live
  <2>3. ~Own(send.turn)
    BY <1>1, <2>1 DEF SendInv, Own, Live
  <2>4. \A t \in Turns : Own(t) => ChatOf[t] # ChatOf[send.turn] /\ t # send.turn
    BY <1>1, <2>1, <2>3 DEF SendInv
  <2>5. RunInv'
    BY <1>1, <2>1, <2>2, <2>4, SameTurns DEF RunInv
  <2>6. LoadInv'
    BY <1>1, <2>1, <2>2, <2>4, SameTurns DEF LoadInv
  <2> QED BY <1>1, <1>3, <2>1, <2>2, <2>5, <2>6 DEF SendInv, Single
<1>13. ASSUME ~TurnStarts, UNCHANGED <<send, runIds, load, grace>>
      PROVE  SendInv' /\ RunInv' /\ LoadInv' /\ Single'
  BY <1>13, QueueKept
<1>14. ASSUME NEW t \in Turns, OthersSend(t) \/ Begin(t) \/ Stream(t) \/ Finish(t)
       PROVE  UNCHANGED <<send, runIds, load, grace>>
  BY <1>14 DEF OthersSend, Begin, Stream, Finish, ServerOnly
<1>15. ASSUME NEW o \in Calls, Subscribes(o) \/ HistoryRead(o) \/ Follow(o) \/ Rebuild(o) \/ \E c \in Chats : Open(o, c)
       PROVE  UNCHANGED <<send, runIds, load, grace>>
  BY <1>15 DEF Subscribes, HistoryRead, Follow, Rebuild, Open, WindowOnly
<1>16. ASSUME Interrupt \/ UNCHANGED storeVars PROVE UNCHANGED <<send, runIds, load, grace>>
  BY <1>16 DEF Interrupt, storeVars
<1> QED
  BY <1>4, <1>5, <1>6, <1>7, <1>8, <1>9, <1>10, <1>11, <1>12, <1>13, <1>14, <1>15, <1>16
  DEF StoreNext, UserStep, ServerStep, Progress

(* What is on the screen *)

\* A chat that shows a running turn is marked as running, and no end of a turn of it is
\* still to come that could mark it quiet.
TraceInv ==
  \A c \in Chats :
    /\ trace[c].status = "absent" => trace[c].shown = {}
    /\ \A t \in trace[c].shown :
         /\ ChatOf[t] = c /\ turnAt[t] \in {"driving", "over"}
         /\ turnAt[t] = "driving" =>
              /\ trace[c].status = "running"
              /\ \A i \in 1..Len(wire) : wire[i].kind = "done" => ChatOf[wire[i].turn] # c

\* A history that is asked for while the chat shows a running turn is none: what was shown
\* before, and what was read, is of turns that are over.
OpenInv ==
  \A o \in Calls :
    /\ opening[o].at \in {"reading", "read"} => \A t \in opening[o].before : turnAt[t] = "over"
    /\ \A t \in opening[o].read : turnAt[t] = "over" /\ ChatOf[t] = opening[o].chat

\* Both together are inductive, given StoreInv.
ScreenInv == TraceInv /\ OpenInv

\* Every step keeps it: Follow asks only when the chat is not seen running.
LEMMA OpenStep ==
  ASSUME StoreInv, ScreenInv, [StoreNext]_storeVars
  PROVE  OpenInv'
<1>1. /\ StoreOK /\ Forward /\ CallsMove
      /\ \A o \in Calls : opening[o] = NoCall \/ opening[o].chat \in Chats
  BY StoreFacts, OpeningStep DEF StoreInv, TalkInv, StoreOK, CallsOK
<1>2. ASSUME NEW o \in Calls
      PROVE  /\ opening'[o].at \in {"reading", "read"} => \A t \in opening'[o].before : turnAt'[t] = "over"
             /\ \A t \in opening'[o].read : turnAt'[t] = "over" /\ ChatOf[t] = opening'[o].chat
  <2>1. opening[o].read \subseteq Turns /\ opening[o].before \subseteq Turns
    <3>1. opening[o] \in CallsOf
      BY <1>1 DEF StoreOK, CallsOK
    <3> QED BY <3>1 DEF CallsOf
  <2>2. \A t \in opening[o].read : turnAt'[t] = "over" /\ ChatOf[t] = opening[o].chat
    BY <1>1, <2>1 DEF ScreenInv, OpenInv, Forward
  <2>3. CASE Keeps(o)
    BY <1>1, <2>1, <2>2, <2>3 DEF Keeps, ScreenInv, OpenInv, Forward
  <2>4. CASE Begins(o)
    BY <2>4 DEF Begins, NoCall
  <2>5. CASE Fails(o)
    BY <2>2, <2>5 DEF Fails
  <2>6. CASE Asks(o)
    <3> DEFINE c == opening[o].chat
    <3>1. c \in Chats /\ opening'[o].before = trace[c].shown
      BY <1>1, <2>6 DEF Asks
    <3>2. trace[c] \in Traces /\ trace[c].shown \subseteq Turns
      <4>1. trace[c] \in Traces
        BY <1>1, <3>1 DEF StoreOK, StoreTypes
      <4> QED BY <4>1 DEF Traces
    <3>3. \A t \in trace[c].shown : turnAt[t] = "over"
      BY <2>6, <3>1 DEF Asks, Running, ScreenInv, TraceInv
    <3> QED BY <1>1, <2>2, <2>6, <3>1, <3>2, <3>3 DEF Asks, Forward
  <2>7. CASE IsRead(o)
    <3>1. \A t \in opening'[o].read : t \in Turns /\ turnAt[t] = "over" /\ ChatOf[t] = opening'[o].chat
      BY <1>1, <2>7 DEF IsRead, StoreOK, StoreTypes
    <3>2. \A t \in opening'[o].before : t \in Turns /\ turnAt[t] = "over"
      BY <2>1, <2>7 DEF IsRead, ScreenInv, OpenInv
    <3> QED BY <1>1, <3>1, <3>2 DEF Forward
  <2> QED BY <1>1, <2>3, <2>4, <2>5, <2>6, <2>7 DEF CallsMove, Moves
<1> QED BY <1>2 DEF OpenInv

\* No end of a chat's turn is on its way that was not, but of the one that drove.
LEMMA QuietWire ==
  ASSUME StoreInv, [StoreNext]_storeVars, NEW c \in Chats, NEW t \in Turns, ChatOf[t] = c,
         turnAt'[t] = "driving", turnAt[t] = "driving",
         \A i \in 1..Len(wire) : wire[i].kind = "done" => ChatOf[wire[i].turn] # c
  PROVE  \A i \in 1..Len(wire') : wire'[i].kind = "done" => ChatOf[wire'[i].turn] # c
<1>1. TalkInv /\ Changes /\ TalkInv'
  BY StoreFacts DEF StoreInv
<1>2. ASSUME NEW i \in 1..Len(wire'), wire'[i].kind = "done", ChatOf[wire'[i].turn] = c PROVE FALSE
  <2> DEFINE x == wire'[i].turn
  <2>1. wire'[i] \in Notices
    BY <1>1 DEF TalkInv, StoreOK, StoreTypes
  <2>2. x \in Turns /\ wire'[i] = Note("done", x)
    BY <1>2, <2>1 DEF Notices, Note
  <2>3. PICK y \in Turns : y = x
    BY <2>2
  <2>4. Told("done", y)'
    BY <2>2, <2>3 DEF Told
  <2>5. Told("done", y) \/ Leaves(y)
    BY <1>1, <2>4, ToldBy
  <2>6. ~Told("done", y)
    BY <1>2, <2>3 DEF Told, Note
  <2>7. y # t
    BY <1>1, <1>2, <2>3 DEF TalkInv, WireInv
  <2>8. StoreOK /\ LineInv /\ Live(y) /\ Live(t) /\ Head(line[ChatOf[y]]) = y
    BY <1>1, <2>5, <2>6 DEF TalkInv, Leaves, Live
  <2>9. PICK j \in 1..Len(line[c]) : line[c][j] = t
    BY <2>8 DEF LineInv
  <2>10. j = 1 /\ line[c] \in Seq(Turns) /\ line[c] # <<>>
    BY <2>8, <2>9, LineTypes DEF LineInv
  <2> QED BY <1>2, <2>3, <2>7, <2>8, <2>9, <2>10, Taken
<1> QED BY <1>2

\* Only the head of a chat's queue drives: no text of it is shown before it does.
LEMMA TraceStep ==
  ASSUME StoreInv, ScreenInv, [StoreNext]_storeVars
  PROVE  TraceInv'
<1>1. /\ TalkInv /\ TalkInv' /\ Forward /\ Changes /\ StoreTypes /\ WireInv /\ TraceInv /\ OpenInv /\ StoreOK
  BY StoreFacts DEF StoreInv, ScreenInv, TalkInv, StoreOK
<1>2. \A c \in Chats : trace[c] \in Traces /\ trace[c].shown \subseteq Turns
  <2>1. ASSUME NEW c \in Chats PROVE trace[c] \in Traces
    BY <1>1 DEF StoreTypes
  <2> QED BY <2>1 DEF Traces
<1>3. ASSUME NEW c \in Chats, NEW t \in trace[c].shown
      PROVE  /\ t \in Turns /\ ChatOf[t] = c /\ turnAt'[t] \in {"driving", "over"}
             /\ turnAt'[t] = "driving" =>
                  /\ turnAt[t] = "driving" /\ trace[c].status = "running"
                  /\ \A i \in 1..Len(wire) : wire[i].kind = "done" => ChatOf[wire[i].turn] # c
                  /\ \A i \in 1..Len(wire') : wire'[i].kind = "done" => ChatOf[wire'[i].turn] # c
  <2>1. t \in Turns /\ ChatOf[t] = c /\ turnAt[t] \in {"driving", "over"}
    BY <1>1, <1>2 DEF TraceInv
  <2>2. turnAt'[t] = "driving" => turnAt[t] = "driving"
    BY <1>1, <2>1 DEF Forward
  <2> QED BY <1>1, <2>1, <2>2, QuietWire DEF Forward, TraceInv
\* The trace of a chat that a step does not mark quiet.
<1>4. ASSUME NEW c \in Chats, trace'[c].shown \subseteq trace[c].shown,
             trace'[c].status = trace[c].status \/ (trace[c].status # "running" /\ trace'[c].status # "absent")
      PROVE  /\ trace'[c].status = "absent" => trace'[c].shown = {}
             /\ \A t \in trace'[c].shown :
                  /\ ChatOf[t] = c /\ turnAt'[t] \in {"driving", "over"}
                  /\ turnAt'[t] = "driving" =>
                       /\ trace'[c].status = "running"
                       /\ \A i \in 1..Len(wire') : wire'[i].kind = "done" => ChatOf[wire'[i].turn] # c
  BY <1>1, <1>3, <1>4 DEF TraceInv
<1>5. ASSUME NEW c \in Chats, trace'[c].status # "absent", \A t \in trace'[c].shown : t \in Turns /\ ChatOf[t] = c /\ turnAt'[t] = "over"
      PROVE  /\ trace'[c].status = "absent" => trace'[c].shown = {}
             /\ \A t \in trace'[c].shown :
                  /\ ChatOf[t] = c /\ turnAt'[t] \in {"driving", "over"}
                  /\ turnAt'[t] = "driving" =>
                       /\ trace'[c].status = "running"
                       /\ \A i \in 1..Len(wire') : wire'[i].kind = "done" => ChatOf[wire'[i].turn] # c
  BY <1>5
<1>6. CASE UNCHANGED trace
  BY <1>4, <1>6 DEF TraceInv
<1>7. CASE Receive
  <2> DEFINE m == Head(wire)
             t == m.turn
             d == ChatOf[t]
             w == Tail(wire)
  <2>1. /\ wire # <<>> /\ wire' = w /\ turnAt' = turnAt
        /\ (m.kind = "text" /\ TextArrives(t)) \/ (m.kind = "done" /\ EndArrives(t))
    BY <1>7 DEF Receive, serverVars
  <2>2. /\ wire \in Seq(Notices) /\ m = wire[1] /\ m \in Notices /\ Len(wire) \in Nat \ {0}
        /\ Len(w) \in Nat
        /\ \A i \in 1..Len(w) : i + 1 \in 1..Len(wire) /\ w[i] = wire[i + 1]
    BY <1>1, <2>1, Taken DEF StoreTypes
  <2>3. t \in Turns /\ d \in Chats
    BY <2>2, ChatAssumption DEF Notices
  <2>4. 1 \in 1..Len(wire) /\ wire[1].turn = t
    BY <2>2
  <2>5. \A i \in 1..Len(w) : 1 < i + 1
    BY <2>2
  <2>6. CASE m.kind = "text" /\ TextArrives(t)
    <3>1. trace' = [trace EXCEPT ![d] = [status |-> "running", shown |-> trace[d].shown \cup {t}]]
      BY <2>6 DEF TextArrives
    <3>2. turnAt[t] \in {"driving", "over"}
      BY <1>1, <2>4 DEF WireInv
    <3>3. ASSUME turnAt[t] = "driving", NEW i \in 1..Len(w), w[i].kind = "done" PROVE ChatOf[w[i].turn] # d
      <4>1. i + 1 \in 1..Len(wire) /\ wire[i + 1] = w[i] /\ 1 < i + 1
        BY <2>2, <2>5
      <4> QED BY <1>1, <2>2, <2>4, <2>6, <3>3, <4>1 DEF WireInv
    <3> HIDE DEF m, d, w
    <3>4. /\ trace'[d].status = "running" /\ trace'[d].shown = trace[d].shown \cup {t}
          /\ \A c \in Chats : c # d => trace'[c] = trace[c]
      BY <1>1, <2>3, <3>1 DEF StoreTypes
    <3>5. ChatOf[t] = d
      BY DEF d
    <3>6. /\ trace'[d].status = "absent" => trace'[d].shown = {}
          /\ \A u \in trace'[d].shown :
                  /\ ChatOf[u] = d /\ turnAt'[u] \in {"driving", "over"}
                  /\ turnAt'[u] = "driving" =>
                       /\ trace'[d].status = "running"
                       /\ \A i \in 1..Len(wire') : wire'[i].kind = "done" => ChatOf[wire'[i].turn] # d
      BY <1>3, <2>1, <2>3, <3>2, <3>3, <3>4, <3>5
    <3>7. \A c \in Chats : c # d => trace'[c].shown \subseteq trace[c].shown /\ trace'[c].status = trace[c].status
      BY <3>4
    <3> QED BY <1>4, <2>3, <3>6, <3>7 DEF TraceInv
  <2>7. CASE m.kind = "done" /\ EndArrives(t)
    <3>1. trace' = [trace EXCEPT ![d] = [trace[d] EXCEPT !.status = "quiet"]]
      BY <2>7 DEF EndArrives
    <3>2. \A u \in trace[d].shown : turnAt'[u] # "driving"
      BY <1>3, <2>3, <2>4, <2>2, <2>7
    <3> HIDE DEF m, d, w
    <3>3. [trace[d] EXCEPT !.status = "quiet"].status = "quiet" /\ [trace[d] EXCEPT !.status = "quiet"].shown = trace[d].shown
      <4>1. trace[d] \in Traces
        BY <1>2, <2>3
      <4> QED BY <4>1 DEF Traces
    <3>4. /\ trace'[d].status = "quiet" /\ trace'[d].shown = trace[d].shown
          /\ \A c \in Chats : c # d => trace'[c] = trace[c]
      BY <1>1, <2>3, <3>1, <3>3 DEF StoreTypes
    <3>5. \A u \in trace'[d].shown : u \in Turns /\ ChatOf[u] = d /\ turnAt'[u] = "over"
      BY <1>3, <2>3, <3>2, <3>4
    <3>6. trace'[d].status # "absent"
      BY <3>4
    <3>7. \A c \in Chats : c # d => trace'[c].shown \subseteq trace[c].shown /\ trace'[c].status = trace[c].status
      BY <3>4
    <3> QED BY <1>4, <1>5, <2>3, <3>5, <3>6, <3>7 DEF TraceInv
  <2> QED BY <2>1, <2>6, <2>7
<1>8. ASSUME NEW o \in Calls, Rebuild(o) PROVE TraceInv'
  <2> DEFINE c == opening[o].chat
  <2>1. CASE current # c
    BY <1>6, <1>8, <2>1 DEF Rebuild
  <2>2. CASE current = c
    <3>1. c \in Chats
      <4>1. opening[o] # NoCall
        BY <1>8 DEF Rebuild, NoCall
      <4> QED BY <1>1, <4>1 DEF StoreOK, CallsOK
    <3>2. CASE opening[o].at = "read"
      <4>1. trace' = [trace EXCEPT ![c] = [status |-> "quiet", shown |-> opening[o].read]] /\ turnAt' = turnAt
        BY <1>8, <2>2, <3>2 DEF Rebuild, WindowOnly, serverVars
      <4>2. \A t \in opening[o].read : t \in Turns /\ turnAt[t] = "over" /\ ChatOf[t] = c
        <5>1. opening[o] \in CallsOf
          BY <1>1 DEF StoreOK, CallsOK
        <5> QED BY <1>1, <5>1 DEF OpenInv, CallsOf
      <4> HIDE DEF c
      <4>3. /\ trace'[c].status = "quiet" /\ trace'[c].shown = opening[o].read
            /\ \A e \in Chats : e # c => trace'[e] = trace[e]
        BY <1>1, <3>1, <4>1 DEF StoreTypes
      <4>4. trace'[c].status # "absent" /\ \A t \in trace'[c].shown : t \in Turns /\ ChatOf[t] = c /\ turnAt'[t] = "over"
        BY <4>1, <4>2, <4>3
      <4>5. \A e \in Chats : e # c => trace'[e].shown \subseteq trace[e].shown /\ trace'[e].status = trace[e].status
        BY <4>3
      <4> QED BY <1>4, <1>5, <3>1, <4>4, <4>5 DEF TraceInv
    <3>3. CASE opening[o].at # "read"
      <4>1. trace' = [trace EXCEPT ![c] = IF trace[c].status = "absent" THEN [status |-> "quiet", shown |-> {}] ELSE trace[c]]
        BY <1>8, <2>2, <3>3 DEF Rebuild
      <4> HIDE DEF c
      <4>2. \A e \in Chats : \/ trace'[e] = trace[e]
                             \/ trace[e].status = "absent" /\ trace'[e].status = "quiet" /\ trace'[e].shown = {}
        BY <1>1, <3>1, <4>1 DEF StoreTypes
      <4>3. \A e \in Chats : /\ trace'[e].shown \subseteq trace[e].shown
                             /\ trace'[e].status = trace[e].status
                                \/ (trace[e].status # "running" /\ trace'[e].status # "absent")
        BY <4>2
      <4> QED BY <1>4, <4>3 DEF TraceInv
    <3> QED BY <3>2, <3>3
  <2> QED BY <2>1, <2>2
<1>9. ASSUME NEW t \in Turns, Submit(t) PROVE TraceInv'
  <2> DEFINE c == ChatOf[t]
             y == [trace[c] EXCEPT !.status = IF trace[c].status = "absent" THEN "quiet" ELSE trace[c].status]
  <2>1. c \in Chats /\ trace' = [trace EXCEPT ![c] = y]
    BY <1>9, ChatAssumption DEF Submit
  <2>2. y.shown = trace[c].shown /\ y.status = (IF trace[c].status = "absent" THEN "quiet" ELSE trace[c].status)
    <3>1. trace[c] \in Traces
      BY <1>2, <2>1
    <3> QED BY <3>1 DEF Traces
  <2> HIDE DEF y, c
  <2>3. \A e \in Chats : trace'[e] = trace[e] \/ (e = c /\ trace'[e] = y)
    BY <1>1, <2>1 DEF StoreTypes
  <2>4. \A e \in Chats : /\ trace'[e].shown \subseteq trace[e].shown
                         /\ trace'[e].status = trace[e].status
                            \/ (trace[e].status # "running" /\ trace'[e].status # "absent")
    BY <2>2, <2>3
  <2> QED BY <1>4, <2>4 DEF TraceInv
<1>10. ASSUME NEW t \in Turns, OthersSend(t) \/ Begin(t) \/ Stream(t) \/ Finish(t) PROVE UNCHANGED trace
  BY <1>10 DEF OthersSend, Begin, Stream, Finish, ServerOnly
<1>11. ASSUME NEW o \in Calls, Subscribes(o) \/ HistoryRead(o) \/ Follow(o) \/ Loaded(o) \/ \E c \in Chats : Open(o, c)
       PROVE  UNCHANGED trace
  BY <1>11 DEF Subscribes, HistoryRead, Follow, Loaded, Open
<1>12. CASE Interrupt \/ SessionsListed \/ TurnStarts \/ Connected \/ Started \/ StartFailed \/ Drop \/ UNCHANGED storeVars
  BY <1>6, <1>12 DEF Interrupt, SessionsListed, TurnStarts, Connected, Started, StartFailed, Drop, storeVars
<1> QED
  BY <1>6, <1>7, <1>8, <1>9, <1>10, <1>11, <1>12
  DEF StoreNext, UserStep, ServerStep, Progress

\* The window's store starts so.
LEMMA StoreStart ==
  ASSUME StoreInit
  PROVE  StoreInv /\ ScreenInv
<1>1. /\ Mine \subseteq Turns /\ ChatOf \in [Turns -> Chats] /\ NoTurn \notin Turns /\ NoChat \notin Chats
      /\ Earlier[trusted] \in Turns
  BY ChatAssumption DEF StoreInit
<1>2. NoCall \in CallsOf /\ NoCall.at = "none" /\ NoCall.read = {}
  BY DEF NoCall, CallsOf
<1>3. NoSend \in [at : {"none", "asking", "answered", "failed"}, turn : OrNoTurn]
      /\ NoSend.at = "none" /\ NoSend.turn = NoTurn
  BY DEF NoSend, OrNoTurn
<1>4. NoLoad \in [at : {"none", "asking", "answered"}, runs : [Chats -> OrNoTurn]] /\ NoLoad.at = "none"
  BY DEF NoLoad, OrNoTurn
<1>5. \A t \in Turns : turnAt[t] \in {"none", "over"}
  BY DEF StoreInit
<1>6. \A t \in Turns : ~Live(t) /\ ~Own(t)
  BY <1>5 DEF Live, Own
<1>7. StoreTypes
  <2>1. line \in [Chats -> Seq(Turns)] /\ wire \in Seq(Notices)
    BY DEF StoreInit
  <2>2. turnAt \in [Turns -> {"none", "queued", "driving", "over"}]
    BY DEF StoreInit
  <2>3. active \in [Chats -> OrNoTurn] /\ runIds \in [Chats -> OrNoTurn]
    BY DEF StoreInit, OrNoTurn
  <2>4. trace \in [Chats -> Traces]
    BY DEF StoreInit, Traces
  <2> QED BY <1>1, <1>3, <1>4, <2>1, <2>2, <2>3, <2>4 DEF StoreInit, StoreTypes
<1>8. CallsOK
  BY <1>2 DEF StoreInit, CallsOK
<1>9. LineInv
  BY <1>6 DEF StoreInit, LineInv
<1>10. WireInv
  BY DEF StoreInit, WireInv
<1>11. QueueInv
  BY <1>3, <1>4, <1>6 DEF StoreInit, QueueInv, SendInv, ActiveInv, RunInv, LoadInv, Single
<1>12. TraceInv
  BY DEF StoreInit, TraceInv
<1>13. OpenInv
  BY <1>2 DEF StoreInit, OpenInv
<1> QED BY <1>7, <1>8, <1>9, <1>10, <1>11, <1>12, <1>13 DEF StoreInv, TalkInv, StoreOK, ScreenInv

\* And every step keeps it.
LEMMA StoreStep ==
  ASSUME StoreInv, ScreenInv, [StoreNext]_storeVars
  PROVE  StoreInv' /\ ScreenInv'
<1>1. TalkInv' /\ ActiveInv' /\ SendInv' /\ RunInv' /\ LoadInv' /\ Single'
  BY StoreFacts, ActiveStep, QueueStep
<1>2. ScreenInv'
  BY TraceStep, OpenStep DEF ScreenInv
<1> QED BY <1>1, <1>2 DEF StoreInv, QueueInv

\* In particular, of two own turns in one chat's queue one was orphaned.
LEMMA SingleFile == StoreInv => OwnTurnsInSingleFile
<1>1. SUFFICES ASSUME StoreInv, NEW t \in Mine \ orphaned, NEW u \in Mine \ orphaned,
                      ChatOf[t] = ChatOf[u], {turnAt[t], turnAt[u]} \subseteq {"queued", "driving"}
               PROVE  t = u
  BY DEF OwnTurnsInSingleFile
<1>2. t \in Turns /\ u \in Turns
  BY ChatAssumption
<1>3. Own(t) /\ Own(u)
  BY <1>1 DEF Own, Live
<1> QED BY <1>1, <1>2, <1>3 DEF StoreInv, QueueInv, Single

\* What TurnStaysOnScreen says of a step.
StaysShown ==
  \A t \in Turns :
       (/\ t \in trace[ChatOf[t]].shown /\ turnAt[t] # "over"
        /\ t \notin trace'[ChatOf[t]].shown)
       => \E o \in Calls : /\ opening[o].at = "read" /\ opening'[o].at # "read"
                           /\ t \notin opening[o].before

\* Only Rebuild takes a turn off the screen.
LEMMA ShownStep ==
  ASSUME StoreInv, ScreenInv, StoreNext
  PROVE  StaysShown
<1>1. SUFFICES ASSUME NEW t \in Turns, t \in trace[ChatOf[t]].shown, turnAt[t] # "over",
                      t \notin trace'[ChatOf[t]].shown
               PROVE  \E o \in Calls : /\ opening[o].at = "read" /\ opening'[o].at # "read"
                                       /\ t \notin opening[o].before
  BY DEF StaysShown
<1> DEFINE c == ChatOf[t]
<1>2. /\ c \in Chats /\ trace \in [Chats -> Traces] /\ OpenInv
      /\ StoreOK
  BY ChatAssumption DEF StoreInv, TalkInv, StoreOK, StoreTypes, ScreenInv
<1>3. \A d \in Chats : trace[d] \in Traces
  BY <1>2
<1>4. ASSUME NEW o \in Calls, Rebuild(o)
      PROVE  /\ opening[o].at = "read" /\ opening'[o].at # "read" /\ t \notin opening[o].before
  <2>1. opening[o].chat = c /\ current = c
    BY <1>1, <1>2, <1>4 DEF Rebuild
  <2>2. opening[o].at = "read"
    <3>1. CASE opening[o].at # "read"
      <4>1. trace' = [trace EXCEPT ![c] = IF trace[c].status = "absent" THEN [status |-> "quiet", shown |-> {}] ELSE trace[c]]
        BY <1>4, <2>1, <3>1 DEF Rebuild
      <4>2. trace[c].status # "absent"
        BY <1>1, <1>2 DEF ScreenInv, TraceInv
      <4> QED BY <1>1, <1>2, <4>1, <4>2
    <3> QED BY <3>1
  <2>3. opening'[o] = IF opening[o].again THEN Call(current, FALSE) ELSE NoCall
    BY <1>2, <1>4 DEF Rebuild, Return, StoreOK, CallsOK
  <2>4. opening'[o].at # "read"
    BY <1>2, <2>1, <2>3, CallTyped
  <2>5. t \notin opening[o].before
    BY <1>1, <1>2, <2>2 DEF OpenInv
  <2> QED BY <2>2, <2>4, <2>5
<1>5. CASE trace' = trace
  BY <1>1, <1>5
<1>6. ASSUME NEW d \in Chats, NEW y, trace' = [trace EXCEPT ![d] = y], trace[d].shown \subseteq y.shown
      PROVE  FALSE
  BY <1>1, <1>2, <1>6
<1>7. ASSUME Receive PROVE FALSE
  <2> DEFINE x == Head(wire).turn
             d == ChatOf[x]
  <2>1. CASE TextArrives(x)
    <3> DEFINE y == [status |-> "running", shown |-> trace[d].shown \cup {x}]
    <3>1. trace' = [trace EXCEPT ![d] = y] /\ trace[d].shown \subseteq y.shown
      BY <2>1 DEF TextArrives
    <3> HIDE DEF y, d
    <3>2. CASE d \in Chats
      BY <1>6, <3>1, <3>2
    <3>3. CASE d \notin Chats
      BY <1>1, <1>2, <3>1, <3>3
    <3> QED BY <3>2, <3>3
  <2>2. CASE EndArrives(x)
    <3> DEFINE y == [trace[d] EXCEPT !.status = "quiet"]
    <3>1. trace' = [trace EXCEPT ![d] = y]
      BY <2>2 DEF EndArrives
    <3>2. CASE d \in Chats
      <4>1. trace[d] \in Traces
        BY <1>3, <3>2
      <4>2. y.shown = trace[d].shown
        BY <4>1 DEF Traces
      <4> HIDE DEF y, d
      <4> QED BY <1>6, <3>1, <3>2, <4>2
    <3>3. CASE d \notin Chats
      <4> HIDE DEF y, d
      <4> QED BY <1>1, <1>2, <3>1, <3>3
    <3> QED BY <3>2, <3>3
  <2> QED BY <1>7, <2>1, <2>2 DEF Receive
<1>8. ASSUME NEW u \in Turns, Submit(u) PROVE FALSE
  <2> DEFINE d == ChatOf[u]
             y == [trace[d] EXCEPT !.status = IF trace[d].status = "absent" THEN "quiet" ELSE trace[d].status]
  <2>1. d \in Chats /\ trace' = [trace EXCEPT ![d] = y]
    BY <1>8, ChatAssumption DEF Submit
  <2>2. trace[d] \in Traces
    BY <1>3, <2>1
  <2>3. y.shown = trace[d].shown
    BY <2>2 DEF Traces
  <2> HIDE DEF y, d
  <2> QED BY <1>6, <2>1, <2>3
<1>9. ASSUME NEW u \in Turns, OthersSend(u) \/ Begin(u) \/ Stream(u) \/ Finish(u) PROVE UNCHANGED trace
  BY <1>9 DEF OthersSend, Begin, Stream, Finish, ServerOnly
<1>10. ASSUME NEW o \in Calls, Subscribes(o) \/ HistoryRead(o) \/ Follow(o) \/ Loaded(o) \/ \E d \in Chats : Open(o, d)
       PROVE  UNCHANGED trace
  BY <1>10 DEF Subscribes, HistoryRead, Follow, Loaded, Open
<1>11. CASE Interrupt \/ SessionsListed \/ TurnStarts \/ Connected \/ Started \/ StartFailed \/ Drop
  BY <1>5, <1>11 DEF Interrupt, SessionsListed, TurnStarts, Connected, Started, StartFailed, Drop
<1> QED
  BY <1>4, <1>5, <1>7, <1>8, <1>9, <1>10, <1>11
  DEF StoreNext, UserStep, ServerStep, Progress

(* How the window learns of an end *)

\* A turn that has ended, and whose end the window has a way to learn.
Ended(t) == turnAt[t] = "over" /\ t \notin lapsed

\* A chat marked as running a turn that has ended hears of it: the notice is under way, or
\* the link is down and a list follows it, or that list is being fetched.
EndsAreOwed ==
  \A t \in Turns : Ended(t) /\ runIds[ChatOf[t]] = t => Told("done", t) \/ ~up \/ load.at # "none"

\* Turns are marked in their own chat.  A list or an answer that would mark a turn as
\* running is of a link that is up, and if the turn has ended, its notice is behind it.
EndsInv ==
  /\ load.at # "none" \/ send.at = "answered" => up
  /\ \A t \in Turns, c \in Chats : t \in {active[c], runIds[c], load.runs[c]} => c = ChatOf[t]
  /\ \A t \in Turns : Ended(t) /\ load.at = "answered" /\ load.runs[ChatOf[t]] = t => Told("done", t)
  /\ \A t \in Turns : Ended(t) /\ send.at = "answered" /\ send.turn = t => Told("done", t)
  /\ \A t \in Turns : Ended(t) => active[ChatOf[t]] # t
  /\ EndsAreOwed

\* A notice stays on the wire while nothing but its end grows; and the first one that is
\* taken off is that of the end of at most one turn.
LEMMA NoticeStays ==
  ASSUME TalkInv, NEW t \in Turns, Told("done", t)
  PROVE  /\ \A n \in Notices : wire' = Append(wire, n) => Told("done", t)'
         /\ wire' = wire => Told("done", t)'
         /\ wire # <<>> /\ wire' = Tail(wire) => Told("done", t)' \/ Head(wire) = Note("done", t)
<1>1. wire \in Seq(Notices) /\ Len(wire) \in Nat
  BY DEF TalkInv, StoreOK, StoreTypes
<1>2. PICK i \in 1..Len(wire) : wire[i] = Note("done", t)
  BY DEF Told
<1>3. ASSUME NEW n \in Notices, wire' = Append(wire, n) PROVE Told("done", t)'
  <2>1. i \in 1..Len(wire') /\ wire'[i] = wire[i]
    BY <1>1, <1>3, Appended
  <2> QED BY <1>2, <2>1 DEF Told
<1>4. ASSUME wire # <<>>, wire' = Tail(wire) PROVE Told("done", t)' \/ Head(wire) = Note("done", t)
  <2>1. /\ Len(Tail(wire)) = Len(wire) - 1 /\ Head(wire) = wire[1]
        /\ \A j \in 1..Len(Tail(wire)) : Tail(wire)[j] = wire[j + 1]
    BY <1>1, <1>4, Taken
  <2>2. CASE i = 1
    BY <1>2, <2>1, <2>2
  <2>3. CASE i # 1
    <3>1. i - 1 \in 1..Len(Tail(wire)) /\ (i - 1) + 1 = i
      BY <1>1, <2>1, <2>3
    <3> QED BY <1>2, <1>4, <2>1, <3>1 DEF Told
  <2> QED BY <2>2, <2>3
<1>5. ASSUME wire' = wire PROVE Told("done", t)'
  BY <1>5 DEF Told
<1> QED BY <1>3, <1>4, <1>5

\* A step that leaves the window's beliefs and the link alone, loses no notice, and tells of
\* the turns it ends, or cannot.
LEMMA EndsKept ==
  ASSUME EndsInv, UNCHANGED <<up, runIds, load, send>>, lapsed \subseteq lapsed',
         \A c \in Chats : active'[c] = active[c] \/ (active'[c] \in Turns =>
                            ChatOf[active'[c]] = c /\ turnAt'[active'[c]] # "over"),
         \A t \in Turns : Told("done", t) => Told("done", t)',
         \A t \in Turns : Ended(t)' => Ended(t) \/ ((Told("done", t)' \/ ~up) /\ active'[ChatOf[t]] # t)
  PROVE  EndsInv'
<1>1. ASSUME NEW t \in Turns, Ended(t)'
      PROVE  /\ load'.at = "answered" /\ load'.runs[ChatOf[t]] = t => Told("done", t)'
             /\ send'.at = "answered" /\ send'.turn = t => Told("done", t)'
             /\ active'[ChatOf[t]] # t
             /\ runIds'[ChatOf[t]] = t => Told("done", t)' \/ ~up' \/ load'.at # "none"
  <2>1. CASE Ended(t)
    <3>1. active'[ChatOf[t]] # t
      BY <1>1, <2>1, ChatAssumption DEF EndsInv, Ended
    <3> QED BY <2>1, <3>1 DEF EndsInv, EndsAreOwed
  <2>2. CASE (Told("done", t)' \/ ~up) /\ active'[ChatOf[t]] # t
    BY <2>2 DEF EndsInv
  <2> QED BY <1>1, <2>1, <2>2
<1>2. \A t \in Turns, c \in Chats : t \in {active[c], runIds[c], load.runs[c]}' => c = ChatOf[t]
  BY DEF EndsInv
<1>3. load'.at # "none" \/ send'.at = "answered" => up'
  BY DEF EndsInv
<1> QED BY <1>1, <1>2, <1>3 DEF EndsInv, EndsAreOwed

\* Every step keeps it.
LEMMA EndsStep ==
  ASSUME StoreInv, EndsInv, [StoreNext]_storeVars
  PROVE  EndsInv'
<1>1. /\ TalkInv /\ SendInv /\ StoreOK /\ LineInv /\ StoreTypes /\ TalkInv'
      /\ Mine \subseteq Turns /\ NoTurn \notin Turns /\ \A t \in Turns : ChatOf[t] \in Chats
  BY StoreFacts, ChatAssumption DEF StoreInv, QueueInv, TalkInv, StoreOK
<1>2. \A t \in Turns : wire' = wire /\ Told("done", t) => Told("done", t)'
  BY DEF Told
<1>3. CASE UNCHANGED <<turnAt, active, wire, up, runIds, load, send, lapsed>>
  BY <1>2, <1>3, EndsKept DEF Ended
<1>4. ASSUME NEW t \in Turns, turnAt[t] = "none", Enter(t)
      PROVE  /\ \A u \in Turns : turnAt'[u] = "over" => turnAt[u] = "over"
             /\ \A c \in Chats : active'[c] = active[c] \/ (c = ChatOf[t] /\ active'[c] = t)
             /\ turnAt'[t] # "over"
  BY <1>1, <1>4, EnterLine
<1>5. ASSUME NEW t \in Turns, OthersSend(t) PROVE EndsInv'
  <2>1. UNCHANGED <<wire, up, runIds, load, send, lapsed>> /\ Enter(t) /\ turnAt[t] = "none"
    BY <1>5 DEF OthersSend
  <2>2. \A u \in Turns : Ended(u)' => Ended(u)
    BY <1>4, <2>1 DEF Ended
  <2> QED BY <1>2, <1>4, <2>1, <2>2, EndsKept
<1>6. CASE TurnStarts
  <2> DEFINE s == send.turn
  <2>1. /\ UNCHANGED <<wire, up, runIds, load, lapsed>> /\ Enter(s) /\ turnAt[s] = "none" /\ up
        /\ s \in Turns /\ send' = [send EXCEPT !.at = "answered"]
    BY <1>1, <1>6 DEF TurnStarts, SendInv
  <2>2. send'.turn = s
    BY <1>1, <2>1 DEF StoreTypes
  <2> HIDE DEF s
  <2>3. /\ \A u \in Turns : Ended(u)' => Ended(u) /\ u # s
        /\ \A c \in Chats : active'[c] = active[c] \/ (c = ChatOf[s] /\ active'[c] = s)
    BY <1>4, <2>1 DEF Ended
  <2>4. \A u \in Turns, c \in Chats : u \in {active[c], runIds[c], load.runs[c]}' => c = ChatOf[u]
    BY <2>1, <2>3 DEF EndsInv
  <2>5. ASSUME NEW u \in Turns, Ended(u)'
        PROVE  /\ load'.at = "answered" /\ load'.runs[ChatOf[u]] = u => Told("done", u)'
               /\ send'.at = "answered" /\ send'.turn = u => Told("done", u)'
               /\ active'[ChatOf[u]] # u
               /\ runIds'[ChatOf[u]] = u => Told("done", u)' \/ ~up' \/ load'.at # "none"
    BY <1>1, <1>2, <2>1, <2>2, <2>3, <2>5 DEF EndsInv, EndsAreOwed
  <2> QED BY <2>1, <2>4, <2>5 DEF EndsInv, EndsAreOwed
<1>7. ASSUME NEW t \in Turns, Begin(t) PROVE EndsInv'
  <2>1. UNCHANGED <<wire, up, runIds, load, send, active>>
    BY <1>7 DEF Begin, ServerOnly
  <2>2. \/ turnAt' = [turnAt EXCEPT ![t] = "over"] /\ lapsed' = lapsed \cup {t}
        \/ turnAt' = [turnAt EXCEPT ![t] = "driving"] /\ lapsed' = lapsed
    BY <1>7 DEF Begin
  <2>3. \A u \in Turns : Ended(u)' => Ended(u)
    BY <1>1, <2>2 DEF Ended, StoreTypes
  <2> QED BY <1>2, <2>1, <2>2, <2>3, EndsKept
<1>8. ASSUME NEW t \in Turns, Stream(t) PROVE EndsInv'
  <2>1. UNCHANGED <<turnAt, active, up, runIds, load, send, lapsed>>
    BY <1>8 DEF Stream, ServerOnly
  <2>2. wire' = wire \/ (Note("text", t) \in Notices /\ wire' = Append(wire, Note("text", t)))
    BY <1>8 DEF Stream, Tell, Note, Notices
  <2>3. \A u \in Turns : Told("done", u) => Told("done", u)'
    BY <1>1, <2>2, NoticeStays
  <2> QED BY <2>1, <2>3, EndsKept DEF Ended
<1>9. ASSUME NEW t \in Turns, Finish(t) PROVE EndsInv'
  <2>1. /\ UNCHANGED <<up, runIds, load, send>>
        /\ turnAt' = [turnAt EXCEPT ![t] = "over"]
        /\ active' = [active EXCEPT ![ChatOf[t]] = IF @ = t THEN NoTurn ELSE @]
        /\ lapsed' = IF up /\ ~Hears(t) THEN lapsed \cup {t} ELSE lapsed
        /\ wire' = IF Hears(t) THEN Append(wire, Note("done", t)) ELSE wire
    BY <1>9 DEF Finish, ServerOnly, Tell, Note
  <2>2. Note("done", t) \in Notices
    BY DEF Note, Notices
  <2>3. \A u \in Turns : Told("done", u) => Told("done", u)'
    BY <1>1, <2>1, <2>2, NoticeStays
  <2>4. Hears(t) => Told("done", t)'
    <3>1. ASSUME Hears(t) PROVE Len(wire) + 1 \in 1..Len(wire') /\ wire'[Len(wire) + 1] = Note("done", t)
      BY <1>1, <2>1, <2>2, <3>1, Appended DEF StoreTypes
    <3> QED BY <3>1 DEF Told
  <2>5. /\ active'[ChatOf[t]] # t
        /\ \A c \in Chats : active'[c] = active[c] \/ active'[c] = NoTurn
    BY <1>1, <2>1 DEF StoreTypes
  <2>6. \A u \in Turns : Ended(u)' =>
          Ended(u) \/ ((Told("done", u)' \/ ~up) /\ active'[ChatOf[u]] # u)
    BY <1>1, <2>1, <2>4, <2>5 DEF Ended, StoreTypes
  <2>7. lapsed \subseteq lapsed'
    BY <2>1
  <2> QED BY <1>1, <2>1, <2>3, <2>5, <2>6, <2>7, EndsKept
<1>10. CASE SessionsListed
  <2>1. /\ UNCHANGED <<turnAt, active, wire, up, runIds, send, lapsed>> /\ up
        /\ load' = [at |-> "answered", runs |-> active]
    BY <1>10 DEF SessionsListed, serverVars
  <2> QED BY <1>2, <2>1 DEF EndsInv, EndsAreOwed, Ended
<1>11. CASE Connected
  <2>1. /\ UNCHANGED <<turnAt, active, wire, runIds, send, lapsed>> /\ up'
        /\ load' = [NoLoad EXCEPT !.at = "asking"] /\ ~up
    BY <1>11 DEF Connected, serverVars
  <2>2. load'.at = "asking" /\ load'.runs = [c \in Chats |-> NoTurn] /\ send.at # "answered"
    BY <2>1 DEF NoLoad, EndsInv
  <2> QED BY <1>1, <2>1, <2>2 DEF EndsInv, EndsAreOwed, Ended
<1>12. CASE Drop
  <2>1. /\ UNCHANGED <<turnAt, active, runIds, lapsed>> /\ ~up' /\ load' = NoLoad
        /\ send' = IF send.at \in {"asking", "answered"} THEN [send EXCEPT !.at = "failed"] ELSE send
    BY <1>12 DEF Drop
  <2>2. load'.at = "none" /\ load'.runs = [c \in Chats |-> NoTurn] /\ send'.at # "answered"
    BY <1>1, <2>1 DEF NoLoad, StoreTypes
  <2> QED BY <1>1, <2>1, <2>2 DEF EndsInv, EndsAreOwed, Ended
<1>13. CASE Receive
  <2>1. UNCHANGED <<turnAt, active, up, send, load>> /\ wire # <<>> /\ wire' = Tail(wire)
    BY <1>13 DEF Receive, serverVars
  <2>2. Head(wire) \in Notices
    BY <1>1, <2>1, Taken DEF StoreTypes
  <2>3. \A t \in Turns : Told("done", t) => Told("done", t)' \/ Head(wire) = Note("done", t)
    BY <1>1, <2>1, NoticeStays
  <2>4. CASE Head(wire).kind = "text"
    <3>1. UNCHANGED <<runIds, lapsed>>
      BY <1>13, <2>4 DEF Receive, TextArrives
    <3>2. \A t \in Turns : Told("done", t) => Told("done", t)'
      BY <2>3, <2>4 DEF Note
    <3> QED BY <2>1, <3>1, <3>2, EndsKept DEF Ended
  <2>5. CASE Head(wire).kind = "done"
    <3> DEFINE x == Head(wire).turn
    <3>1. /\ runIds' = [runIds EXCEPT ![ChatOf[x]] = IF @ = x THEN NoTurn ELSE @]
          /\ lapsed' = IF x \in {send.turn, load.runs[ChatOf[x]]} THEN lapsed \cup {x} ELSE lapsed
          /\ x \in Turns
      BY <1>13, <2>2, <2>5 DEF Receive, EndArrives, Notices
    <3> HIDE DEF x
    <3>2. \A t \in Turns : t # x /\ Told("done", t) => Told("done", t)'
      BY <2>3 DEF Note, x
    <3>3. /\ \A c \in Chats : runIds'[c] = runIds[c] \/ runIds'[c] = NoTurn
          /\ runIds'[ChatOf[x]] # x
      BY <1>1, <3>1 DEF StoreTypes
    <3>4. \A t \in Turns, c \in Chats : t \in {active[c], runIds[c], load.runs[c]}' => c = ChatOf[t]
      BY <1>1, <2>1, <3>3 DEF EndsInv
    <3>5. ASSUME NEW t \in Turns, Ended(t)'
          PROVE  /\ load'.at = "answered" /\ load'.runs[ChatOf[t]] = t => Told("done", t)'
                 /\ send'.at = "answered" /\ send'.turn = t => Told("done", t)'
                 /\ active'[ChatOf[t]] # t
                 /\ runIds'[ChatOf[t]] = t => Told("done", t)' \/ ~up' \/ load'.at # "none"
      <4>1. Ended(t)
        BY <2>1, <3>1, <3>5 DEF Ended
      <4>2. CASE t = x
        BY <2>1, <3>1, <3>3, <3>5, <4>1, <4>2 DEF Ended, EndsInv
      <4>3. CASE t # x
        <5>1. runIds'[ChatOf[t]] = t => runIds[ChatOf[t]] = t
          BY <1>1, <3>3
        <5> QED BY <2>1, <3>2, <4>1, <4>3, <5>1 DEF EndsInv, EndsAreOwed
      <4> QED BY <4>2, <4>3
    <3> QED BY <2>1, <3>4, <3>5 DEF EndsInv, EndsAreOwed
  <2> QED BY <2>2, <2>4, <2>5 DEF Notices
<1>14. ASSUME NEW o \in Calls, Loaded(o) PROVE EndsInv'
  <2>1. /\ UNCHANGED <<turnAt, active, wire, up, send>> /\ load.at = "answered" /\ load' = NoLoad
        /\ runIds' = [c \in Chats |-> IF c \in grace THEN runIds[c] ELSE load.runs[c]]
        /\ lapsed' = lapsed \cup {t \in Turns : /\ ChatOf[t] \in grace /\ runIds[ChatOf[t]] = t
                                                /\ load.runs[ChatOf[t]] # t}
    BY <1>14 DEF Loaded, WindowOnly, serverVars, Reconciled
  <2>2. load'.at = "none" /\ load'.runs = [c \in Chats |-> NoTurn]
    BY <2>1 DEF NoLoad
  <2>3. \A t \in Turns, c \in Chats : t \in {active[c], runIds[c], load.runs[c]}' => c = ChatOf[t]
    BY <1>1, <2>1, <2>2 DEF EndsInv
  <2>4. ASSUME NEW t \in Turns, Ended(t)', runIds'[ChatOf[t]] = t PROVE Told("done", t)'
    <3>1. Ended(t) /\ load.runs[ChatOf[t]] = t
      BY <1>1, <2>1, <2>4 DEF Ended
    <3> QED BY <1>2, <2>1, <3>1 DEF EndsInv
  <2>5. \A t \in Turns : Ended(t)' => Ended(t)
    BY <2>1 DEF Ended
  <2> QED BY <1>2, <2>1, <2>2, <2>3, <2>4, <2>5 DEF EndsInv, EndsAreOwed
<1>15. CASE Started
  <2>1. /\ UNCHANGED <<turnAt, active, wire, up, load, lapsed>> /\ send.at = "answered" /\ send' = NoSend
        /\ runIds' = [runIds EXCEPT ![ChatOf[send.turn]] = send.turn]
    BY <1>15 DEF Started, WindowOnly, serverVars
  <2>2. send'.at = "none" /\ send.turn \in Turns
    BY <1>1, <2>1 DEF NoSend, SendInv
  <2>3. \A c \in Chats : runIds'[c] = runIds[c] \/ (runIds'[c] = send.turn /\ c = ChatOf[send.turn])
    BY <1>1, <2>1, <2>2 DEF StoreTypes
  <2>4. \A t \in Turns, c \in Chats : t \in {active[c], runIds[c], load.runs[c]}' => c = ChatOf[t]
    BY <2>1, <2>3 DEF EndsInv
  <2>5. ASSUME NEW t \in Turns, Ended(t)', runIds'[ChatOf[t]] = t
        PROVE  Told("done", t)' \/ ~up' \/ load'.at # "none"
    BY <1>1, <1>2, <2>1, <2>3, <2>5 DEF EndsInv, EndsAreOwed, Ended
  <2>6. \A t \in Turns : Ended(t)' => Ended(t)
    BY <2>1 DEF Ended
  <2> QED BY <1>2, <2>1, <2>2, <2>4, <2>5, <2>6 DEF EndsInv, EndsAreOwed
<1>16. CASE StartFailed \/ \E t \in Turns : Submit(t)
  <2>1. UNCHANGED <<turnAt, active, wire, up, runIds, load, lapsed>> /\ send'.at \in {"none", "asking"}
    <3>1. CASE StartFailed
      BY <3>1 DEF StartFailed, WindowOnly, serverVars, NoSend
    <3>2. ASSUME NEW t \in Turns, Submit(t)
          PROVE  /\ UNCHANGED <<turnAt, active, wire, up, runIds, load, lapsed>>
                 /\ send' = [at |-> "asking", turn |-> t]
      BY <3>2 DEF Submit, WindowOnly, serverVars
    <3>3. \A t : [at |-> "asking", turn |-> t].at = "asking"
      OBVIOUS
    <3> QED BY <1>16, <3>1, <3>2, <3>3
  <2> QED BY <1>2, <2>1 DEF EndsInv, EndsAreOwed, Ended
<1>17. ASSUME NEW o \in Calls, \/ Subscribes(o) \/ HistoryRead(o) \/ Follow(o) \/ Rebuild(o)
                               \/ \E c \in Chats : Open(o, c)
       PROVE  UNCHANGED <<turnAt, active, wire, up, runIds, load, send, lapsed>>
  BY <1>17 DEF Subscribes, HistoryRead, Follow, Rebuild, Open, WindowOnly, serverVars
<1>18. ASSUME Interrupt \/ UNCHANGED storeVars
       PROVE  UNCHANGED <<turnAt, active, wire, up, runIds, load, send, lapsed>>
  BY <1>18 DEF Interrupt, storeVars, serverVars
<1> QED
  BY <1>3, <1>5, <1>6, <1>7, <1>8, <1>9, <1>10, <1>11, <1>12, <1>13, <1>14, <1>15, <1>16, <1>17, <1>18
  DEF StoreNext, UserStep, ServerStep, Progress

\* Nothing is marked as running, and nothing listed, at first.
LEMMA EndsStart ==
  ASSUME StoreInit
  PROVE  EndsInv
BY ChatAssumption DEF StoreInit, EndsInv, EndsAreOwed, NoLoad, NoSend

-----------------------------------------------------------------------------
(* The files *)

(* The stale flag *)

\* While the gateway boots, every change is one it has not seen.
StaleInv == StaleTells /\ (gw = "booting" /\ unapplied => unseen)

\* A write to the followed file raises the flag.
LEMMA TouchedFlag ==
  ASSUME StaleInv, NEW f, Touched(f)
  PROVE  StaleInv'
BY DEF StaleInv, StaleTells, Stale, Touched, gwVars, Claimed, Watched

\* Every step keeps the flag right.
LEMMA StaleStep ==
  ASSUME StaleInv, [FilesNext]_fileVars
  PROVE  StaleInv'
<1>1. CASE UNCHANGED gwVars
  BY <1>1 DEF StaleInv, StaleTells, Stale, gwVars
<1>2. ASSUME NEW p \in Writers, \/ Handler(p) \/ Dies(p) \/ ReadStep(p) \/ Answer(p) \/ Scanned(p)
      PROVE  StaleInv'
  BY <1>1, <1>2 DEF Handler, Dies, ReadStep, Answer, Scanned
<1>3. ASSUME NEW p \in Writers, Truncate(p) PROVE StaleInv'
  BY <1>1, <1>3, TouchedFlag DEF Truncate
<1>4. ASSUME NEW p \in Writers, Fill(p) PROVE StaleInv'
  BY <1>4, TouchedFlag DEF Fill
<1>5. ASSUME NEW p \in Writers, Rename(p) PROVE StaleInv'
  BY <1>5, TouchedFlag DEF Rename
<1>6. ASSUME NEW t \in Tokens, SaveToken(t) \/ UpsertChannel(t) \/ PollConfirmed(t) PROVE StaleInv'
  BY <1>1, <1>6 DEF SaveToken, UpsertChannel, PollConfirmed
<1>7. CASE StartLogin \/ LoginExpires \/ Poll \/ PollPending
  BY <1>1, <1>7 DEF StartLogin, LoginExpires, Poll, PollPending
<1>8. CASE Spawn
  BY <1>8 DEF Spawn, StaleInv, StaleTells
<1>9. CASE Boot
  BY <1>9 DEF Boot, StaleInv, StaleTells
<1>10. CASE Record
  BY <1>10 DEF Record, StaleInv, StaleTells, Stale
<1>11. CASE Down
  BY <1>11 DEF Down, StaleInv, StaleTells
<1>12. CASE UNCHANGED fileVars
  BY <1>1, <1>12 DEF fileVars
<1> QED
  BY <1>2, <1>3, <1>4, <1>5, <1>6, <1>7, <1>8, <1>9, <1>10, <1>11, <1>12 DEF FilesNext

(* The keys *)

\* What is in secrets.json, or was and is gone for a reason.
Stored == disk["secrets"].has \cup lost
\* The operation stores the key.
Stores(o, k) == o.op = "write" /\ o.file = "secrets" /\ k \in o.add

\* A handler refers to, or answers with, only keys that are stored or that it stores first.
InTurn(ops, stored) ==
  \A i \in 1..Len(ops) : ~(ops[i].op = "write" /\ ops[i].file = "secrets") =>
    \A k \in ops[i].add : k \in stored \/ \E j \in 1..Len(ops) : j < i /\ Stores(ops[j], k)

\* Operations do not add and remove the same key.
Ops == {o \in [op : {"read", "write", "answer", "scanned"}, file : InPlace \cup Surfaces,
               add : SUBSET Keys, del : SUBSET Keys] : o.add \cap o.del = {}}

\* Types of the files, the copies and the handlers.
FilesOK ==
  /\ disk \in [InPlace -> [whole : BOOLEAN, has : SUBSET Keys]]
  /\ copy \in [Writers -> [InPlace -> (SUBSET Keys) \cup {Unread}]]
  /\ todo \in [Writers -> Seq(Ops)]
  /\ behind \in [Writers -> SUBSET Keys] /\ lost \subseteq Keys

\* The keys a process is removing: truncated, not yet filled.
Dropping(p) == IF p \in writing /\ InFile(p) = "secrets" THEN Head(todo[p]).del ELSE {}

\* Of each process: what it is about to fill in is what its operation asked for; its copy of
\* gateway.json refers to stored keys; its copy of the keys lacks none of the file's but
\* those it is known to lack, or is removing; and its handler is in turn.
KeysAt(p) ==
  /\ p \in writing => /\ todo[p] # <<>> /\ Head(todo[p]).op = "write" /\ InFile(p) \in InPlace
                      /\ copy[p][InFile(p)] # Unread
                      /\ Head(todo[p]).add \subseteq copy[p][InFile(p)]
  /\ copy[p]["gateway"] # Unread => copy[p]["gateway"] \subseteq Stored
  /\ copy[p]["secrets"] # Unread =>
       disk["secrets"].has \subseteq copy[p]["secrets"] \cup behind[p] \cup Dropping(p)
  /\ InTurn(todo[p], Stored)

\* What gateway.json and the channel form refer to is stored.
KeysInv ==
  /\ FilesOK
  /\ disk["gateway"].has \cup entered \subseteq Stored
  /\ \A p \in Writers : KeysAt(p)

\* The fields of an operation.
LEMMA OpFields ==
  ASSUME NEW kind, NEW f, NEW a, NEW d
  PROVE  /\ Op(kind, f, a, d).op = kind /\ Op(kind, f, a, d).file = f
         /\ Op(kind, f, a, d).add = a /\ Op(kind, f, a, d).del = d
         /\ kind \in {"read", "write", "answer", "scanned"} /\ f \in InPlace \cup Surfaces
              /\ a \subseteq Keys /\ d \subseteq Keys /\ a \cap d = {} => Op(kind, f, a, d) \in Ops
BY DEF Op, Ops

\* What each kind of operation is made of.
LEMMA OpsOK ==
  /\ \A f \in InPlace \cup Surfaces : /\ Read(f) \in Ops /\ Read(f).add = {}
                                      /\ Write(f) \in Ops /\ Write(f).add = {}
  /\ \A k \in Keys : /\ SetKey(k) \in Ops /\ Stores(SetKey(k), k)
                     /\ SetKey(k).op = "write" /\ SetKey(k).file = "secrets"
                     /\ DeleteKey(k) \in Ops /\ DeleteKey(k).add = {}
                     /\ Refer(k) \in Ops /\ Refer(k).add = {k}
                     /\ Unrefer(k) \in Ops /\ Unrefer(k).add = {}
                     /\ Op("answer", "secrets", {k}, {}) \in Ops
                     /\ Op("answer", "secrets", {k}, {}).add = {k}
  /\ Op("scanned", "gateway", {}, {}) \in Ops /\ Op("scanned", "gateway", {}, {}).add = {}
<1>1. "secrets" \in InPlace \cup Surfaces /\ "gateway" \in InPlace \cup Surfaces
  BY DEF InPlace
<1> QED BY <1>1, OpFields DEF Read, Write, SetKey, DeleteKey, Refer, Unrefer, Stores

\* An operation that refers to no key but those it stores.
Plain(o) == o \in Ops /\ (o.add = {} \/ (o.op = "write" /\ o.file = "secrets"))

\* Sequences of up to four operations.
LEMMA ShortHandlers ==
  ASSUME NEW S
  PROVE  /\ \A a : Plain(a) => <<a>> \in Seq(Ops) /\ InTurn(<<a>>, S)
         /\ \A a, b : Plain(a) /\ Plain(b) => <<a, b>> \in Seq(Ops) /\ InTurn(<<a, b>>, S)
         /\ \A a, b, k : Plain(a) /\ b \in Ops /\ b.add = {k} /\ (k \in S \/ Stores(a, k)) =>
               <<a, b>> \in Seq(Ops) /\ InTurn(<<a, b>>, S)
         /\ \A a, b, c, k : Plain(a) /\ Plain(b) /\ c \in Ops /\ c.add = {k}
                            /\ (k \in S \/ Stores(a, k) \/ Stores(b, k)) =>
               <<a, b, c>> \in Seq(Ops) /\ InTurn(<<a, b, c>>, S)
         /\ \A a, b, c, d, k : Plain(a) /\ Plain(b) /\ c \in Ops /\ c.add = {k} /\ Plain(d)
                            /\ (k \in S \/ Stores(a, k) \/ Stores(b, k)) =>
               <<a, b, c, d>> \in Seq(Ops) /\ InTurn(<<a, b, c, d>>, S)
         /\ <<>> \in Seq(Ops) /\ InTurn(<<>>, S)
<1>1. ASSUME NEW a, Plain(a) PROVE <<a>> \in Seq(Ops) /\ InTurn(<<a>>, S)
  BY <1>1 DEF Plain, InTurn
<1>2. ASSUME NEW a, NEW b, Plain(a), Plain(b) PROVE <<a, b>> \in Seq(Ops) /\ InTurn(<<a, b>>, S)
  BY <1>2 DEF Plain, InTurn
<1>3. ASSUME NEW a, NEW b, NEW k, Plain(a), b \in Ops, b.add = {k}, k \in S \/ Stores(a, k)
      PROVE  <<a, b>> \in Seq(Ops) /\ InTurn(<<a, b>>, S)
  <2>1. <<a, b>> \in Seq(Ops)
    BY <1>3 DEF Plain
  <2>2. ASSUME NEW i \in 1..2, ~(<<a, b>>[i].op = "write" /\ <<a, b>>[i].file = "secrets"), NEW x \in <<a, b>>[i].add
        PROVE  x \in S \/ \E j \in 1..2 : j < i /\ Stores(<<a, b>>[j], x)
    <3>1. i = 2 /\ x = k
      BY <1>3, <2>2 DEF Plain
    <3> QED BY <1>3, <3>1
  <2> QED BY <2>1, <2>2 DEF InTurn
<1>4. ASSUME NEW a, NEW b, NEW c, NEW k, Plain(a), Plain(b), c \in Ops, c.add = {k},
             k \in S \/ Stores(a, k) \/ Stores(b, k)
      PROVE  <<a, b, c>> \in Seq(Ops) /\ InTurn(<<a, b, c>>, S)
  <2> DEFINE s == <<a, b, c>>
  <2>1. s \in Seq(Ops) /\ Len(s) = 3 /\ s[1] = a /\ s[2] = b /\ s[3] = c
    BY <1>4 DEF Plain
  <2> HIDE DEF s
  <2>2. ASSUME NEW i \in 1..3, ~(s[i].op = "write" /\ s[i].file = "secrets"), NEW x \in s[i].add
        PROVE  x \in S \/ \E j \in 1..3 : j < i /\ Stores(s[j], x)
    <3>1. i = 3 /\ x = k
      BY <1>4, <2>1, <2>2 DEF Plain
    <3> QED BY <1>4, <2>1, <3>1
  <2>3. InTurn(s, S)
    BY <2>1, <2>2 DEF InTurn
  <2> QED BY <2>1, <2>3 DEF s
<1>5. ASSUME NEW a, NEW b, NEW c, NEW d, NEW k, Plain(a), Plain(b), c \in Ops, c.add = {k}, Plain(d),
             k \in S \/ Stores(a, k) \/ Stores(b, k)
      PROVE  <<a, b, c, d>> \in Seq(Ops) /\ InTurn(<<a, b, c, d>>, S)
  <2> DEFINE s == <<a, b, c, d>>
  <2>1. s \in Seq(Ops) /\ Len(s) = 4 /\ s[1] = a /\ s[2] = b /\ s[3] = c /\ s[4] = d
    BY <1>5 DEF Plain
  <2> HIDE DEF s
  <2>2. ASSUME NEW i \in 1..4, ~(s[i].op = "write" /\ s[i].file = "secrets"), NEW x \in s[i].add
        PROVE  x \in S \/ \E j \in 1..4 : j < i /\ Stores(s[j], x)
    <3>1. i = 3 /\ x = k
      BY <1>5, <2>1, <2>2 DEF Plain
    <3> QED BY <1>5, <2>1, <3>1
  <2>3. InTurn(s, S)
    BY <2>1, <2>2 DEF InTurn
  <2> QED BY <2>1, <2>3 DEF s
<1>6. <<>> \in Seq(Ops) /\ InTurn(<<>>, S)
  BY DEF InTurn
<1> QED BY <1>1, <1>2, <1>3, <1>4, <1>5, <1>6

\* A handler that may run when S is stored.
HandlerOK(h, S) == h \in Seq(Ops) /\ InTurn(h, S)

\* All files.
FilesAll == InPlace \cup Surfaces

\* The forms that the handlers take.
LEMMA FormsOK ==
  ASSUME NEW S, NEW f \in FilesAll, NEW g \in FilesAll
  PROVE  /\ HandlerOK(<<Read(f)>>, S) /\ HandlerOK(<<Write(f)>>, S)
         /\ HandlerOK(<<Read(f), Write(g)>>, S) /\ HandlerOK(<<Read(f), Read(g)>>, S)
         /\ HandlerOK(<<Write(f), Write(g)>>, S)
<1>1. Plain(Read(f)) /\ Plain(Write(f)) /\ Plain(Read(g)) /\ Plain(Write(g))
  BY OpsOK DEF Plain, FilesAll
<1> QED BY <1>1, ShortHandlers, Zenon DEF HandlerOK

\* The forms of handlers with a key.
LEMMA KeyFormsOK ==
  ASSUME NEW S, NEW f \in FilesAll, NEW k \in Keys
  PROVE  /\ HandlerOK(<<SetKey(k)>>, S) /\ HandlerOK(<<SetKey(k), Write(f)>>, S)
         /\ HandlerOK(<<DeleteKey(k)>>, S) /\ HandlerOK(<<DeleteKey(k), Write(f)>>, S)
         /\ HandlerOK(<<Write(f), DeleteKey(k)>>, S)
         /\ HandlerOK(<<Read(f), Unrefer(k)>>, S)
         /\ HandlerOK(<<Read(f), DeleteKey(k), Unrefer(k)>>, S)
         /\ HandlerOK(<<Read(f), SetKey(k), Refer(k)>>, S)
         /\ HandlerOK(<<SetKey(k), Read(f), Refer(k)>>, S)
<1>1. /\ Plain(Read(f)) /\ Plain(Write(f)) /\ Plain(SetKey(k)) /\ Plain(DeleteKey(k)) /\ Plain(Unrefer(k))
      /\ Refer(k) \in Ops /\ Refer(k).add = {k} /\ Stores(SetKey(k), k)
      /\ Unrefer(k).add = {} /\ DeleteKey(k).add = {} /\ Read(f).add = {}
  BY OpsOK DEF Plain, FilesAll
<1>2. HandlerOK(<<Read(f), DeleteKey(k), Unrefer(k)>>, S)
  <2>1. <<Read(f), DeleteKey(k), Unrefer(k)>> \in Seq(Ops)
    BY <1>1 DEF Plain
  <2>2. InTurn(<<Read(f), DeleteKey(k), Unrefer(k)>>, S)
    BY <1>1 DEF InTurn
  <2> QED BY <2>1, <2>2 DEF HandlerOK
<1>3. /\ HandlerOK(<<SetKey(k)>>, S) /\ HandlerOK(<<SetKey(k), Write(f)>>, S)
      /\ HandlerOK(<<DeleteKey(k)>>, S) /\ HandlerOK(<<DeleteKey(k), Write(f)>>, S)
      /\ HandlerOK(<<Write(f), DeleteKey(k)>>, S)
      /\ HandlerOK(<<Read(f), Unrefer(k)>>, S)
  BY <1>1, ShortHandlers, Zenon DEF HandlerOK
<1>4. HandlerOK(<<Read(f), SetKey(k), Refer(k)>>, S)
  BY <1>1, ShortHandlers, Zenon DEF HandlerOK
<1>5. HandlerOK(<<SetKey(k), Read(f), Refer(k)>>, S)
  BY <1>1, ShortHandlers, Zenon DEF HandlerOK
<1> QED BY <1>2, <1>3, <1>4, <1>5

\* Every handler of the panel, the terminal and the commands is in turn.
LEMMA HandlersOK ==
  ASSUME NEW S, NEW p \in Writers, NEW h \in HandlersOf(p)
  PROVE  HandlerOK(h, S)
<1>1. /\ "secrets" \in FilesAll /\ "gateway" \in FilesAll /\ "providers" \in FilesAll /\ "aliases" \in FilesAll
      /\ "mcp" \in FilesAll /\ "skills" \in FilesAll /\ "agents" \in FilesAll /\ "schedules" \in FilesAll
      /\ "settings" \in FilesAll
  BY DEF FilesAll, InPlace, Surfaces
<1>2. Tokens \subseteq Keys /\ ProviderKeys \subseteq Keys
  BY DEF Keys
<1>3. \A h1 \in {State, SetOrchestrator, EditChannel, SetMedia, SaveMcp, SaveSkill, ReplaceSkill,
                 SaveAgent, ReplaceAgent, SaveSchedule} : HandlerOK(h1, S)
  <2>1. HandlerOK(State, S) /\ HandlerOK(EditChannel, S) /\ HandlerOK(SetMedia, S)
    BY <1>1, FormsOK, Zenon DEF State, EditChannel, SetMedia
  <2>2. HandlerOK(SetOrchestrator, S) /\ HandlerOK(SaveMcp, S) /\ HandlerOK(SaveSkill, S)
        /\ HandlerOK(SaveAgent, S) /\ HandlerOK(SaveSchedule, S)
    BY <1>1, FormsOK, Zenon DEF SetOrchestrator, SaveMcp, SaveSkill, SaveAgent, SaveSchedule
  <2>3. HandlerOK(ReplaceSkill, S) /\ HandlerOK(ReplaceAgent, S)
    BY <1>1, FormsOK, Zenon DEF ReplaceSkill, ReplaceAgent
  <2> QED BY <2>1, <2>2, <2>3
<1>4. ASSUME NEW k \in Keys
      PROVE  /\ HandlerOK(AddProvider(k), S) /\ HandlerOK(DeleteProvider(k), S)
             /\ HandlerOK(SetStt(k), S) /\ HandlerOK(DeleteStt(k), S) /\ HandlerOK(DeleteChannel(k), S)
             /\ HandlerOK(<<DeleteKey(k)>>, S) /\ HandlerOK(CompleteWeixinLogin(k), S)
  BY <1>1, KeyFormsOK, Zenon DEF AddProvider, DeleteProvider, SetStt, DeleteStt, DeleteChannel,
     CompleteWeixinLogin
<1>5. h \in PanelHandlers => HandlerOK(h, S)
  <2>1. \A k \in ProviderKeys : \A h1 \in {AddProvider(k), DeleteProvider(k)} : HandlerOK(h1, S)
    BY <1>2, <1>4
  <2>2. \A t \in Tokens : \A h1 \in {SetStt(t), DeleteStt(t), DeleteChannel(t), <<DeleteKey(t)>>} :
          HandlerOK(h1, S)
    BY <1>2, <1>4
  <2>3. h \in PanelHandlers =>
          \/ h \in {State, SetOrchestrator, EditChannel, SetMedia, SaveMcp, SaveSkill, ReplaceSkill,
                    SaveAgent, ReplaceAgent, SaveSchedule}
          \/ \E k \in ProviderKeys : h \in {AddProvider(k), DeleteProvider(k)}
          \/ \E t \in Tokens : h \in {SetStt(t), DeleteStt(t), DeleteChannel(t), <<DeleteKey(t)>>}
    BY Zenon DEF PanelHandlers
  <2> QED BY <1>3, <2>1, <2>2, <2>3, Zenon
<1>6. ASSUME NEW k \in Keys
      PROVE  /\ HandlerOK(<<SetKey(k)>>, S) /\ HandlerOK(<<SetKey(k), Write("providers")>>, S)
             /\ HandlerOK(ProviderAdd(k), S) /\ HandlerOK(ProviderRm(k), S) /\ HandlerOK(AuthLogout(k), S)
             /\ HandlerOK(SecretSet(k), S) /\ HandlerOK(SecretRm(k), S)
  BY <1>1, KeyFormsOK, Zenon DEF ProviderAdd, ProviderRm, AuthLogout, SecretSet, SecretRm
<1>7. h \in TuiHandlers => HandlerOK(h, S)
  <2>1. HandlerOK(ShowKeys, S) /\ HandlerOK(SaveProviders, S) /\ HandlerOK(CommitModel, S)
        /\ HandlerOK(ToggleServer, S)
    BY <1>1, FormsOK, Zenon DEF ShowKeys, SaveProviders, CommitModel, ToggleServer
  <2>2. \A h1 \in CommitMcpForm : HandlerOK(h1, S)
    BY <1>1, FormsOK, Zenon DEF CommitMcpForm
  <2>3. \A k \in ProviderKeys : \A h1 \in CommitKey(k) : HandlerOK(h1, S)
    BY <1>2, <1>6, Zenon DEF CommitKey
  <2> QED BY <2>1, <2>2, <2>3, Zenon DEF TuiHandlers
<1>8. h \in CliHandlers => HandlerOK(h, S)
  <2>1. HandlerOK(ToggleProvider, S) /\ HandlerOK(BindAlias, S) /\ HandlerOK(ToggleMcp, S)
        /\ HandlerOK(AddSkill, S) /\ HandlerOK(SetSwitch, S) /\ HandlerOK(EditReadRoots, S)
        /\ HandlerOK(SetDyn, S)
    BY <1>1, FormsOK, Zenon DEF ToggleProvider, BindAlias, ToggleMcp, AddSkill, SetSwitch, EditReadRoots, SetDyn
  <2>2. \A k \in ProviderKeys : \A h1 \in AuthLogin(k) : HandlerOK(h1, S)
    BY <1>2, <1>6, Zenon DEF AuthLogin
  <2>3. \A k \in ProviderKeys : \A h1 \in {ProviderAdd(k), ProviderRm(k), AuthLogout(k)} \cup AuthLogin(k) :
          HandlerOK(h1, S)
    BY <1>2, <1>6, <2>2
  <2>4. \A k \in Keys : \A h1 \in {SecretSet(k), SecretRm(k)} : HandlerOK(h1, S)
    BY <1>6
  <2>5. \A h1 \in {CompleteWeixinLogin(t) : t \in Tokens} : HandlerOK(h1, S)
    BY <1>2, <1>4
  <2>6. h \in CliHandlers =>
          \/ h \in {ToggleProvider, BindAlias, ToggleMcp, AddSkill, SetSwitch, EditReadRoots, SetDyn}
          \/ \E k \in ProviderKeys : h \in {ProviderAdd(k), ProviderRm(k), AuthLogout(k)} \cup AuthLogin(k)
          \/ \E k \in Keys : h \in {SecretSet(k), SecretRm(k)}
          \/ h \in {CompleteWeixinLogin(t) : t \in Tokens}
    BY Zenon DEF CliHandlers
  <2>7. \A h1 \in {ToggleProvider, BindAlias, ToggleMcp, AddSkill, SetSwitch, EditReadRoots, SetDyn} :
          HandlerOK(h1, S)
    BY <2>1
  <2> QED BY <2>3, <2>4, <2>5, <2>6, <2>7, Zenon
<1>9. p = "panel" \/ p = "tui" \/ p = "cli"
  BY DEF Writers, Resident
<1> QED BY <1>5, <1>7, <1>8, <1>9 DEF HandlersOf

(* The steps *)

\* An operation is done: the rest of its handler is in turn.
LEMMA TailInTurn ==
  ASSUME NEW ops \in Seq(Ops), ops # <<>>, NEW S, NEW S2, S \subseteq S2, InTurn(ops, S),
         \A k : Stores(Head(ops), k) => k \in S2
  PROVE  Tail(ops) \in Seq(Ops) /\ InTurn(Tail(ops), S2)
<1> DEFINE t == Tail(ops)
<1>1. /\ t \in Seq(Ops) /\ Len(ops) \in Nat \ {0} /\ Len(t) = Len(ops) - 1 /\ Head(ops) = ops[1]
      /\ \A i \in 1..Len(t) : t[i] = ops[i + 1]
  OBVIOUS
<1> HIDE DEF t
<1>2. ASSUME NEW i \in 1..Len(t), ~(t[i].op = "write" /\ t[i].file = "secrets"), NEW k \in t[i].add
      PROVE  k \in S2 \/ \E j \in 1..Len(t) : j < i /\ Stores(t[j], k)
  <2>1. i + 1 \in 1..Len(ops) /\ t[i] = ops[i + 1]
    BY <1>1
  <2>2. k \in S \/ \E j \in 1..Len(ops) : j < i + 1 /\ Stores(ops[j], k)
    BY <1>2, <2>1 DEF InTurn
  <2>3. ASSUME NEW j \in 1..Len(ops), j < i + 1, Stores(ops[j], k)
        PROVE  k \in S2 \/ \E x \in 1..Len(t) : x < i /\ Stores(t[x], k)
    <3>1. CASE j = 1
      BY <1>1, <2>3, <3>1
    <3>2. CASE j # 1
      <4>1. j - 1 \in 1..Len(t) /\ j - 1 < i /\ t[j - 1] = ops[j]
        BY <1>1, <2>3, <3>2
      <4> QED BY <2>3, <4>1
    <3> QED BY <3>1, <3>2
  <2> QED BY <2>2, <2>3
<1> QED BY <1>1, <1>2 DEF InTurn, t

\* What is stored only grows.
LEMMA MoreInTurn ==
  ASSUME NEW ops, NEW S, NEW S2, S \subseteq S2, InTurn(ops, S)
  PROVE  InTurn(ops, S2)
BY DEF InTurn

\* A process that a step leaves alone, while what is stored only grows.
LEMMA StaysAt ==
  ASSUME NEW p \in Writers, KeysAt(p), todo'[p] = todo[p], behind'[p] = behind[p],
         copy'[p] = copy[p], p \in writing' <=> p \in writing,
         Stored \subseteq Stored', disk'["secrets"].has = disk["secrets"].has
  PROVE  KeysAt(p)'
BY MoreInTurn DEF KeysAt, Dropping, InFile

\* A process between two handlers starts one.
LEMMA StartsKeys ==
  ASSUME KeysInv, NEW p \in Writers, NEW h, Starts(p, h), HandlerOK(h, Stored),
         UNCHANGED <<disk, writing, lost>>, entered' \subseteq Stored
  PROVE  KeysInv'
<1>1. /\ todo' = [todo EXCEPT ![p] = h] /\ copy' = [copy EXCEPT ![p] = Forgotten(p)] /\ todo[p] = <<>>
      /\ behind' = [behind EXCEPT ![p] = IF p \in Resident THEN behind[p] ELSE {}]
  BY DEF Starts
<1>2. FilesOK
  BY DEF KeysInv
<1>3. Forgotten(p) \in [InPlace -> (SUBSET Keys) \cup {Unread}] /\ Forgotten(p)["gateway"] = Unread
      /\ Forgotten(p)["secrets"] = (IF p \in Resident THEN copy[p]["secrets"] ELSE Unread)
  <2>1. copy[p] \in [InPlace -> (SUBSET Keys) \cup {Unread}] /\ "secrets" \in InPlace /\ "gateway" \in InPlace
    BY <1>2 DEF FilesOK, InPlace
  <2>2. \A f \in InPlace : Forgotten(p)[f] = IF p \in Resident /\ f = "secrets" THEN copy[p][f] ELSE Unread
    BY DEF Forgotten
  <2>3. Forgotten(p) \in [InPlace -> (SUBSET Keys) \cup {Unread}]
    BY <2>1 DEF Forgotten
  <2>4. Forgotten(p)["gateway"] = Unread
    BY <2>1, <2>2
  <2>5. Forgotten(p)["secrets"] = (IF p \in Resident THEN copy[p]["secrets"] ELSE Unread)
    BY <2>1, <2>2
  <2> QED BY <2>3, <2>4, <2>5
<1>4. p \notin writing
  BY <1>1 DEF KeysInv, KeysAt
<1>5. h \in Seq(Ops) /\ InTurn(h, Stored)
  BY DEF HandlerOK
<1>6. FilesOK'
  BY <1>1, <1>2, <1>3, <1>5 DEF FilesOK
<1>7. /\ todo'[p] = h /\ copy'[p] = Forgotten(p)
      /\ behind'[p] = IF p \in Resident THEN behind[p] ELSE {}
      /\ \A q \in Writers : q # p => todo'[q] = todo[q] /\ copy'[q] = copy[q] /\ behind'[q] = behind[q]
  BY <1>1, <1>2 DEF FilesOK
<1>8. Stored' = Stored
  BY DEF Stored
<1>9. KeysAt(p)'
  <2>1. KeysAt(p)
    BY DEF KeysInv
  <2>2. p \notin writing' /\ Dropping(p)' = {} /\ Dropping(p) = {} /\ disk' = disk
    BY <1>4 DEF Dropping
  <2> QED BY <1>3, <1>5, <1>7, <1>8, <2>1, <2>2 DEF KeysAt
<1>10. ASSUME NEW q \in Writers, q # p PROVE KeysAt(q)'
  BY <1>7, <1>8, <1>10, StaysAt DEF KeysInv
<1> QED BY <1>6, <1>8, <1>9, <1>10 DEF KeysInv

\* An operation is over, which stored what it was to store.
LEMMA AdvanceKeys ==
  ASSUME KeysInv, NEW p \in Writers, Advance(p), todo[p] # <<>>, Head(todo[p]).op # "write" \/ InFile(p) # "secrets",
         copy' \in [Writers -> [InPlace -> (SUBSET Keys) \cup {Unread}]],
         \A q \in Writers : q # p => copy'[q] = copy[q],
         copy'[p]["gateway"] # Unread => copy'[p]["gateway"] \subseteq Stored,
         copy'[p]["secrets"] # Unread => disk["secrets"].has \subseteq copy'[p]["secrets"] \cup behind[p],
         UNCHANGED <<behind, lost>>, p \notin writing', \A q \in Writers : q # p => (q \in writing' <=> q \in writing),
         disk' \in [InPlace -> [whole : BOOLEAN, has : SUBSET Keys]],
         disk'["secrets"] = disk["secrets"], disk'["gateway"].has \cup entered' \subseteq Stored
  PROVE  KeysInv'
<1>1. FilesOK /\ KeysAt(p) /\ todo[p] \in Seq(Ops)
  BY DEF KeysInv, FilesOK
<1>2. todo' = [todo EXCEPT ![p] = Tail(todo[p])]
  BY DEF Advance
<1>3. Stored' = Stored
  BY DEF Stored
<1>4. \A k : ~Stores(Head(todo[p]), k)
  BY DEF Stores, InFile
<1>5. Tail(todo[p]) \in Seq(Ops) /\ InTurn(Tail(todo[p]), Stored)
  BY <1>1, <1>4, TailInTurn DEF KeysAt
<1>6. todo'[p] = Tail(todo[p]) /\ \A q \in Writers : q # p => todo'[q] = todo[q]
  BY <1>1, <1>2 DEF FilesOK
<1>7. FilesOK'
  BY <1>1, <1>2, <1>5 DEF FilesOK
<1>8. KeysAt(p)'
  BY <1>3, <1>5, <1>6 DEF KeysAt, Dropping
<1>9. ASSUME NEW q \in Writers, q # p PROVE KeysAt(q)'
  BY <1>3, <1>6, <1>9, StaysAt DEF KeysInv
<1> QED BY <1>3, <1>7, <1>8, <1>9 DEF KeysInv

\* A handler fails, or its process dies.
LEMMA ThrowKeys ==
  ASSUME KeysInv, NEW p \in Writers, todo' = [todo EXCEPT ![p] = <<>>], p \notin writing',
         \A q \in Writers : q # p => (q \in writing' <=> q \in writing),
         copy' = copy \/ copy' = [copy EXCEPT ![p] = [f \in InPlace |-> Unread]]
                      \/ \E f \in InPlace : copy' = [copy EXCEPT ![p][f] = Unread],
         p \notin writing \/ copy' = [copy EXCEPT ![p] = [f \in InPlace |-> Unread]],
         behind' = behind \/ (behind' = [behind EXCEPT ![p] = {}]
                              /\ copy' = [copy EXCEPT ![p] = [f \in InPlace |-> Unread]]),
         UNCHANGED <<disk, lost, entered>>
  PROVE  KeysInv'
<1>1. FilesOK /\ KeysAt(p)
  BY DEF KeysInv
<1>2. Stored' = Stored
  BY DEF Stored
<1>3. todo'[p] = <<>> /\ \A q \in Writers : q # p =>
        todo'[q] = todo[q] /\ copy'[q] = copy[q] /\ behind'[q] = behind[q]
  BY <1>1 DEF FilesOK
<1>4. FilesOK'
  <2>1. copy' \in [Writers -> [InPlace -> (SUBSET Keys) \cup {Unread}]]
    <3>1. copy[p] \in [InPlace -> (SUBSET Keys) \cup {Unread}]
      BY <1>1 DEF FilesOK
    <3>2. [f \in InPlace |-> Unread] \in [InPlace -> (SUBSET Keys) \cup {Unread}]
      OBVIOUS
    <3>3. ASSUME NEW f \in InPlace, copy' = [copy EXCEPT ![p][f] = Unread]
          PROVE  copy' \in [Writers -> [InPlace -> (SUBSET Keys) \cup {Unread}]]
      <4>1. [copy[p] EXCEPT ![f] = Unread] \in [InPlace -> (SUBSET Keys) \cup {Unread}]
        BY <3>1
      <4> QED BY <1>1, <3>3, <4>1 DEF FilesOK
    <3> QED BY <1>1, <3>2, <3>3 DEF FilesOK
  <2>2. todo' \in [Writers -> Seq(Ops)]
    <3>1. <<>> \in Seq(Ops)
      OBVIOUS
    <3> QED BY <1>1, <3>1 DEF FilesOK
  <2>3. behind' \in [Writers -> SUBSET Keys]
    <3>1. CASE behind' = behind
      BY <1>1, <3>1 DEF FilesOK
    <3>2. CASE behind' = [behind EXCEPT ![p] = {}]
      BY <1>1, <3>2 DEF FilesOK
    <3> QED BY <3>1, <3>2
  <2> QED BY <1>1, <2>1, <2>2, <2>3 DEF FilesOK
<1>5. \A f \in InPlace : copy'[p][f] = Unread \/ (copy'[p][f] = copy[p][f] /\ behind'[p] = behind[p] /\ p \notin writing)
  BY <1>1 DEF FilesOK
<1>6. InTurn(<<>>, Stored)
  BY DEF InTurn
<1>7. "secrets" \in InPlace /\ "gateway" \in InPlace
  BY DEF InPlace
<1>8. KeysAt(p)'
  BY <1>1, <1>2, <1>3, <1>5, <1>6, <1>7 DEF KeysAt, Dropping
<1>9. ASSUME NEW q \in Writers, q # p PROVE KeysAt(q)'
  BY <1>2, <1>3, <1>9, StaysAt DEF KeysInv
<1> QED BY <1>2, <1>4, <1>8, <1>9 DEF KeysInv

\* A process reads a file, or fails to.
LEMMA ReadKeys ==
  ASSUME KeysInv, NEW p \in Writers, ReadStep(p)
  PROVE  KeysInv'
<1> DEFINE f == InFile(p)
           got == Load(p, f)
<1>1. /\ todo[p] # <<>> /\ Head(todo[p]).op = "read"
      /\ copy' = [copy EXCEPT ![p][f] = got]
      /\ IF got = Unread THEN Throw(p) ELSE Advance(p)
      /\ UNCHANGED <<disk, writing, behind, lost, entered>>
  BY DEF ReadStep, Does, formVars
<1>2. FilesOK /\ KeysAt(p)
  BY DEF KeysInv
<1>3. p \notin writing
  BY <1>1, <1>2 DEF KeysAt
<1>4. CASE f \in InPlace
  <2>1. got = Unread \/ (got = disk[f].has /\ got \in SUBSET Keys)
          \/ (f = "secrets" /\ got = copy[p][f] /\ got \in (SUBSET Keys) \cup {Unread})
    BY <1>2, <1>4 DEF Load, FilesOK
  <2>2. got \in (SUBSET Keys) \cup {Unread}
    BY <2>1
  <2> HIDE DEF got, f
  <2>3. [copy[p] EXCEPT ![f] = got] \in [InPlace -> (SUBSET Keys) \cup {Unread}]
    BY <1>2, <2>2 DEF FilesOK
  <2>4. copy' \in [Writers -> [InPlace -> (SUBSET Keys) \cup {Unread}]]
    BY <1>1, <1>2, <2>3 DEF FilesOK
  <2>5. /\ \A q \in Writers : q # p => copy'[q] = copy[q]
        /\ \A g \in InPlace : copy'[p][g] = IF g = f THEN got ELSE copy[p][g]
    BY <1>1, <1>2, <1>4 DEF FilesOK
  <2>6. CASE got = Unread
    BY <1>1, <1>3, <1>4, <2>6, ThrowKeys DEF Throw
  <2>7. CASE got # Unread
    <3>1. copy'[p]["gateway"] # Unread => copy'[p]["gateway"] \subseteq Stored
      BY <1>2, <2>1, <2>5 DEF KeysAt, KeysInv, InPlace
    <3>2. copy'[p]["secrets"] # Unread => disk["secrets"].has \subseteq copy'[p]["secrets"] \cup behind[p]
      BY <1>2, <1>3, <2>1, <2>5 DEF KeysAt, Dropping, InPlace
    <3>3. disk["gateway"].has \cup entered \subseteq Stored
      BY DEF KeysInv
    <3> QED BY <1>1, <1>2, <1>3, <2>4, <2>5, <2>7, <3>1, <3>2, <3>3, AdvanceKeys DEF FilesOK
  <2> QED BY <2>6, <2>7
<1>5. CASE f \notin InPlace
  <2>1. copy' = copy
    <3>1. [copy[p] EXCEPT ![f] = got] = copy[p]
      BY <1>2, <1>5 DEF FilesOK
    <3> QED BY <1>1, <1>2, <3>1 DEF FilesOK
  <2>2. CASE got = Unread
    BY <1>1, <1>3, <2>1, <2>2, ThrowKeys DEF Throw
  <2>3. CASE got # Unread
    BY <1>1, <1>2, <1>3, <2>1, <2>3, AdvanceKeys DEF KeysInv, FilesOK, KeysAt, Dropping
  <2> QED BY <2>2, <2>3
<1> QED BY <1>4, <1>5

\* An operation that touches neither of the two files.
LEMMA OtherKeys ==
  ASSUME KeysInv, NEW p \in Writers, Rename(p) \/ Answer(p) \/ Scanned(p)
  PROVE  KeysInv'
<1>1. /\ todo[p] # <<>> /\ Advance(p) /\ UNCHANGED <<disk, copy, writing, behind, lost>>
      /\ Head(todo[p]).op # "write" \/ InFile(p) \notin InPlace
      /\ entered' \subseteq entered \cup Head(todo[p]).add
      /\ Head(todo[p]).op = "write" => entered' = entered
  BY DEF Rename, Answer, Scanned, Does, keyVars, formVars
<1>2. FilesOK /\ KeysAt(p)
  BY DEF KeysInv
<1>3. p \notin writing
  BY <1>1, <1>2 DEF KeysAt
<1>4. Head(todo[p]).op # "write" => Head(todo[p]).add \subseteq Stored
  <2>1. todo[p] \in Seq(Ops) /\ 1 \in 1..Len(todo[p]) /\ Head(todo[p]) = todo[p][1] /\ Len(todo[p]) \in Nat
    BY <1>1, <1>2 DEF FilesOK
  <2> QED BY <1>2, <2>1 DEF KeysAt, InTurn
<1>5. Head(todo[p]).op # "write" \/ InFile(p) # "secrets"
  BY <1>1 DEF InPlace
<1> QED BY <1>1, <1>2, <1>3, <1>4, <1>5, AdvanceKeys DEF KeysInv, FilesOK, KeysAt, Dropping

\* A write makes its change to the copy; the file keeps its content for those who held it.
LEMMA TruncateKeys ==
  ASSUME KeysInv, NEW p \in Writers, Truncate(p)
  PROVE  KeysInv'
<1> DEFINE f == InFile(p)
           o == Head(todo[p])
           from == IF f = "secrets" THEN Load(p, f) ELSE copy[p][f]
           next == (from \cup o.add) \ o.del
<1>1. /\ todo[p] # <<>> /\ o.op = "write" /\ f \in InPlace /\ p \notin writing
      /\ UNCHANGED <<behind, lost, entered>>
  BY DEF Truncate, Does, formVars
<1>2. FilesOK /\ KeysAt(p)
  BY DEF KeysInv
<1>3. CASE from = Unread
  BY <1>1, <1>3, ThrowKeys DEF Truncate, Throw
<1>4. CASE from # Unread
  <2>1. /\ copy' = [copy EXCEPT ![p][f] = next] /\ disk' = [disk EXCEPT ![f].whole = FALSE]
        /\ writing' = writing \cup {p} /\ todo' = todo
    BY <1>4 DEF Truncate
  <2>2. /\ o \in Ops /\ o.add \cap o.del = {} /\ o.add \subseteq Keys
        /\ f = "gateway" => o.add \subseteq Stored
    <3>1. todo[p] \in Seq(Ops) /\ 1 \in 1..Len(todo[p]) /\ o = todo[p][1] /\ Len(todo[p]) \in Nat /\ o \in Ops
      BY <1>1, <1>2 DEF FilesOK
    <3>2. f = "gateway" => o.add \subseteq Stored
      BY <1>2, <3>1 DEF KeysAt, InTurn, InFile
    <3> QED BY <3>1, <3>2 DEF Ops
  <2>3. from \in SUBSET Keys
    BY <1>1, <1>2, <1>4 DEF Load, FilesOK
  <2>4. f = "gateway" => from \subseteq Stored
    BY <1>2, <1>4 DEF KeysAt
  <2>5. f = "secrets" => disk["secrets"].has \subseteq from \cup behind[p]
    BY <1>1, <1>2, <1>4 DEF KeysAt, Load, Dropping
  <2>6. next \in SUBSET Keys /\ next # Unread /\ o.add \subseteq next
    BY <2>2, <2>3, FilesAssumption
  <2>7. f = "gateway" => next \subseteq Stored
    BY <2>2, <2>4
  <2>8. f = "secrets" => disk["secrets"].has \subseteq next \cup behind[p] \cup o.del
    BY <2>5
  <2>9. f = "secrets" \/ f = "gateway"
    BY <1>1 DEF InPlace
  <2>10. Head(todo[p]) = o /\ InFile(p) = f
    OBVIOUS
  <2> HIDE DEF next, from, f, o
  <2>11. [copy[p] EXCEPT ![f] = next] \in [InPlace -> (SUBSET Keys) \cup {Unread}]
    BY <1>2, <2>6 DEF FilesOK
  <2>12. /\ copy' \in [Writers -> [InPlace -> (SUBSET Keys) \cup {Unread}]]
         /\ \A q \in Writers : q # p => copy'[q] = copy[q]
         /\ \A g \in InPlace : copy'[p][g] = IF g = f THEN next ELSE copy[p][g]
    BY <1>1, <1>2, <2>1, <2>11 DEF FilesOK
  <2>13. /\ disk' \in [InPlace -> [whole : BOOLEAN, has : SUBSET Keys]]
         /\ \A g \in InPlace : disk'[g].has = disk[g].has
    <3>1. [disk[f] EXCEPT !.whole = FALSE] \in [whole : BOOLEAN, has : SUBSET Keys]
          /\ [disk[f] EXCEPT !.whole = FALSE].has = disk[f].has
      BY <1>1, <1>2 DEF FilesOK
    <3>2. disk' = [disk EXCEPT ![f] = [disk[f] EXCEPT !.whole = FALSE]]
      BY <2>1
    <3> QED BY <1>1, <1>2, <3>1, <3>2 DEF FilesOK
  <2>14. "secrets" \in InPlace /\ "gateway" \in InPlace
    BY DEF InPlace
  <2>15. Stored' = Stored
    BY <1>1, <2>13, <2>14 DEF Stored
  <2>16. KeysAt(p)'
    <3>1. p \in writing' /\ todo'[p] = todo[p] /\ Head(todo'[p]) = o /\ InFile(p)' = f
      BY <2>1, <2>10 DEF InFile
    <3>2. Dropping(p)' = IF f = "secrets" THEN o.del ELSE {}
      BY <3>1 DEF Dropping
    <3>3. copy'[p]["gateway"] # Unread => copy'[p]["gateway"] \subseteq Stored'
      BY <1>2, <2>7, <2>12, <2>14, <2>15 DEF KeysAt
    <3>4. copy'[p]["secrets"] # Unread =>
            disk'["secrets"].has \subseteq copy'[p]["secrets"] \cup behind'[p] \cup Dropping(p)'
      <4>1. CASE f = "secrets"
        BY <1>1, <2>8, <2>12, <2>13, <2>14, <3>2, <4>1
      <4>2. CASE f # "secrets"
        BY <1>1, <1>2, <2>12, <2>13, <2>14, <4>2 DEF KeysAt, Dropping
      <4> QED BY <4>1, <4>2
    <3> QED BY <1>1, <1>2, <2>1, <2>6, <2>10, <2>12, <2>15, <3>1, <3>3, <3>4 DEF KeysAt
  <2>17. ASSUME NEW q \in Writers, q # p PROVE KeysAt(q)'
    BY <1>1, <2>1, <2>12, <2>13, <2>14, <2>15, <2>17, StaysAt DEF KeysInv
  <2>18. FilesOK'
    BY <1>1, <1>2, <2>1, <2>12, <2>13 DEF FilesOK
  <2> QED BY <1>1, <2>13, <2>14, <2>15, <2>16, <2>17, <2>18 DEF KeysInv
<1> QED BY <1>3, <1>4

\* The content arrives: what others lack of it is written down.
LEMMA FillKeys ==
  ASSUME KeysInv, NEW p \in Writers, Fill(p)
  PROVE  KeysInv'
<1> DEFINE o == Head(todo[p])
           f == o.file
           mine == copy[p][f]
<1>1. /\ p \in writing /\ writing' = writing \ {p} /\ Advance(p)
      /\ UNCHANGED <<copy, entered>>
      /\ \E w \in BOOLEAN : disk' = [disk EXCEPT ![f] = [whole |-> w, has |-> mine]]
  BY DEF Fill, formVars
<1>2. FilesOK /\ KeysAt(p)
  BY DEF KeysInv
<1>3. /\ todo[p] # <<>> /\ o.op = "write" /\ f \in InPlace /\ mine # Unread /\ o.add \subseteq mine
      /\ InFile(p) = f /\ todo[p] \in Seq(Ops)
  BY <1>1, <1>2 DEF KeysAt, InFile, FilesOK
<1>4. mine \in SUBSET Keys
  BY <1>2, <1>3 DEF FilesOK
<1>5. "secrets" \in InPlace /\ "gateway" \in InPlace /\ (f = "secrets" \/ f = "gateway")
  BY <1>3 DEF InPlace
<1>6. /\ disk' \in [InPlace -> [whole : BOOLEAN, has : SUBSET Keys]]
      /\ disk'[f].has = mine /\ \A g \in InPlace : g # f => disk'[g] = disk[g]
  <2>1. PICK w \in BOOLEAN : disk' = [disk EXCEPT ![f] = [whole |-> w, has |-> mine]]
    BY <1>1
  <2>2. [whole |-> w, has |-> mine] \in [whole : BOOLEAN, has : SUBSET Keys]
    BY <1>4
  <2> QED BY <1>2, <1>3, <2>1, <2>2 DEF FilesOK
<1>7. o.del \subseteq Keys
  <2>1. o \in Ops
    BY <1>3
  <2> QED BY <2>1 DEF Ops
<1>8. todo' = [todo EXCEPT ![p] = Tail(todo[p])] /\ Tail(todo[p]) \in Seq(Ops)
  BY <1>1, <1>3 DEF Advance
<1>9. /\ todo' \in [Writers -> Seq(Ops)] /\ todo'[p] = Tail(todo[p])
      /\ \A q \in Writers : q # p => todo'[q] = todo[q]
  BY <1>2, <1>8 DEF FilesOK
<1>10. CASE f = "gateway"
  <2>1. UNCHANGED <<behind, lost>>
    BY <1>10 DEF Fill, keyVars
  <2>2. Stored' = Stored
    BY <1>5, <1>6, <1>10, <2>1 DEF Stored
  <2>3. mine \subseteq Stored
    BY <1>2, <1>3, <1>10 DEF KeysAt
  <2>4. \A k : ~Stores(o, k)
    BY <1>10 DEF Stores
  <2>5. InTurn(Tail(todo[p]), Stored)
    BY <1>2, <1>3, <2>4, TailInTurn DEF KeysAt
  <2>6. KeysAt(p)'
    <3>1. p \notin writing' /\ Dropping(p) = {} /\ Dropping(p)' = {}
      BY <1>1, <1>3, <1>10 DEF Dropping
    <3> QED BY <1>1, <1>2, <1>5, <1>6, <1>9, <1>10, <2>1, <2>2, <2>5, <3>1 DEF KeysAt
  <2>7. ASSUME NEW q \in Writers, q # p PROVE KeysAt(q)'
    BY <1>1, <1>5, <1>6, <1>9, <1>10, <2>1, <2>2, <2>7, StaysAt DEF KeysInv
  <2>8. FilesOK'
    BY <1>1, <1>2, <1>6, <1>9, <2>1 DEF FilesOK
  <2> QED BY <1>1, <1>6, <1>10, <2>2, <2>3, <2>6, <2>7, <2>8 DEF KeysInv
<1>11. CASE f = "secrets"
  <2>1. /\ lost' = (lost \cup o.del \cup behind[p]) \ mine
        /\ behind' = [q \in Writers |-> IF q = p \/ copy[q]["secrets"] = Unread THEN {}
                                        ELSE behind[q] \cup (mine \ copy[q]["secrets"])]
    BY <1>11 DEF Fill
  <2>2. Dropping(p) = o.del
    BY <1>1, <1>3, <1>11 DEF Dropping
  <2>3. disk["secrets"].has \subseteq mine \cup behind[p] \cup o.del
    BY <1>2, <1>3, <1>11, <2>2 DEF KeysAt
  <2>4. Stored' = mine \cup lost \cup o.del \cup behind[p]
    BY <1>6, <1>11, <2>1 DEF Stored
  <2>5. Stored \subseteq Stored'
    BY <2>3, <2>4 DEF Stored
  <2>6. \A k : Stores(o, k) => k \in Stored'
    BY <1>3, <2>4 DEF Stores
  <2>7. InTurn(Tail(todo[p]), Stored')
    BY <1>2, <1>3, <2>5, <2>6, TailInTurn DEF KeysAt
  <2>8. KeysAt(p)'
    <3>1. p \notin writing' /\ Dropping(p)' = {}
      BY <1>1 DEF Dropping
    <3>2. disk'["secrets"].has = copy'[p]["secrets"]
      BY <1>1, <1>6, <1>11
    <3>3. copy'[p]["gateway"] # Unread => copy'[p]["gateway"] \subseteq Stored'
      BY <1>1, <1>2, <2>5 DEF KeysAt
    <3> QED BY <1>9, <2>7, <3>1, <3>2, <3>3 DEF KeysAt
  <2>9. ASSUME NEW q \in Writers, q # p PROVE KeysAt(q)'
    <3>1. KeysAt(q) /\ todo'[q] = todo[q] /\ copy'[q] = copy[q] /\ (q \in writing' <=> q \in writing)
      BY <1>1, <1>9, <2>9 DEF KeysInv
    <3>2. copy'[q]["secrets"] # Unread => disk'["secrets"].has \subseteq copy'[q]["secrets"] \cup behind'[q]
      BY <1>6, <1>11, <2>1, <2>9, <3>1
    <3>3. InTurn(todo'[q], Stored')
      BY <2>5, <3>1, MoreInTurn DEF KeysAt
    <3> QED BY <2>5, <3>1, <3>2, <3>3 DEF KeysAt, InFile
  <2>10. FilesOK'
    <3>1. behind' \in [Writers -> SUBSET Keys]
      BY <1>2, <1>4, <2>1 DEF FilesOK
    <3>2. lost' \subseteq Keys
      BY <1>2, <1>7, <2>1 DEF FilesOK
    <3> QED BY <1>1, <1>2, <1>6, <1>9, <3>1, <3>2 DEF FilesOK
  <2>11. disk'["gateway"].has \cup entered' \subseteq Stored'
    BY <1>1, <1>5, <1>6, <1>11, <2>5 DEF KeysInv
  <2> QED BY <2>8, <2>9, <2>10, <2>11 DEF KeysInv
<1> QED BY <1>5, <1>10, <1>11

\* A process dies between two system calls.
LEMMA DiesKeys ==
  ASSUME KeysInv, NEW p \in Writers, Dies(p)
  PROVE  KeysInv'
BY ThrowKeys DEF Dies

\* Every step keeps the keys.
LEMMA KeysStep ==
  ASSUME KeysInv, [FilesNext]_fileVars
  PROVE  KeysInv'
<1>1. ASSUME UNCHANGED <<shareVars>>, entered' = entered PROVE KeysInv'
  BY <1>1 DEF shareVars, KeysInv, FilesOK, KeysAt, Dropping, InFile, Stored
<1>2. ASSUME NEW p \in Writers, Handler(p) PROVE KeysInv'
  <2>1. PICK h \in HandlersOf(p) : Starts(p, h)
    BY <1>2 DEF Handler
  <2>2. HandlerOK(h, Stored)
    BY HandlersOK
  <2> QED BY <1>2, <2>1, <2>2, StartsKeys DEF Handler, formVars, KeysInv
<1>3. "panel" \in Writers
  BY DEF Writers, Resident
<1>4. \A t \in Tokens : t \in Keys
  BY DEF Keys
<1>5. "gateway" \in InPlace \cup Surfaces
  BY DEF InPlace
<1>6. ASSUME NEW t \in Tokens, SaveToken(t) PROVE KeysInv'
  <2>1. HandlerOK(<<SetKey(t), Op("answer", "secrets", {t}, {})>>, Stored)
    BY <1>4, OpsOK, ShortHandlers DEF HandlerOK, Plain
  <2> QED BY <1>3, <1>6, <2>1, StartsKeys DEF SaveToken, formVars, KeysInv
<1>7. ASSUME NEW t \in Tokens, UpsertChannel(t) PROVE KeysInv'
  <2>1. t \in Stored
    BY <1>7 DEF UpsertChannel, KeysInv
  <2>2. HandlerOK(<<Read("gateway"), Refer(t)>>, Stored)
    BY <1>4, <1>5, <2>1, OpsOK, ShortHandlers DEF HandlerOK, Plain
  <2> QED BY <1>3, <1>7, <2>2, StartsKeys DEF UpsertChannel, KeysInv
<1>8. ASSUME NEW t \in Tokens, PollConfirmed(t) PROVE KeysInv'
  <2> DEFINE a == SetKey(t)
             b == Read("gateway")
             c == Refer(t)
             d == Op("scanned", "gateway", {}, {})
  <2>1. Plain(a) /\ Plain(b) /\ c \in Ops /\ c.add = {t} /\ Plain(d) /\ Stores(a, t)
    BY <1>4, <1>5, OpsOK DEF Plain
  <2>2. Starts("panel", Append(<<a, b, c>>, d))
    BY <1>8 DEF PollConfirmed, CompleteWeixinLogin
  <2> HIDE DEF a, b, c, d
  <2>3. HandlerOK(<<a, b, c, d>>, Stored)
    BY <2>1, ShortHandlers DEF HandlerOK
  <2>4. Append(<<a, b, c>>, d) = <<a, b, c, d>>
    <3>1. a \in Ops /\ b \in Ops /\ c \in Ops /\ d \in Ops
      BY <2>1 DEF Plain
    <3> DEFINE v == <<a, b, c>>
               w == <<a, b, c, d>>
    <3>2. /\ v \in Seq(Ops) /\ Len(v) = 3 /\ v[1] = a /\ v[2] = b /\ v[3] = c
          /\ w \in Seq(Ops) /\ Len(w) = 4 /\ w[1] = a /\ w[2] = b /\ w[3] = c /\ w[4] = d
      BY <3>1
    <3> HIDE DEF v, w
    <3>3. /\ Append(v, d) \in Seq(Ops) /\ Len(Append(v, d)) = 4 /\ Append(v, d)[4] = d
          /\ \A i \in 1..3 : Append(v, d)[i] = v[i]
      <4>1. d \in Ops /\ v \in Seq(Ops)
        BY <3>1, <3>2
      <4>2. /\ Append(v, d) \in Seq(Ops) /\ Len(Append(v, d)) = Len(v) + 1
            /\ \A i \in 1..Len(v) : Append(v, d)[i] = v[i]
            /\ Append(v, d)[Len(v) + 1] = d
        BY <4>1
      <4> QED BY <3>2, <4>2
    <3>4. \A i \in 1..4 : Append(v, d)[i] = w[i]
      BY <3>2, <3>3
    <3>5. Append(v, d) = w
      BY <3>2, <3>3, <3>4, SeqEqual
    <3> QED BY <3>5 DEF v, w
  <2> QED BY <1>3, <1>8, <2>2, <2>3, <2>4, StartsKeys DEF PollConfirmed, KeysInv
<1>9. CASE StartLogin \/ LoginExpires \/ Poll \/ PollPending
  BY <1>1, <1>9 DEF StartLogin, LoginExpires, Poll, PollPending
<1>10. CASE Spawn \/ Boot \/ Record \/ Down
  BY <1>1, <1>10 DEF Spawn, Boot, Record, Down, formVars
<1>11. CASE UNCHANGED fileVars
  BY <1>1, <1>11 DEF fileVars, formVars
<1> QED
  BY <1>2, <1>6, <1>7, <1>8, <1>9, <1>10, <1>11, ReadKeys, OtherKeys, TruncateKeys, FillKeys, DiesKeys
  DEF FilesNext

\* The files start whole and empty.
LEMMA FilesStart ==
  ASSUME FilesInit
  PROVE  StaleInv /\ KeysInv
<1>1. StaleInv
  BY DEF FilesInit, StaleInv, StaleTells
<1>2. "secrets" \in InPlace /\ "gateway" \in InPlace
  BY DEF InPlace
<1>3. FilesOK
  BY DEF FilesInit, FilesOK
<1>4. disk["gateway"].has \cup entered \subseteq Stored
  BY <1>2 DEF FilesInit, Stored
<1>5. ASSUME NEW p \in Writers PROVE KeysAt(p)
  <2>1. /\ copy[p]["gateway"] = Unread /\ copy[p]["secrets"] = Unread /\ todo[p] = <<>>
        /\ p \notin writing
    BY <1>2, <1>5 DEF FilesInit
  <2>2. InTurn(<<>>, Stored)
    BY DEF InTurn
  <2> QED BY <2>1, <2>2 DEF KeysAt
<1> QED BY <1>1, <1>3, <1>4, <1>5 DEF KeysInv

\* In particular, with both files whole every reference resolves.
LEMMA KeysResolve == KeysInv => TokensResolve
BY DEF KeysInv, TokensResolve, Stored

-----------------------------------------------------------------------------
(* The desktop *)

\* What is proved below rests on this.
GatewayInv == SidecarInv /\ ProcInv /\ RestartSpares /\ LinkInv /\ LinkHeld /\ ShownIsLive
DesktopInv == GatewayInv /\ StoreInv /\ ScreenInv /\ EndsInv /\ StaleInv /\ KeysInv

\* The part that is watched takes its steps, the others stay at rest.
LEMMA DesktopStep ==
  ASSUME [DesktopNext]_<<vars, storeVars, fileVars, watched>>
  PROVE  /\ [SidecarStep]_sidecarVars
         /\ [Next]_vars
         /\ [StoreNext]_storeVars
         /\ [FilesNext]_fileVars
BY DEF DesktopNext, Next, vars

\* What all theorems below rest on.
LEMMA Inductive == DesktopSpec => []DesktopInv
<1>1. DesktopInit => DesktopInv
  <2>1. DesktopInit => SidecarInit /\ (Init \/ AtRest) /\ StoreInit /\ FilesInit
    BY DEF DesktopInit, GatewayInit, ChatsInit, DiskInit, AtRest, Init
  <2> QED BY <2>1, SidecarStart, LinkStart, StoreStart, EndsStart, FilesStart DEF DesktopInv, GatewayInv
<1>2. DesktopInv /\ [DesktopNext]_<<vars, storeVars, fileVars, watched>> => DesktopInv'
  <2> SUFFICES ASSUME DesktopInv, [DesktopNext]_<<vars, storeVars, fileVars, watched>> PROVE DesktopInv'
    OBVIOUS
  <2>1. [SidecarStep]_sidecarVars /\ [Next]_vars /\ [StoreNext]_storeVars /\ [FilesNext]_fileVars
    BY DesktopStep
  <2>2. GatewayInv'
    BY <2>1, TypesKept, FuseKept, ProcKept, LinkKept DEF DesktopInv, GatewayInv, SidecarInv
  <2>3. StoreInv' /\ ScreenInv' /\ EndsInv'
    BY <2>1, StoreStep, EndsStep DEF DesktopInv
  <2>4. StaleInv' /\ KeysInv'
    BY <2>1, StaleStep, KeysStep DEF DesktopInv
  <2> QED BY <2>2, <2>3, <2>4 DEF DesktopInv
<1> QED BY <1>1, <1>2, PTL DEF DesktopSpec

\* Processes, pid record and supervisor, the window's store, and the files with the
\* handlers under way keep their types; the crash count never passes the limit by more
\* than the crash that blew the fuse.
THEOREM DesktopTypesCorrect == DesktopSpec => [](SidecarTypeOK /\ StoreOK /\ FilesOK)
<1>1. DesktopInv => SidecarTypeOK /\ StoreOK /\ FilesOK
  BY DEF DesktopInv, GatewayInv, SidecarInv, StoreInv, TalkInv, KeysInv
<1> QED BY <1>1, Inductive, PTL

\* The crash-loop fuse of supervisor.ts tick: between two commands of the user it
\* never restarts the gateway more than CrashLoopLimit times in a row.
THEOREM FuseIsSafe == DesktopSpec => []FuseHolds
<1>1. DesktopInv => FuseHolds
  BY SidecarAssumption DEF DesktopInv, GatewayInv, SidecarInv, SidecarTypeOK, FuseInv, FuseHolds, Owed
<1> QED BY <1>1, Inductive, PTL

\* restart() waits for the process it told to stop and kills it when the wait is over: what
\* the panel or a poll has started and recorded meanwhile is another one, also where pids
\* come back (supervisor.ts restart, gateway-process.ts start).
THEOREM RestartKillsOnlyOld == DesktopSpec => []RestartSpares
<1>1. DesktopInv => RestartSpares
  BY DEF DesktopInv, GatewayInv
<1> QED BY <1>1, Inductive, PTL

\* The safety half of ChatComesBack: however dials, handshakes, closes, new keys and a
\* disposal follow each other, a profile that is there has a link or a retry, or waits for
\* a key; and "connected" is not shown over a link that nobody will bring back.
THEOREM LinkIsHeld == DesktopSpec => [](LinkHeld /\ ShownIsLive)
<1>1. DesktopInv => LinkHeld /\ ShownIsLive
  BY DEF DesktopInv, GatewayInv
<1> QED BY <1>1, Inductive, PTL

\* The window never has two turns of its own in one chat's queue, whatever session list,
\* notice or broken link comes between, but for starts whose answer was lost (store.ts
\* sendMessage, loadSessionsFor, handleNotification).
THEOREM OwnTurnsWaitAlone == DesktopSpec => []OwnTurnsInSingleFile
<1>1. DesktopInv => OwnTurnsInSingleFile
  BY SingleFile DEF DesktopInv
<1> QED BY <1>1, Inductive, PTL

\* The safety half of RunIdsClear: a chat that is marked as running a turn that has ended
\* has the notice on its way, or a list that will correct the mark, whatever drop, answer
\* or other turn comes between (store.ts handleNotification, loadSessionsFor).
THEOREM EndsAreHeard == DesktopSpec => []EndsAreOwed
<1>1. DesktopInv => EndsAreOwed
  BY DEF DesktopInv, EndsInv
<1> QED BY <1>1, Inductive, PTL

\* openSession never takes a running turn's text off the screen, but by a history that
\* was asked for before the text was there.
THEOREM RunningTextStays == DesktopSpec => TurnStaysOnScreen
<1>1. DesktopInv /\ [DesktopNext]_<<vars, storeVars, fileVars, watched>> => [StaysShown]_storeVars
  BY DesktopStep, ShownStep DEF DesktopInv
<1>2. [][StaysShown]_storeVars => TurnStaysOnScreen
  BY DEF StaysShown, TurnStaysOnScreen
<1> QED BY <1>1, <1>2, Inductive, PTL DEF DesktopSpec

\* Whatever processes write the two files, and wherever they die, a key that
\* gateway.json refers to is in secrets.json, or was removed on purpose or overwritten
\* from an older copy (keychain.ts, completeWeixinLogin, setStt, the channel form).
THEOREM ReferredKeysAreStored == DesktopSpec => []TokensResolve
<1>1. DesktopInv => TokensResolve
  BY KeysResolve DEF DesktopInv
<1> QED BY <1>1, Inductive, PTL

\* The panel's flag tells of every change a restart would apply, but of what was
\* written while the gateway booted (gatewayStatus).
THEOREM FlagTellsOfChanges == DesktopSpec => []StaleTells
<1>1. DesktopInv => StaleTells
  BY DEF DesktopInv, StaleInv
<1> QED BY <1>1, Inductive, PTL
=============================================================================
