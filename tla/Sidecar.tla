------------------------------ MODULE Sidecar ------------------------------
(***************************************************************************)
(* The resident gateway process and those who start and stop it: the       *)
(* desktop's supervisor (apps/desktop main/supervisor.ts) and the web      *)
(* panel, both through GatewayProcessManager (apps/gateway runtime/        *)
(* gateway-process.ts) and the pid file, and the process itself (bin.ts).  *)
(*                                                                         *)
(* Time is left out: a backoff runs out, a process counts as stable and a  *)
(* grace period ends at some point.  A dead process's pid may come back,   *)
(* but not while the pid file names it.                                    *)
(***************************************************************************)
EXTENDS Naturals

CONSTANTS
  Pids, NoPid,
  CrashLoopLimit, \* crashes in a row before the fuse blows
  MaxCrashes,     \* bound: crashes in a behaviour
  MaxManual       \* bound: commands of the user in a behaviour

ASSUME SidecarAssumption ==
  NoPid \notin Pids /\ {CrashLoopLimit, MaxCrashes, MaxManual} \subseteq Nat

VARIABLES
  proc,          \* none, booting, up or closing
  told,          \* processes with a SIGTERM they have not handled
  port,          \* the process that listens on /rpc
  stable,        \* processes up for stableMs
  file,          \* the pid record
  manualStopped, fused, crashCount,
  backoff,       \* nextRestartAt: none, waiting or due
  restarting,    \* the process restart() waits for
  streak,        \* automatic starts since the last command or stable run
  crashes, manual

procVars == <<proc, told, port, stable>>
supVars == <<manualStopped, fused, crashCount, backoff, restarting, streak>>
sidecarVars == <<procVars, file, supVars, crashes, manual>>

Alive(p) == p # NoPid /\ proc[p] # "none"
Status == IF file = NoPid THEN "stopped" ELSE IF Alive(file) THEN "running" ELSE "error"

SidecarInit ==
  /\ proc = [p \in Pids |-> "none"] /\ told = {} /\ port = NoPid /\ stable = {}
  /\ file = NoPid
  /\ manualStopped = FALSE /\ fused = FALSE /\ crashCount = 0
  /\ backoff = "none" /\ restarting = NoPid /\ streak = 0
  /\ crashes = 0 /\ manual = 0

-----------------------------------------------------------------------------
(* GatewayProcessManager *)

\* start(): nothing while the record names a live process.  The record is written
\* before the child writes its own.
ManagerStart(old) ==
  IF old # NoPid /\ Alive(old)
  THEN proc' = proc /\ file' = old
  ELSE \E p \in Pids :
         /\ proc[p] = "none" /\ p \notin {file, restarting}
         /\ proc' = [proc EXCEPT ![p] = "booting"] /\ file' = p

\* stop(): SIGTERM, and the record is dropped at once.
Signalled == IF Alive(file) THEN told \cup {file} ELSE told

-----------------------------------------------------------------------------
(* The supervisor *)

Rearmed ==
  /\ fused' = FALSE /\ crashCount' = 0 /\ backoff' = "none" /\ streak' = 0

Commanded == manual < MaxManual /\ manual' = manual + 1

Start ==
  /\ Commanded /\ ManagerStart(file)
  /\ manualStopped' = FALSE /\ Rearmed
  /\ UNCHANGED <<told, port, stable, restarting, crashes>>

Stop ==
  /\ Commanded
  /\ manualStopped' = TRUE /\ backoff' = "none"
  /\ told' = Signalled /\ file' = NoPid
  /\ UNCHANGED <<proc, port, stable, fused, crashCount, restarting, streak, crashes>>

\* restart(), up to its wait for the old process, if there is one.
Restart ==
  /\ Commanded /\ restarting = NoPid
  /\ manualStopped' = FALSE /\ Rearmed
  /\ told' = Signalled
  /\ IF Alive(file)
     THEN restarting' = file /\ file' = NoPid /\ UNCHANGED proc
     ELSE UNCHANGED restarting /\ ManagerStart(NoPid)
  /\ UNCHANGED <<port, stable, crashes>>

\* The old process is gone, by itself or by SIGKILL after the grace period.
RestartGoesOn ==
  /\ restarting # NoPid
  /\ IF Alive(restarting)
     THEN /\ proc' = [proc EXCEPT ![restarting] = "none"]
          /\ told' = told \ {restarting} /\ stable' = stable \ {restarting}
          /\ port' = IF port = restarting THEN NoPid ELSE port
          /\ UNCHANGED <<file, restarting>>
     ELSE /\ ManagerStart(file)
          /\ restarting' = NoPid
          /\ UNCHANGED <<told, port, stable>>
  /\ UNCHANGED <<manualStopped, fused, crashCount, backoff, streak, crashes, manual>>

\* A bug to tell apart: any running process ends the crash streak.
TickForgets ==
  /\ Status = "running"
  /\ backoff' = "none"
  /\ crashCount' = 0 /\ UNCHANGED <<proc, file, fused, streak>>

\* A poll that finds the process running.
TickRunning ==
  /\ Status = "running"
  /\ backoff' = "none"
  /\ IF file \in stable THEN crashCount' = 0 /\ streak' = 0
                        ELSE UNCHANGED <<crashCount, streak>>
  /\ UNCHANGED <<proc, file, fused>>

\* A poll that finds a dead record: count the crash, back off, start when due.
TickCrashed ==
  /\ Status = "error" /\ ~manualStopped /\ ~fused
  /\ \/ /\ backoff = "none"
        /\ crashCount' = crashCount + 1
        /\ IF crashCount' > CrashLoopLimit
           THEN fused' = TRUE /\ backoff' = backoff
           ELSE fused' = fused /\ backoff' = "waiting"
        /\ UNCHANGED <<proc, file, streak>>
     \/ /\ backoff = "due"
        /\ backoff' = "none" /\ streak' = streak + 1
        /\ ManagerStart(file)
        /\ UNCHANGED <<fused, crashCount>>

TickStopped ==
  /\ Status = "stopped" /\ backoff' = "none"
  /\ UNCHANGED <<proc, file, fused, crashCount, streak>>

Tick ==
  /\ TickRunning \/ TickCrashed \/ TickStopped
  /\ UNCHANGED <<told, port, stable, manualStopped, restarting, crashes, manual>>

BackoffElapses ==
  /\ backoff = "waiting" /\ backoff' = "due"
  /\ UNCHANGED <<procVars, file, manualStopped, fused, crashCount, restarting, streak, crashes, manual>>

-----------------------------------------------------------------------------
(* The web panel *)

PanelStart ==
  /\ Commanded /\ ManagerStart(file)
  /\ UNCHANGED <<told, port, stable, supVars, crashes>>

PanelStop ==
  /\ Commanded /\ told' = Signalled /\ file' = NoPid
  /\ UNCHANGED <<proc, port, stable, supVars, crashes>>

\* restart(): stop, then start without a wait.
PanelRestart ==
  /\ Commanded /\ told' = Signalled /\ ManagerStart(NoPid)
  /\ UNCHANGED <<port, stable, supVars, crashes>>

-----------------------------------------------------------------------------
(* The gateway process *)

\* Booted: /rpc listens unless the port is taken, and the record is written.
Boots(p) ==
  /\ proc[p] = "booting" /\ p \notin told
  /\ proc' = [proc EXCEPT ![p] = "up"] /\ file' = p
  /\ port' = IF port = NoPid THEN p ELSE port
  /\ UNCHANGED <<told, stable, supVars, crashes, manual>>

\* SIGTERM: while it boots it dies of it; later the handler drops the record,
\* whosever it is, and shuts down.
HandlesTerm(p) ==
  /\ p \in told
  /\ told' = told \ {p} /\ stable' = stable \ {p}
  /\ IF proc[p] = "booting"
     THEN proc' = [proc EXCEPT ![p] = "none"] /\ UNCHANGED file
     ELSE /\ proc' = [proc EXCEPT ![p] = "closing"]
          /\ file' = IF proc[p] = "up" THEN NoPid ELSE file
  /\ UNCHANGED <<port, supVars, crashes, manual>>

Exits(p) ==
  /\ proc[p] = "closing"
  /\ proc' = [proc EXCEPT ![p] = "none"] /\ told' = told \ {p}
  /\ port' = IF port = p THEN NoPid ELSE port
  /\ UNCHANGED <<stable, file, supVars, crashes, manual>>

\* The record stays behind.
Crash(p) ==
  /\ crashes < MaxCrashes /\ crashes' = crashes + 1
  /\ proc[p] \in {"booting", "up"}
  /\ proc' = [proc EXCEPT ![p] = "none"]
  /\ told' = told \ {p} /\ stable' = stable \ {p}
  /\ port' = IF port = p THEN NoPid ELSE port
  /\ UNCHANGED <<file, supVars, manual>>

Settles(p) ==
  /\ proc[p] = "up" /\ p \notin stable
  /\ stable' = stable \cup {p}
  /\ UNCHANGED <<proc, told, port, file, supVars, crashes, manual>>

SidecarStep ==
  \/ Start \/ Stop \/ Restart \/ RestartGoesOn \/ Tick \/ BackoffElapses
  \/ PanelStart \/ PanelStop \/ PanelRestart
  \/ \E p \in Pids : Boots(p) \/ HandlesTerm(p) \/ Exits(p) \/ Crash(p) \/ Settles(p)

\* The poll timer, the backoff's clock, restart()'s bounded wait, and a process
\* that boots or is signalled.  A shutdown that hangs is not owed an end.
SidecarFairness ==
  /\ WF_sidecarVars(Tick) /\ WF_sidecarVars(BackoffElapses) /\ WF_sidecarVars(RestartGoesOn)
  /\ \A p \in Pids : WF_sidecarVars(Boots(p)) /\ WF_sidecarVars(HandlesTerm(p))

-----------------------------------------------------------------------------
(* Properties *)

\* Type correctness of the processes and the supervisor.
SidecarTypeOK ==
  /\ proc \in [Pids -> {"none", "booting", "up", "closing"}]
  /\ told \subseteq Pids /\ stable \subseteq Pids
  /\ port \in Pids \cup {NoPid} /\ file \in Pids \cup {NoPid}
  /\ restarting \in Pids \cup {NoPid}
  /\ {manualStopped, fused} \subseteq BOOLEAN
  /\ backoff \in {"none", "waiting", "due"}
  /\ crashCount \in 0 .. CrashLoopLimit + 1 /\ streak \in Nat
  /\ crashes \in 0 .. MaxCrashes /\ manual \in 0 .. MaxManual

\* The crash-loop fuse (supervisor.ts tick): between a command of the user, or a
\* process that stayed up, and the next one, the supervisor starts the gateway at
\* most CrashLoopLimit times, whatever the panel does meanwhile, and never once
\* the fuse has blown.
FuseHolds ==
  /\ streak <= CrashLoopLimit
  /\ streak <= crashCount
  /\ fused => backoff = "none"
=============================================================================
