------------------------------ MODULE AgentHost ------------------------------
(***************************************************************************)
(* The agent host's map of live sessions (packages/agent/src/index.ts).    *)
(* Whoever needs a session (a send, a mode switch, a scheduled fire) calls *)
(* openSession: it answers from the map, or awaits buildSession and then   *)
(* puts what it built into the map.  An object is one built session: its   *)
(* turn queue and its execution-mode and unattended cells, which do not    *)
(* outlive the process.                                                    *)
(*                                                                         *)
(* A schedule either reuses a pinned session or runs in a fresh one that   *)
(* nobody else knows; the fresh one is folded into the stages of its fire. *)
(***************************************************************************)
EXTENDS Integers, Sequences, FiniteSets

CONSTANTS
  Sessions,   \* sessions the registry lists at first
  Sends,      \* sendMessage calls
  Toggles,    \* setExecutionMode calls, each to "auto"
  Fires,      \* runScheduleNow calls
  FreshFires, \* the fires whose schedule asks for a fresh session
  SessionOf,  \* the session of every other client
  MaxObjects, \* bound on sessions built
  NoObj

Clients == Sends \cup Toggles \cup Fires
Objects == 1..MaxObjects

ASSUME AgentHostAssumption ==
  /\ Sends \cap Toggles = {} /\ Fires \cap (Sends \cup Toggles) = {}
  /\ FreshFires \subseteq Fires
  /\ SessionOf \in [Clients \ FreshFires -> Sessions]
  /\ MaxObjects \in Nat \ {0} /\ NoObj \notin Objects

VARIABLES
  registry,    \* each session's record on file: listed, gone or nameless
  live,        \* the live map
  made,        \* objects built so far
  mode,        \* execution mode of each object
  unattended,  \* unattended flag of each object
  line,        \* turn queue of each object; its head drives
  stage,       \* where each client's call stands
  at,          \* the object a client's turn was sent to
  shadowed     \* history: fires during which another fire of the object ended

hostVars == <<registry, live, made, mode, unattended, line, stage, at,
              shadowed>>
cellVars == <<mode, unattended>>

Stages == {"idle", "opening", "queued", "done", "failed"}
InLine(o) == {line[o][i] : i \in DOMAIN line[o]}
Driving(c) == \E o \in Objects : line[o] # <<>> /\ Head(line[o]) = c

HostInit ==
  /\ registry = [s \in Sessions |-> "listed"]
  /\ live = [s \in Sessions |-> NoObj] /\ made = 0
  /\ mode = [o \in Objects |-> "ask"]
  /\ unattended = [o \in Objects |-> FALSE]
  /\ line = [o \in Objects |-> <<>>]
  /\ stage = [c \in Clients |-> "idle"]
  /\ at = [c \in Clients |-> NoObj]
  /\ shadowed = {}

-----------------------------------------------------------------------------
(* What a client does with the object it has got; st is the stages so far. *)

Enlist(c, o, st) ==
  /\ line' = [line EXCEPT ![o] = Append(@, c)]
  /\ at' = [at EXCEPT ![c] = o]
  /\ stage' = [st EXCEPT ![c] = "queued"]

\* sendMessage: session.send.
DoSend(c, o, st) ==
  /\ c \in Sends
  /\ Enlist(c, o, st)
  /\ UNCHANGED <<cellVars, shadowed>>

\* setExecutionMode.
DoToggle(c, o, st) ==
  /\ c \in Toggles
  /\ mode' = [mode EXCEPT ![o] = "auto"]
  /\ stage' = [st EXCEPT ![c] = "done"]
  /\ UNCHANGED <<unattended, line, at, shadowed>>

\* runScheduleNow: force the mode, raise the flag, send the goal.
DoFire(c, o, st) ==
  /\ c \in Fires
  /\ mode' = [mode EXCEPT ![o] = "auto"]
  /\ unattended' = [unattended EXCEPT ![o] = TRUE]
  /\ Enlist(c, o, st)
  /\ shadowed' = shadowed \ {c}

Proceed(c, o, st) == DoSend(c, o, st) \/ DoToggle(c, o, st) \/ DoFire(c, o, st)

\* openSession up to its await: the live session, a missing record, or a build.
Open(c, st) ==
  /\ UNCHANGED <<registry, live, made>>
  /\ \/ c \in FreshFires
        /\ stage' = [st EXCEPT ![c] = "opening"]
        /\ UNCHANGED <<cellVars, line, at, shadowed>>
     \/ /\ c \notin FreshFires /\ live[SessionOf[c]] # NoObj
        /\ c \in Fires => registry[SessionOf[c]] # "gone"
        /\ Proceed(c, live[SessionOf[c]], st)
     \/ /\ c \notin FreshFires
        /\ \/ live[SessionOf[c]] = NoObj
           \/ c \in Fires /\ registry[SessionOf[c]] = "gone"
        /\ stage' = [st EXCEPT ![c] = IF registry[SessionOf[c]] = "gone"
                                      THEN "failed" ELSE "opening"]
        /\ UNCHANGED <<cellVars, line, at, shadowed>>

\* A client's call.
Call(c) == stage[c] = "idle" /\ Open(c, stage)

\* buildSession is over: the map gets the new object, whatever it holds by now.
Built(c) ==
  /\ stage[c] = "opening" /\ c \notin FreshFires /\ made < MaxObjects
  /\ made' = made + 1
  /\ live' = [live EXCEPT ![SessionOf[c]] = made + 1]
  /\ Proceed(c, made + 1, stage)
  /\ UNCHANGED registry

\* A fresh session's goal has run.
FreshEnds(c) ==
  /\ stage[c] = "opening" /\ c \in FreshFires
  /\ stage' = [stage EXCEPT ![c] = "done"]
  /\ UNCHANGED <<registry, live, made, cellVars, line, at, shadowed>>

\* A turn ends and the next one in the queue drives.
TurnEnds(c) ==
  /\ c \in Sends /\ Driving(c)
  /\ line' = [line EXCEPT ![at[c]] = Tail(@)]
  /\ stage' = [stage EXCEPT ![c] = "done"]
  /\ at' = [at EXCEPT ![c] = NoObj]
  /\ UNCHANGED <<registry, live, made, cellVars, shadowed>>

\* A bug to tell apart: a goal that failed leaves the flag up.
FireEndsOnSuccess(c) ==
  /\ c \in Fires /\ Driving(c)
  /\ LET o == at[c]
     IN  /\ line' = [line EXCEPT ![o] = Tail(@)]
         /\ unattended' \in {unattended, [unattended EXCEPT ![o] = FALSE]}
         /\ shadowed' = (shadowed \cup (Fires \cap InLine(o))) \ {c}
  /\ at' = [at EXCEPT ![c] = NoObj]
  /\ stage' = [stage EXCEPT ![c] = "done"]
  /\ UNCHANGED <<registry, live, made, mode>>

\* The goal's turn ends or throws: finally lowers the flag, the run is recorded.
FireEnds(c) ==
  /\ c \in Fires /\ Driving(c)
  /\ LET o == at[c]
     IN  /\ line' = [line EXCEPT ![o] = Tail(@)]
         /\ unattended' = [unattended EXCEPT ![o] = FALSE]
         /\ shadowed' = (shadowed \cup (Fires \cap InLine(o))) \ {c}
  /\ at' = [at EXCEPT ![c] = NoObj]
  /\ stage' = [stage EXCEPT ![c] = "done"]
  /\ UNCHANGED <<registry, live, made, mode>>

\* deleteSession: the object leaves the map, its turns go on.
Delete(s) ==
  /\ registry[s] # "gone"
  /\ live' = [live EXCEPT ![s] = NoObj]
  /\ registry' = [registry EXCEPT ![s] = "gone"]
  /\ UNCHANGED <<made, cellVars, line, stage, at, shadowed>>

\* persistTodos spreads a missing record and saves the todos alone.
WriteTodos(c) ==
  /\ Driving(c) /\ registry[SessionOf[c]] = "gone"
  /\ registry' = [registry EXCEPT ![SessionOf[c]] = "nameless"]
  /\ UNCHANGED <<live, made, cellVars, line, stage, at, shadowed>>

\* The process dies: all but the registry is gone, callers with it.
LoseMemory ==
  /\ live' = [s \in Sessions |-> NoObj]
  /\ mode' = [o \in Objects |-> "ask"]
  /\ at' = [c \in Clients |-> NoObj]
  /\ unattended' = [o \in Objects |-> FALSE]
  /\ line' = [o \in Objects |-> <<>>]
  /\ stage' = [c \in Clients |->
                 IF stage[c] = "idle" THEN "idle"
                 ELSE IF stage[c] = "done" THEN "done" ELSE "failed"]
  /\ shadowed' = {}
  /\ UNCHANGED <<registry, made>>

HostNext ==
  \/ \E c \in Clients : \/ Call(c) \/ Built(c) \/ FreshEnds(c)
                        \/ TurnEnds(c) \/ FireEnds(c) \/ WriteTodos(c)
  \/ \E s \in Sessions : Delete(s)

HostSpec == HostInit /\ [][HostNext]_hostVars

-----------------------------------------------------------------------------
(* Properties *)

HostTypeOK ==
  /\ registry \in [Sessions -> {"listed", "gone", "nameless"}]
  /\ live \in [Sessions -> Objects \cup {NoObj}] /\ made \in 0..MaxObjects
  /\ mode \in [Objects -> {"ask", "auto"}]
  /\ unattended \in [Objects -> BOOLEAN]
  /\ line \in [Objects -> Seq(Clients)]
  /\ stage \in [Clients -> Stages]
  /\ at \in [Clients -> Objects \cup {NoObj}]
  /\ shadowed \subseteq Fires

\* The unattended flag follows the fires of its object (index.ts, "for the
\* duration of a scheduled fire"): it is up only while a fire of the object is
\* queued or driving, and down under such a fire only if another fire of the
\* same object ended meanwhile and took it down.
FlagFollowsFires ==
  \A o \in Objects :
    /\ unattended[o] => Fires \cap InLine(o) # {}
    /\ \A f \in Fires \cap InLine(o) : unattended[o] \/ f \in shadowed
=============================================================================
