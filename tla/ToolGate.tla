------------------------------- MODULE ToolGate -------------------------------
(***************************************************************************)
(* The path of a tool call from its execute() to its audit record: the     *)
(* policy deny list, the plan-mode lockdown, the allow list, then gated()  *)
(* with its full-mode rule, its auto-mode classifier, its unattended rule  *)
(* and the human gate, and the sandbox-extension gate inside a running     *)
(* command.  The execution mode and the unattended flag are shared cells   *)
(* that a human, an approved plan or a schedule changes while calls are    *)
(* between two of their awaits.                                            *)
(*                                                                         *)
(* The module extends Prompts: every step here is a step of Prompts or     *)
(* leaves its variables alone, so its invariants hold of this system.      *)
(***************************************************************************)
EXTENDS Prompts

CONSTANTS
  DenyListed,   \* calls whose executable permission.denyCommands names
  AllowListed,  \* calls whose executable permission.allowCommands names
  Mutates,      \* calls whose risk tier the plan mode blocks
  Dangerous,    \* interpreters and privilege shims (isDangerousInAuto)
  HighRisk,     \* calls that need approval even in full mode
  Extensions,   \* sandbox-extension approvals
  CommandOf,    \* CommandOf[e]: the command whose denial e answers
  AutoEnabled,  \* settings.autoMode.enabled
  FirstMode,    \* the configured execution mode
  UserModes,    \* the modes a user switches to
  Scheduled,    \* the roots that are fired by a schedule
  ScheduleMode,  \* ScheduleMode[z]: the mode that schedule sets
  ScheduleGrants \* ScheduleGrants[z]: the scopes the schedule of z declares

Modes    == {"ask", "plan", "auto", "full"}
Verdicts == {"allow", "deny", "ask"}

\* The approval calls that go through gated().
Gated == {c \in Calls : Kind[c] = "approval"} \ Extensions

ASSUME ToolGateAssumption ==
  /\ DenyListed \subseteq Gated /\ AllowListed \subseteq Gated
  /\ Mutates \subseteq Gated /\ Dangerous \subseteq Gated /\ HighRisk \subseteq Gated
  /\ Extensions \subseteq {c \in Calls : Kind[c] = "approval"}
  /\ CommandOf \in [Extensions -> Gated]
  /\ \A e \in Extensions : RunOf[e] = RunOf[CommandOf[e]]
  /\ AutoEnabled \in BOOLEAN
  /\ FirstMode \in Modes /\ UserModes \subseteq Modes
  /\ Scheduled \subseteq Roots
  /\ ScheduleMode \in [Scheduled -> Modes]
  /\ ScheduleGrants \in [Scheduled -> SUBSET PreScopes]

VARIABLES
  mode,       \* executionMode.value
  unattended, \* unattended.value
  schedule,   \* schedule[z]: where the fire of scheduled root z stands
  stage,      \* stage[c]: where the execute() of c stands
  seen,       \* seen[c]: the mode gated() read for c
  verdict,    \* verdict[c]: what the classifier said of c
  audit       \* audit[c]: the approval field of c's audit record

gateVars == <<mode, unattended, schedule, stage, seen, verdict, audit>>
allVars  == <<vars, gateVars>>
shared   == <<mode, unattended, schedule>>

Tags == {"none", "denied-policy", "blocked-plan", "auto", "auto-allow", "auto-deny",
         "reject", "once", "session", "session-auto"}

GateTypeOK ==
  /\ mode \in Modes
  /\ unattended \in BOOLEAN
  /\ schedule \in [Scheduled -> {"idle", "fired", "done"}]
  /\ stage \in [Calls -> {"idle", "classifying", "gated", "running", "over", "threw"}]
  /\ seen \in [Calls -> Modes \cup {"none"}]
  /\ verdict \in [Calls -> Verdicts \cup {"none"}]
  /\ audit \in [Calls -> Tags]

GateInit ==
  /\ Init
  /\ mode = FirstMode /\ unattended = FALSE
  /\ schedule = [z \in Scheduled |-> "idle"]
  /\ stage = [c \in Calls |-> "idle"]
  /\ seen = [c \in Calls |-> "none"]
  /\ verdict = [c \in Calls |-> "none"]
  /\ audit = [c \in Calls |-> "none"]

------------------------------------------------------------------------------
(* gated() and the checks in front of it.                                  *)

\* Ask a human, or let a grant answer, unless nobody is there to ask.
Ask(c) ==
  /\ ~unattended \/ Granted(c)
  /\ Gate(c)
  /\ stage' = [stage EXCEPT ![c] = "gated"]
  /\ UNCHANGED audit

DenyUnattended(c) ==
  /\ unattended /\ ~Granted(c)
  /\ stage' = [stage EXCEPT ![c] = "over"]
  /\ audit' = [audit EXCEPT ![c] = "auto-deny"]
  /\ UNCHANGED vars

\* Mutant of Interactive: the unattended rule is left out.
InteractiveAlways(c) ==
  /\ Gate(c)
  /\ stage' = [stage EXCEPT ![c] = "gated"]
  /\ UNCHANGED audit

\* The tail of gated(), which every path that is not decided yet falls into.
Interactive(c) == Ask(c) \/ DenyUnattended(c)

Stop(c, tag) ==
  /\ stage' = [stage EXCEPT ![c] = "over"]
  /\ audit' = [audit EXCEPT ![c] = tag]
  /\ UNCHANGED vars

\* run() starts; tag is what its audit record will say if it returns.
Run(c, tag) ==
  /\ stage' = [stage EXCEPT ![c] = "running"]
  /\ audit' = [audit EXCEPT ![c] = tag]
  /\ UNCHANGED vars

Classify(c) ==
  /\ stage' = [stage EXCEPT ![c] = "classifying"]
  /\ UNCHANGED <<audit, vars>>

\* An existing SESSION grant is honoured, except for a dangerous interpreter.
Honoured(c)  == c \notin Dangerous /\ Granted(c)
\* A dangerous interpreter is never allow-listed in auto mode.
FastPath(c)  == c \in AllowListed /\ ~(mode = "auto" /\ c \in Dangerous)
Locked(c)    == mode = "plan" /\ c \in Mutates

\* Mutant of Start: the allow list is consulted before the plan-mode lockdown.
StartAllowListFirst(c) ==
  /\ c \in Gated /\ stage[c] = "idle" /\ Running(RunOf[c])
  /\ seen' = [seen EXCEPT ![c] = mode]
  /\ \/ c \in DenyListed /\ Stop(c, "denied-policy")
     \/ c \notin DenyListed /\ FastPath(c) /\ Run(c, "auto")
     \/ /\ c \notin DenyListed /\ ~FastPath(c)
        /\ IF Locked(c) THEN Stop(c, "blocked-plan") ELSE Interactive(c)
  /\ UNCHANGED <<shared, verdict>>

\* Mutant of FullRuns: full mode lets the high-risk set through as well.
FullRunsAll(c) == mode = "full" /\ ~Honoured(c)

\* Full mode runs everything but what a grant covers (the gate below honours
\* it) and the high-risk set (a human decides).
FullRuns(c)  == mode = "full" /\ ~Honoured(c) /\ c \notin HighRisk
AutoJudges(c) == mode = "auto" /\ AutoEnabled /\ ~Honoured(c)

\* execute() up to its first await.
Start(c) ==
  /\ c \in Gated /\ stage[c] = "idle" /\ Running(RunOf[c])
  /\ seen' = [seen EXCEPT ![c] = mode]
  /\ CASE c \in DenyListed -> Stop(c, "denied-policy")
       [] c \notin DenyListed /\ Locked(c) -> Stop(c, "blocked-plan")
       [] c \notin DenyListed /\ ~Locked(c) /\ FastPath(c) -> Run(c, "auto")
       [] OTHER -> \/ FullRuns(c) /\ Run(c, "auto-allow")
                   \/ AutoJudges(c) /\ Classify(c)
                   \/ ~FullRuns(c) /\ ~AutoJudges(c) /\ Interactive(c)
  /\ UNCHANGED <<shared, verdict>>

\* The classifier answers: "ask" (also when it fails or is aborted) falls
\* through to the tail, which reads the grants and the unattended flag only now.
Classified(c, v) ==
  /\ stage[c] = "classifying"
  /\ verdict' = [verdict EXCEPT ![c] = v]
  /\ CASE v = "deny"  -> Stop(c, "auto-deny")
       [] v = "allow" -> Run(c, "auto-allow")
       [] OTHER -> Interactive(c)
  /\ UNCHANGED <<shared, seen>>

\* approval.gate has resolved.
Decided(c) ==
  /\ c \in Gated /\ stage[c] = "gated"
  /\ \/ call[c] = "refused" /\ Stop(c, "reject")
     \/ /\ call[c] = "allowed"
        /\ Run(c, IF decision[c] = "granted" THEN "session-auto" ELSE decision[c])
  /\ UNCHANGED <<shared, seen, verdict>>

\* run() returns and its record is written, or throws and none is.
Finish(c) ==
  /\ stage[c] = "running"
  /\ \A e \in Extensions : CommandOf[e] = c => stage[e] # "gated"
  /\ \E end \in {"over", "threw"} : stage' = [stage EXCEPT ![c] = end]
  /\ UNCHANGED <<vars, shared, seen, verdict, audit>>

------------------------------------------------------------------------------
(* The calls that suspend outside gated().                                 *)

\* A sandbox denial asks for an extension from inside the running command;
\* askUserQuestion asks; exitPlanMode asks, in plan mode only.
Elicit(c) ==
  /\ c \notin Gated /\ stage[c] = "idle"
  /\ c \in Extensions => stage[CommandOf[c]] = "running"
  /\ Kind[c] = "plan" => mode = "plan"
  /\ Gate(c)
  /\ stage' = [stage EXCEPT ![c] = "gated"]
  /\ UNCHANGED <<shared, seen, verdict, audit>>

Elicited(c) ==
  /\ c \notin Gated /\ stage[c] = "gated" /\ call[c] \in {"allowed", "refused"}
  /\ stage' = [stage EXCEPT ![c] = "over"]
  /\ UNCHANGED <<vars, shared, seen, verdict, audit>>

\* An approved plan leaves plan mode for the target its approver chose.
GateResume(c) ==
  /\ Resume(c)
  /\ IF decision[c] = "approve" THEN mode' \in UserModes \cup {"ask"} ELSE mode' = mode
  /\ UNCHANGED <<unattended, schedule, stage, seen, verdict, audit>>

------------------------------------------------------------------------------
(* The human, the schedules and the turns.                                 *)

\* Session.setExecutionMode: calls in flight keep the decision they have.
SetMode(m) ==
  /\ m # mode /\ mode' = m
  /\ UNCHANGED <<vars, unattended, schedule, stage, seen, verdict, audit>>

\* Mutant of FireSchedule: every scope is granted, not those it declares.
FireScheduleBlanket(z) ==
  /\ schedule[z] = "idle"
  /\ schedule' = [schedule EXCEPT ![z] = "fired"]
  /\ mode' = ScheduleMode[z] /\ unattended' = TRUE
  /\ PreGrant(Scopes)
  /\ UNCHANGED <<stage, seen, verdict, audit>>

\* runScheduleNow up to its send(), and from its completion.
FireSchedule(z) ==
  /\ schedule[z] = "idle"
  /\ schedule' = [schedule EXCEPT ![z] = "fired"]
  /\ mode' = ScheduleMode[z] /\ unattended' = TRUE
  /\ PreGrant(ScheduleGrants[z])
  /\ UNCHANGED <<stage, seen, verdict, audit>>

Completed(r) == r \in ended \/ (r \in aborted /\ r # driving)

ScheduleDone(z) ==
  /\ schedule[z] = "fired" /\ Completed(z)
  /\ schedule' = [schedule EXCEPT ![z] = "done"]
  /\ unattended' = FALSE
  /\ UNCHANGED <<vars, mode, stage, seen, verdict, audit>>

Sent(r) == r \in Scheduled => schedule[r] # "idle"

\* A turn is over once every execute() it called has returned.
Idle(r) == \A c \in Calls : RootOf(RunOf[c]) = r =>
             stage[c] \in {"idle", "over", "threw"}

RunStep ==
  /\ \/ \E r \in Roots : Sent(r) /\ (StartTurn(r) \/ Abort(r))
     \/ \E s \in Subs : Spawn(s) \/ Timeout(s)
     \/ EndTurn /\ Idle(driving)
     \/ \E c \in Calls : \E d \in Decisions(c) : Answer(c, d)
  /\ UNCHANGED gateVars

GateNext ==
  \/ RunStep
  \/ \E c \in Calls : Start(c) \/ Decided(c) \/ Finish(c) \/ Elicit(c) \/ Elicited(c)
  \/ \E c \in Calls : GateResume(c)
  \/ \E c \in Calls, v \in Verdicts : Classified(c, v)
  \/ \E m \in UserModes : SetMode(m)
  \/ \E z \in Scheduled : FireSchedule(z) \/ ScheduleDone(z)

GateSpec == GateInit /\ [][GateNext]_allVars

------------------------------------------------------------------------------
(* Properties.                                                             *)

Ran(c) == stage[c] = "running" \/ (stage[c] \in {"over", "threw"} /\
            audit[c] \in {"auto", "auto-allow", "once", "session", "session-auto"})

\* "A schedule never blocks on a prompt that will never be answered" (registry.ts),
\* as far as gated() is responsible for it: however modes, grants and user turns
\* change around it, a gated call of a scheduled turn is never put before a human.
\* (A question of a scheduled turn is: only gated() reads the flag, ask.ts:44.)
ScheduledGateFailsClosed ==
  \A c \in Gated : RootOf(RunOf[c]) \in Scheduled => prompt[c] = "none"

\* A call started in plan mode never ran if it mutates, whatever list it is on
\* and however the mode changes while it is in flight (mode.ts: "plan-mode
\* read-only lockdown can't be bypassed by a policy allowlist").
PlanLockdown ==
  \A c \in Mutates : seen[c] = "plan" => ~Ran(c)

\* A high-risk call that met full mode ran only with a human's yes: its own wait
\* was answered once or session, or it was never put before anyone because an
\* earlier grant for its scope reaches its agent, as HumanAuthority wants it.
\* The second case is the code's, not its comments': requiresApprovalInFull
\* speaks of calls that "still need human approval", PRIVILEGE_ESCALATION is
\* "always gated in full mode", and gate.ts:50-52 promises that a dangerous
\* interpreter (sudo, doas and su among them) is re-gated despite its grant; but
\* "re-gated" ends in ApprovalController.gate, whose first line honours the grant
\* (approval.ts:65).
FullModeStillAsks ==
  \A c \in HighRisk \ AllowListed : seen[c] = "full" /\ Ran(c) =>
    /\ call[c] = "allowed"
    /\ \/ decision[c] \in {"once", "session"}
       \/ /\ decision[c] = "granted"
          /\ \E a \in authority :
               /\ a.scope = ScopeOf[c]
               /\ a.scoped => \/ a.agent = AgentOf(c)
                              \/ a.agent = Orch /\ AgentOf(c) \in Inherit
==============================================================================
