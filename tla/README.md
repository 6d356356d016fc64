# Verification of enterprise-agent

TLA+ models of the agent core of this repository, the TLC runs that check them
and the theorems TLAPS proves about them. Paths below are relative to the
repository; `agent/` stands for `packages/agent/src/`.

    tlc -config Prompts.cfg MCPrompts.tla        (any run: module and cfg of PROJECT.json)
    tlapm ToolGateProofs.tla                     (any module named ...Proofs)

`PROJECT.json` lists the components, runs, mutants (a plausible bug for every
property of a passing run), findings, hazards and theorems, and maps every
definition to the lines it models.

## 1. Inventory

| component | state | operations | interacts with | what makes it correct |
|---|---|---|---|---|
| Prompt controllers (`agent/approval/approval.ts`, `runtime/question.ts`, `runtime/plan.ts`) | map of pending entries by correlation id, an abort listener per entry | gate / ask / propose, resolve, rejectAll / cancelAll | called by tools, resolved by the host, torn down by Session.abort | every suspended call is settled exactly once, by its answer or its own abort; no foreign reject; no leak |
| Grant table (`approval/grants.ts`) | list of grants | add, match, delegateScoped | read by every gated call, written by SESSION answers, approved plans, schedules and spawns | a call runs unprompted only on a human's authority |
| Tool gate (`tools/gate.ts`, `mode.ts`, `exec.ts`, `plan.ts`, `ask.ts`, `full-mode-policy.ts`, `runtime/auto-classifier.ts`) | execution mode and unattended flag (session-wide), verdict and audit of each call | policy lists, plan lockdown, gated(), sandbox extension, setExecutionMode | controllers, grant table, classifier model, schedules | plan mode is not bypassed, full mode still asks for the high-risk set, unattended runs fail closed |
| Session (`runtime/session.ts`, `compactor.ts`, `report.ts`) | turn queue, controllers, activeRunId | send, report, compactManual, abort, fork | the log, the run store, the model stream | turns do not interleave, aborts end turns, nothing said is forgotten |
| Session log and run store (`storage/session-store.ts`, `run-store.ts`, `util/fs.ts`) | JSONL files and their fold | appendEntry, setHead, fork, fold, getPath; start, finish | the session, the sub-agents, the file system | what was appended survives a crash; a reopened session continues where it was |
| Sub-agent delegation (`runtime/sub-agent.ts`, `util/semaphore.ts`) | semaphore, envelope counters, timers | delegate, timeout, stall watchdog | spawned by a turn; prompts, grants, log | a stuck delegation ends; slots are returned |
| Scheduler (`schedules/*.ts`, `storage/schedule-store.ts`, `index.ts` runScheduleNow) | nextRunAt per schedule, ticking | tick, fire | the host's sessions | a due schedule fires once, a stuck fire does not stop the others |
| Agent host (`index.ts`) | live sessions, registry | open / delete / list sessions, send, resolve | everything above | one live session per log |
| App server (`packages/agent-server`) | connections, subscriptions, pending actions, active turns, outbound queues | JSON-RPC methods, event projection | agent host, RPC clients | an answer is claimed once, nothing but deltas is dropped |
| RPC client (`packages/agent-client`) | pending requests, listeners | request, close, reconnect | app server | every request settles once |
| Gateway dispatcher (`apps/gateway/src/runtime`) | conversations, current runs, chat prompts | message, event, approval reply, reset | channels, agent host | one turn per conversation, every reply reaches its chat |
| Gateway process (`gateway-process.ts`, `gateway.ts`) | pid file | start, stop, status | the operating system | one gateway at a time |
| CLI (`apps/cli`) | the trace, the run and sub-agent runs on screen, the clock | headless run; send, Ctrl-C, /clear, /compact, switch, approve | agent host | a headless run always unwinds; what waits for the user is on screen; Ctrl-C gives the input back |
| Gateway channels (`apps/gateway/src/channels`, `runtime/gateway.ts`) | poll loops, offset or cursor, duplicate window, breaker | start, poll, pause, resume | chat services, dispatcher | no message is forgotten or doubled; a channel that runs delivers |
| Gateway rendering (`apps/gateway/src/render`, the adapters' `send` / `edit`) | the turn's text, the message edited, the send chain, the throttle timer | append, tick, finish, fail | dispatcher, chat services | a failed send stops nothing; the chat ends with the whole answer, once |
| Desktop (`apps/desktop`) | sidecar process, connection; chats of the window | supervise, reconnect; list, open, send, interrupt | app server | restarts back off, no stale connection is used; the window shows the turns that run |
| Configuration files (`agent/config`, `apps/cli/src/host/keychain.ts`, `apps/gateway/src/config`) | keys, gateway.json, providers, aliases, servers, settings, skills, agents, schedules; a copy of the keys per process | the handlers of the panel, the terminal's page and the commands | each other through the files; the gateway that reads them | nothing refers to a key that was never stored; the panel tells what a restart would apply |
| Models, MCP, sandbox, usage | caches, sums | merge, look up, connect | external services | sequential; out of scope |

The hard behaviours are concurrency by interleaved awaits (one JavaScript
thread, so a step of a model is what runs between two awaits), abort signals that
race with answers, session-wide cells read before an await and used after it,
and process death between two synchronous line writes. `PROJECT.json`
"hazards" lists each at its line, with the properties that cover it or the
reason none does yet.

## 2. Modules

### Agent core

**Prompts** models the three controllers, the grant table and the runs that own
the prompts. A *call* is one execution of a tool that asks; it belongs to a
*run*: an orchestrator turn, a report, or a sub-agent. `Gate` is
`gate/ask/propose` up to the await (grant first, then the aborted check, then
emit and register); `Answer` is `resolve`; `Abort` fires the signals of a turn
and its sub-agents and, for the active run, `rejectAll/cancelAll`; `Timeout`
fires one sub-agent's; `Resume` is the awaiting call taking its decision and
recording the grants it gives. `Winners` says which listener settles a key when
several calls share it. `authority` is a history variable: the grants a
human made, with which `HumanAuthority` compares what the table allows. The
constant `Eager` names the calls whose prompt the host answers inside its event
listener; `KeyOf` may give two calls one correlation id.

**ToolGate** extends Prompts by the path of a call around the controllers: deny
list, plan lockdown, allow list, `gated()` with its full-mode rule, classifier
and unattended rule, the sandbox-extension gate inside a running command, plan
approval with its mode switch, and `runScheduleNow` from its mode switch to its
completion. Whether a command is dangerous, high-risk or mutating is a constant
set; the classifier answers anything.

**SessionLog** models `session.jsonl`: lines, the fold, `appendEntry`, `fork`,
`getPath`. One synchronous operation writes several lines; those still to be
written stand in `buffer`, and a crash may come before any of them or, with
`Torn`, in the middle of one. An entry's `msg` and `covers` say what it tells
the model of the conversation: its own text, or what a summary was made from.

**Session** extends SessionLog by the turn queue, the controllers, the run
records and the three kinds of task. `Begin` is `runTurn` up to the stream,
`CompactInFlight` a threshold or overflow compaction, `EndTurn` the rest of
`drive`; `BeginCompact` / `EndCompact` are `compactManual` around its await.

**Delegation** is `execute()` of `delegateToSubAgent` from its `acquire()` to
its `finally`, for all the delegations of several turns over one semaphore: the
queue, the timeout timer, the turn's abort, every way the stream ends, the
evaluation that keeps the slot, the run record and the transcript entry. An
`acquire()` that waits hears no signal, so a delegation may start after its turn
is over; `late` remembers those. **SlotPool** is what the semaphore promises.

**Trace** is the tree the terminal UI folds from the events, one operator per
reducer case, as far as it places agents, calls and approvals. **Tui** extends
Delegation by the interface over one session: the user's actions, each up to its
await, the host's turn queue, the order in which a delegate call's tool-call part
and its sub-agent's start arrive, and what each event does to the trace, the
tracked runs and the clock. `attached` says at the start whether this behaviour
has the interface; without it the turns delegate as Delegation says.

**AgentHost** is the map of live sessions: `openSession` around its
`buildSession`, sends, mode switches, `deleteSession`, todo writes and
`runScheduleNow` with its unattended flag. An *object* is one built session; two
concurrent builds make two objects over one log. **Scheduler** extends it by the
minute timer, the walk of `tick` over the schedules with its awaits, arming,
missed slots, the stored `nextRunAt`, edits of a definition, a crash and a
restart. `Walk` is the loop from one await to the next. **ScheduleSlots** is what
the scheduler promises: slots of one schedule only move forward, and only once
they are due.

### Around the core

**RpcClient** is the JSON-RPC client and the link: a call is registered, sent, and
settled by its response, a failed send or the end of the connection.
**AppServer** extends it by the server: requests whose await on the host is a
step of its own, the books it keeps (`runToSession`, `activeTurns`,
`sessionToAccount`, pending actions), the delivery of events to subscriptions and
one bounded queue per connection in which only deltas may be dropped.

**Dispatcher** is the gateway's way from a chat message to a turn and back:
`Accept`, `Composed` and `Sent` are `handleInbound` around its two awaits; `New`,
`Stop`, `TypeAnswer`, `TypeVerdict` and `Tap` are the commands and answers;
`Spawn`, `Raise`, `Errs` and `Finishes` are the host's events, and `Flushed` is
what comes after the await in `failTurn` / `finishTurn`.

**Sidecar** is the resident gateway process, its pid record, and those who start
and stop it: the desktop's supervisor (poll, backoff, fuse, the restart that
waits for the old process) and the web panel. **Connection** extends it by the
desktop's socket: dial, handshake, retry, refused key, disposal.

**ChatStore** is the desktop window's store over that link: the session list and
how it reconciles `runIds` (`loadSessionsFor`), `openSession` around its awaits,
`sendMessage`, `interrupt`, and the notices of the turns of this window and of
others, with the server's side as far as it decides who hears what. `orphaned` and
`lapsed` are history variables: turns whose start was answered on a broken link, and
those whose end the window has no way to learn.

**ConfigFiles** is the directory that the gateway's panel, the configuration page of the
terminal and the commands share without a lock. A handler is the sequence of file
operations its code goes through (`SetStt` reads gateway.json, stores the key, writes
gateway.json); `ReadStep`, `Truncate`, `Fill` and `Rename` carry one out, and `Dies` may
come between any two. secrets.json is written from the copy its process read first, and
like gateway.json in place. The channel form and the WeChat login are two handlers with
a browser or a service in between. `Spawn`, `Boot`, `Record` and `Down` are the gateway
as far as the panel's stale flag goes. A behaviour follows one `subject`: the keys and
what refers to them, or one surface that a gateway applies. `behind`, `lost`,
`unapplied` and `unseen` are history variables.

**Desktop** puts Connection, ChatStore and ConfigFiles together. They share the link
and the pid record and little else, so a behaviour moves one of them, which `watched`
says, and leaves the others at rest.

**Channels** is the inbound side of the chat gateway: the poll loops of the Telegram
and WeChat adapters between their awaits, the offset in memory and the cursor on
disk, downloads that fail, pause and resume, the circuit breaker, and a crash. A message
has text or is media alone (`Bare`); of Telegram's, the latter is gone when its download
fails (`Drop`). `lost`, `crossed` and `torn` are history variables: what was dropped so, two
loops have polled at once, a crash has torn the cursor's file.

**ChatRender** is the outbound side: one turn's renderer with its throttle timer, the
chain on which its sends go out one after the other, the message it edits and the
document of a long answer, over what Telegram does with a refused, rejected or
unanswered request (`sendRich`). A text is the number of pieces that have arrived, and
a message of the answer says which version stands in it. `short` and `doubtful` are
history variables: what was given up and not delivered since, and whether a message
arrived whose reply was lost.

**Accounts** is the database of accounts, access keys and chat bindings that the gateway,
the panel and the command line share, each statement a step: the import of the old files
by whoever opens it first, keys issued and revoked, `/bind` between its read and its
insert, a message from the gate (`MessageTaken`) over the awaits of `routeMessage` to the
namespace it reads (`NamespaceRead`) and the session it starts (`SessionStarted`) or goes
on with (`MessageContinues`), connections to `/rpc`, and the sessions and `routes.json` that
say whose memory a chat has. `cut` is a history variable: the accounts de-provisioned and
not granted anything since. **AdminSecret** is the file with the panel's secret, made by
whichever process that starts finds none, and the cookie made from it.

**Gateway** puts Dispatcher, Channels, ChatRender, Accounts and AdminSecret together, in
the same way as Desktop: a message is handed over by a call whose outcome the channel ignores, and of
the renderer the dispatcher only awaits the end, which `Flushed` stands for.
`AnswerArrives` is why that end may be assumed to come.

**MCxxx** modules instantiate these for TLC. The theorems are in **ToolGateProofs** (Prompts,
ToolGate), **SessionProofs**, **DelegationProofs** (Delegation, Tui), **SchedulerProofs**,
**AppServerProofs**, **GatewayProofs** (Dispatcher, Channels, ChatRender, Accounts,
AdminSecret) and **DesktopProofs** (Sidecar, Connection, ChatStore, ConfigFiles).
**Recursions** has the lemmas on recursive functions that two of them need.

### Abstract and detailed specifications

* `ToolGate!GateSpec` implements `Prompts!Spec`, what the controllers promise to the
  tools (property `Spec` of run `tool_gate`; theorem `GateImplementsPrompts`). ToolGate
  keeps the variables of Prompts, so the refinement mapping is the identity.
* `Delegation!Spec` implements `SlotPool!PoolSpec` (`ImplementsPool`, theorem
  `DelegationImplementsPool`), with the
  delegations between acquire and release as the holders of a slot: seen without
  its counter, the semaphore is a bounded first-come pool.
* `Scheduler!Spec` implements `ScheduleSlots!SlotsSpec` (`ImplementsSlots`): a stored
  slot only advances, past slots that were fired or skipped, across crashes too.

## 3. Runs

| run | shows |
|---|---|
| `prompts` | Two turns and a report share a session; the first turn has two sub-agents, one inheriting the parent's grants. Every order of answers, aborts, timeouts, spawns and grants. Invariants on release, leaks and authority, the action property on foreign rejects, and `DelegationUnblocks` under fairness. |
| `prompts_eager` (violation) | The eager host of the headless runner: `AnsweredNotWaiting` fails. |
| `tool_gate` | A session in plan mode, which an approved plan with a grant for a privileged command ends and which the user switches to full at any time, beside a scheduled turn that sets auto mode and whose sub-agent runs such a command. |
| `session` | Two turns, a report and a manual compaction (three of them accepted), a fork or a crash anywhere. |
| `session_torn` (violation) | A torn line costs the record after it: `EntriesSurvive` fails. |
| `session_head` (violation) | A sub-agent transcript becomes the head of a reopened session: `HeadSurvives` fails. |
| `delegation` | Delegations of two turns over one semaphore, with aborts, timeouts and failures: every outcome is told once, the semaphore is a first-come pool, an abort reaches the queued ones. With the terminal attached: nodes hang in one place, what waits for the user is on screen, Ctrl-C gives the input back. |
| `schedules` | Two schedules, a manual fire, a send and a mode switch over one live map, with a crash, an edit and missed slots: the unattended flag, the slots, and that a due schedule is dealt with. |
| `app_server` | An owner's client and a trusted one over one session: no subscriber misses an event without being cut off, prompts stay answerable, every request settles. |
| `dispatcher` | One chat conversation, with buttons or without, two messages, a sub-agent and four prompts against `/new`, `/stop`, answers and late flushes. Or a Telegram or WeChat channel against pauses, failures and a crash: nothing is forgotten or doubled while one loop polls, and what is posted arrives while the channel runs. Or a turn's answer on its way into a chat that edits or does not, while sends fail: it stands there whole, once. Or the accounts under three processes: a de-provisioned account stays cut. Or the panel's secret: there is one. |
| `dispatcher_flush` (violation) | A failing turn is flushed twice: `FlushBeforeRelease` fails. |
| `desktop` | The gateway process under its supervisor, the panel and the user, and the window's connection to it: the fuse holds, and the chat comes back or waits for the user. Or the window's chats over a link that drops: a running turn's text stays, own turns run one after the other, `runIds` clear. Or panel, terminal and commands over the configuration: `TokensResolve`, that a channel refers to a key that was stored, in spite of torn files and deaths, and `StaleTells`, that the panel shows what the gateway has not applied. |

What the violations mean is told in `PROJECT.json` "findings", with the line of
the repository that says otherwise. `EntriesSurvive` holds without torn lines (run
`session`).

### Bounds

* `prompts`: five calls over three roots and two sub-agents, one scope. A race needs
  one call and two of answer, abort and timeout; a foreign reject needs two
  roots; a leaking grant needs two agents besides the orchestrator, one that
  inherits and one that does not.
* `tool_gate`: five calls; every gate rule has a call that meets it and one that
  does not, except the deny list (its rule is the first and unconditional). A privileged command
  meets full mode with a grant only after plan mode, whose approval gives it: the run starts
  in plan and the user switches to full. Starting in full mode, with switches to plan, the
  properties hold as well, and so they do with switches to both (too long for a regular run).
* `session`: `MaxEntries` 5, `MaxTasks` 3 (a report counts for two), `MaxCrashes` 1,
  `MaxUpsets` 1 (forks and crashes together), `RecentTail` 1. Two turns and a compaction
  need four entries, and a fifth is the copy of a reply without text that displaces
  a message (section 5); `RECENT_TAIL` is 6 in the code, and only its being smaller or larger
  than the path matters. `session_torn` raises the crashes to two: a crash
  tears, the second one reopens. One in-flight compaction per turn is a bound
  built into the phases.
* `delegation`: two turns, four delegations, two slots: one more delegation than
  slots in one turn makes a queue, and the fourth one belongs to a turn that waits
  behind a queue it did not make. One has no timeout, one an alias that fails to
  resolve. With the terminal attached two of them are made, one per turn (a
  node's place needs one delegation, a stranded prompt a second turn), the second
  one asks, and one detour (switch, clear, compaction or stream error) is allowed.
* `schedules`: clock up to `MaxTime` 3, one crash, one edit, two calls of other
  clients, two live objects, `Slack` 1. One schedule is aligned with period 2, the
  other says every 1 and skips what it missed; a lateness needs one minute more than
  the slack.
* `app_server`: two connections (one may break or be given up), seven requests, two
  turns on one session, one sub-agent, one prompt, `MaxQueue` 1, `HighWater` 0, one
  event and one delta without meaning: a queue that is full needs one frame more
  than its cap.
* `dispatcher`: two messages, so a late flush has a later turn to hit; a prompt of
  each kind; a channel with and one without buttons. With a third message the
  properties hold as well (too long for a regular run).
  The channel: two loops at a time (a resume meets the loop that still waits), a
  breaker of two failures (five in the code), two messages, the first of them media alone,
  one pause, one crash. A pause and a resume make the two loops; with two pauses the
  properties hold as well.
  Accounts: one chat user; two accounts, of which the first has a key and a binding of the
  old release and a key to be issued, and the second only what the command line binds to it.
  A key that outlives its account needs one account, being bound elsewhere two.
  The secret: three starts, so that one may die and two race for what it left.
  The answer: messages of two pieces, three pieces, up to four sends waiting before an
  optional one is left out: enough to grow, to be edited, and to become long.
* `desktop`: three pids (the recorded process, one closing, one new), limit 1, three
  crashes, two commands: enough to blow the fuse, rearm it and crash once more. With
  three commands the properties hold as well (too long for a regular run).
  The window: two chats and three turns of the first one, of which one is over before: a
  trusted window meets one of its own and one of another client, a remote account
  its own two; two calls of `openSession` at a time and one hurdle, a drop of the link or
  another chat opened. Two own turns can meet in one queue, and one drop is enough
  to lose a notice, an answer or a list. The earlier turn left no text (`Spoken`; with
  one the properties hold as well), and which unsent turn a submission becomes is fixed,
  since the server mints its id (`Minted`): the other choices only rename.
  The files: one token, one provider key, three processes, `MaxEdits` 3 handlers and
  any number of deaths. A dangling reference needs one handler that tears secrets.json,
  one that reads it and writes gateway.json, and one more to fill what was torn. One
  poll of a login waits at a time (`MaxPolls`); two give the same result.

### Fairness

`prompts`: a started sub-agent's timer fires (`setTimeout`) and a settled promise
resumes its call (the microtask queue). Nothing is assumed of the host, which may never
answer. `timeoutMs: 0` disables the timer in the code; the liveness claim is about
delegations with a timeout. `session`: synchronous writes complete, and the
stream of an aborted turn ends, because the provider's stream and every tool call
are given its signal. A stream nobody aborts, a report, and the summary call of a
compaction (manual or within a turn; `compactor.ts:47` is given no signal) may run
for ever: `AbortEnds` is stated for the behaviours in which the turn's summary calls come
back, by an answer or an exception.

`delegation`: a granted delegation starts, its timer fires, a stream with a fired
signal ends, the evaluation meets its own timeout. A stream nobody signals may run
for ever. With the terminal, an aborted turn's stream ends and a send the host has
accepted resolves; nothing is assumed of the user. `schedules`: minutes pass, the timer pulses, a tick whose fire has ended
goes on, a crashed process is restarted. `DueIsHandled` assumes besides that no
fire hangs (a scheduled turn may wait for an answer for ever; `ask.ts` does not look
at the unattended flag): `tick` awaits the fire, so one that hangs stops every
schedule. `app_server`: clients read what the socket gives them, and the server's
own continuations, deliveries and closes happen. `dispatcher`: an aborted turn ends
and a channel's send answers or fails. `desktop`: the poll timer, the backoff's
clock, `restart()`'s bounded wait, booting and signalled processes, and the socket's
own events; a process that hangs while closing is not owed an end. In the window, a
request is answered while the link is up, a notice arrives, and a link that dropped
comes back (`ScheduleRetry`); nothing is owed by the turns or the user. A channel's poll
loop goes on; whether a poll answers or fails is the network's choice. So is what
becomes of a send, but it has its time limit (`AbortSignal.timeout`).

The runs with a violation use no fairness, and their properties are safety
properties. Deadlock is checked in `dispatcher` only: elsewhere a session whose tasks are over, a closed
connection, a gateway stopped by the user stop.

## 4. Proofs

Every theorem holds for all values of the constants that the named assumptions allow.

**Prompts.** `TypeCorrect` is inductive as it stands. The other properties are not:
that an aborted run has no waiting call holds only because a waiting call always
has its entry and its listener. `PromptInv` adds `EntriesWait` (an entry's call
waits and sits under its own key), `WaitersHeld` (a waiting call has its entry, its
run is not aborted and its turn drives) and `ListenersWait` (the listeners are those
of the waiting calls). One lemma per operation (`GateStep`, `AnswerStep`,
`FireSignalsStep`) shows that it keeps them; `AbortsRelease`, `NothingLeaks` and
`NoForeignRejects` follow. They assume `UniqueKeys`: no two calls share
a correlation id. (In the code two sandbox-extension prompts for one path share
theirs, `exec.ts:235`; without the assumption the properties fail.)
`AnswersRelease` says that an answered call does not wait, of every call whose host answers
outside its event listener, whatever the others do; run `prompts_eager` shows why not of
all. `AnsweredNotWaiting` is the case in which no host is eager.
`AuthorityIsHuman` needs neither: `GrantsBacked` says that every grant in the table is
one a human gave, or the copy of one given to the orchestrator for an inheriting
sub-agent, and is inductive with it. `WaitersAreReachable`: a call that waits holds its
turn (`SuspendedRun`), and no timer or abort has gone by without it.

**The gate.** `ToolGateProofs` shows that every step of ToolGate is a step of Prompts or a
stutter, and so carries those results to the whole path. `PlanLocks` is proved from
`LockdownInv`: a mutating call that met plan mode is over, with a record that says
it was denied or blocked, and nothing restarts it. For `FullModeAsks`, a high-risk call
that met full mode waits at the gate, was refused, or was allowed there
(`AskedInFull`). That its decision is then a person's yes, to this call or in a grant that
reaches its agent, rests on `GateAuthorityIsHuman` and on the controllers:
what is pending or listening waits, so no late answer, signal or registration under
the same id rewrites a decision already taken (`SettleInv`). This one needs neither
`UniqueKeys` nor `Eager = {}`. `ScheduleFailsClosed` has a hypothesis about the
behaviour, `[]OneFire`: at most one unattended run of the session at a time. `tick`
awaits each fire, so the scheduler alone keeps to it; a manual `runScheduleNow` beside a
scheduled one would not, and the first to end clears the flag under the other. With
it, the flag is up exactly while the one run works (`FireCovers`).

**The session.** `EntriesSurvive` speaks of the moments when nothing is being written. It
is inductive as `LogInv`: the entries in memory are those on file together with those
whose lines stand in the buffer, one entry for an id. `TurnIsOnePath` needs where the
head stands while a turn drives and what every reply hangs on, also on file, for a
crash between the two. `ManualForgetsNothing` needs what a compaction under way has read,
and that the messages of a path and its last entries, both counted from the end, leave
nothing between them as long as every entry re-anchored has text.
`Path` and `Ancestors` are recursive functions of an id, and a parent is older than its
child: the lemmas about them go by induction over the ids, through the least id that
would fail (`Recursions`). `AbortsReach` needs that the queue holds each task that waits
once, the one that works at its head, and that the controllers are those of its turns
(`QueueInv`); it holds with torn lines and forks too. The other theorems assume
`Torn = FALSE` (run `session_torn` shows why), and `TurnsAreOnePath` besides
`ForkMidTask = FALSE` (section 5).

**Delegation.** Slots are counted exactly. `SlotsExact` holds because a
delegation stands in the queue at most once (`QueuedOnce`), so that a release hands
its slot to one that has none; both are inductive together with the types.
`OutcomeTold` needs `RecordFollows`, what the run record says of a delegation not over
yet. With both, every step of Delegation is a step of `SlotPool` or leaves the
holders and the queue alone (`DelegationImplementsPool`). `AbortedTurnsDrain` follows
from the same counting: a free slot and a queue never stand beside each other, so who
queues has a holder before it, and the outstanding delegations of an aborted turn shrink.

**The terminal.** Its host also aborts and skips turns that wait (`Marks`); `OutcomeTold`
and `ImplementsPool` are proved again for it (`OutcomesAreToldBelow`,
`TuiImplementsPool`). The trace has a lemma per reducer case that says what it keeps of the
tree (`Touches`), and that the node it is about ends in its place (`Placed`).
`NodesHangOnce` and `PromptsOnScreen` are inductive as `ScreenInv`. Nothing is known of a
sub-agent before it starts (`Follows`). A turn whose send is awaited has made no delegation,
and from the moment the send resolves until the turn is over its run is the one tracked
(`Sent`): so every sub-agent of the attended turn that starts is tracked with its node, and
one that is not was aborted, and asks nothing (`Attends`). That the tree is the same
whatever the order in which starts and calls arrive is `OrderDoesNotMatter`: they commute,
once the orchestrator is known. Loading a history, like leaving or clearing the screen,
ends the attendance. `EndsAreHeardOnScreen` adds that what drives heads the queue and that
a send still awaited belongs to a turn neither aborted nor over (`HeardInv`).

**The scheduler** over its host: `ImplementsSlots` and `FlagFollowsFires`. The walk of a
tick arms and skips only schedules that come before its next
fire in the order, and the one it had awaited stands before its place (`TickInv`), so
that what a step does to one schedule is one of the things ScheduleSlots allows; that
the next slot lies in the future is `NextRunIsLater`. The flag follows because a
client stands in at most one queue, once (`LineInv`), and because all that the
scheduler of a running process has in hand is the fire it awaits (`RestInv`): a
schedule that it fires is not queued already. `TicksPassNothing` rests on what the walk
leaves behind it: every schedule it passed is armed ahead of the time it has read, but for
the one it awaits (`PassedAhead`). For `FiresAreHeld`, whoever is queued stands in the
queue of the object it was sent to (`Stands`), through deletes and restarts.

**The app server.** `PromptsAnswerable` becomes inductive with what the books must know:
a run that can still raise a prompt is tracked under its session, a turn at the latest
when the await that started it resolves, a sub-agent run as soon as it drives
(`BookInv`). `NoGap` is split at a number in the middle: the notices on the wire are those
after the last one seen up to it, those in the outbound queue the ones from there to the
last owed; a registered connection misses none, one that is being closed only the last
ones (`WireInv`). `RequestsAreHeld` needs that every socket that is up is registered, so that
a full queue drops no response before one (`HeldInv`). The lemmas about `InOrder` say what
appending, taking the front and joining two sequences do to it.

**The gateway**, as composed. `TurnIsWhole` holds when a turn begins
only because its conversation has none at that moment. That is
`ClaimHeld`: from the guards of `handleInbound` to the answer of the host, a message
being prepared excludes another message and a registered turn, and what comes after a
late flush only takes registrations away. `PromptsAreKept` follows step by step from
it. `InboundIsKept` needs that one loop polls unless two have crossed, what each place of
a loop says of the offset it carries, and for WeChat that nothing past the cursor was
handed on, nor what the loop has still to look at; what is not handed on was media alone. `DeprovisioningCuts` needs what a
de-provisioned account has left, from the first statement of the panel to the last: no
key; then no user and no `/bind` under way, and no route but the chat's own. A message that
is being prepared keeps what it read; the theorem says that none reads it any more.
`AdminSecretIsOne` needs that a file made and still empty has one writer.
`InboundIsCarried` says that what lies behind the offset or the cursor was handed on or is
in some loop's hand, also what a loop takes for a duplicate, or was dropped (`CarriedInv`).
`StoppedIsFreed` follows from `StopIsHeld`: what has failed or ended while it was registered
is being flushed, and what was aborted waits for no prompt. `AnswersAreTold` rests on
`RenderInv`. Where the channel edits, the version sent last is the last answer in
the chain, or was given up, or stands in the one message, and the final flush makes it the
whole text (`EditsTell`); where it does not, the answer enters the chain once, in the end
(`WholeTells`); the document and the warning wait, stand or were given up (`ExtrasTell`).

**The desktop**, as composed. `FuseHolds` alone is not
inductive: an automatic start is owed from the moment the backoff is set. Its
invariant says that the streak plus a start still owed is at most the crash count,
that the count exceeds the limit only when the fuse has blown, that the streak is
within the limit, and that a blown fuse leaves no backoff. `RestartKillsOnlyOld` needs which
of the processes the panel, a poll or `restart` has told to stop (`ProcInv`). `LinkIsHeld`
needs which timers and sockets belong to each phase of the connection (`LinkInv`).
`OwnTurnsInSingleFile` rests on a notion of cover: a belief of the window (`runIds`, the
list it is given, the marks of the active list) covers a turn when it names that turn or
one ahead of it in the chat's queue whose end has not been told. A cover lasts
until the turn ends (`CoversStay`), so the composer is closed while an own turn is in the
queue. `TurnStaysOnScreen` adds that a chat which shows a running turn is
marked as running, with no end of a turn of it on the way, and that a history
asked for meanwhile is none. `EndsAreHeard` needs that a list or an answer that would mark an
ended turn as running has the notice of its end behind it (`EndsInv`).
`TokensResolve` is inductive with what each handler has still to do (`KeysAt`): it refers
only to keys that are stored or that it stores before, and its copy of the keys lacks
none of the file's but those it is known to lack (`behind`) or is removing. `StaleTells`
needs besides only that what changes while the gateway boots is unseen.

The assumptions on the constants are the named `ASSUME`s of the modules; TLC evaluates
them on every run. They say how a session's runs, calls and requests are typed
and that the values standing for nothing are none of the others. Those that are more than
typing: the kinds of tasks of a session are disjoint, a turn of the app server is not also
a sub-agent run, and no set of keys equals the mark of an unread file.

### Only model-checked

* All liveness properties, as the prover has no rule for fairness or ENABLED here. What
  each of them rests on is proved: that what is to come always has something left that
  brings it about. That this step is taken is left to TLC.

  | Liveness, by TLC | What it rests on, proved |
  |---|---|
  | `DelegationUnblocks` | `WaitersAreReachable`, `GateWaitersAreReachable` |
  | `AbortEnds` | `AbortsReach` |
  | `AbortCascades` | `AbortedTurnsDrain` |
  | `InterruptFrees` | `EndsAreHeardOnScreen` |
  | `DueIsHandled` | `TicksPassNothing`, `FiresAreHeld` |
  | `RequestsSettle` | `RequestsAreHeld` |
  | `StopFrees` | `StoppedIsFreed` |
  | `InboundArrives` | `InboundIsCarried` |
  | `AnswerArrives` | `AnswersAreTold` |
  | `ChatComesBack` | `LinkIsHeld` |
  | `RunIdsClear` | `EndsAreHeard` |
* Folding a file with a torn line; the runs that expect a violation need no proof.

Every safety property that a run checks, and every refinement, has a theorem.
`SlotsExact` has a theorem and no run: `ImplementsPool`, which rests on it, has both.

## 5. Abstractions worth knowing

* A turn's context is the path when its user entry is appended. The code reads it
  after the memory lookup; the two agree unless the host forks in between, which
  `ForkMidTask = FALSE` excludes. With `ForkMidTask = TRUE`, `TurnIsOnePath` fails.
* Only manual compaction re-anchors the recent tail. A threshold compaction appends
  its summary after the tail, and the path of later turns stops at the summary; the
  operator `NothingForgotten` says what such a path lacks, and no run claims it.
* What a manual compaction may forget. The compactor leaves the last six messages out of
  its summary (`compactor.ts:43`), and `buildMessages` makes no message of an entry without
  text, as a reply of tool calls alone (`session.ts:594-595`). The session re-anchors the
  last six entries (`session.ts:483`), those included, as "the recent tail the summary did
  NOT fold in" (`session.ts:481`). So each of them among the six pushes out a message
  that is in neither. `ManualForgetsNothing` leaves out the trees in which such an entry
  was re-anchored; without that clause TLC finds the loss within the bounds of run
  `session`. A user's entry always makes a message in the model, and a summary has text.
* High-risk calls in full mode. They are "always gated" (`full-mode-policy.ts:25`), and a
  grant that covers a dangerous interpreter, `sudo`, `doas` and `su` among them, is "always
  re-gated so a prior `bash` grant can't be weaponized" (`gate.ts:51-52`,
  `docs/full-mode.md:34`); "the high-risk set prompts the human" (`gate.ts:80`). But the
  gate they are sent to honours any grant that matches before it prompts
  (`approval.ts:65-66`): after a SESSION answer or an approved plan for its command, such a
  call runs in full mode unprompted. `FullModeStillAsks` therefore says that it runs only on
  a person's answer to it or on a person's grant for its scope that reaches its agent.
  `PlanLockdown` is about the mode a call started in: one that meets plan mode only after
  the classifier's await is not held back (`gate.ts:47`).
* `Resume` records its grants and, for an approved plan, the target mode in one step;
  the code does both before its next await.
* A store that throws while the process lives, `label`, `deleteSession` against a
  session's own log, memory hooks, usage accounting and all events but the prompts
  are not modelled in the core.
* A sub-agent's timer may fire after its calls are over; the code clears it.
  Nothing waits then, so no property can tell.
* Reports appear in Prompts as turns that are never the active run, and have
  their controller only once they start.
* Tui has some steps of the code that a user may find odd, and no property denies
  them. After `/clear` or a load in the middle of a run a sub-agent may become the
  root of the trace. Switching away and back drops the tracked run, so the rest of
  the running turn is not rendered and its prompts are not shown
  (`specs/cli-architecture.md:55` speaks of a render filter). A stream error stops the
  clock while the turn still runs, so a new message may take the screen from it. A
  turn aborted while it queues behind `/compact` ends without an event and the
  screen stays busy.
* A fire on a fresh session is folded into the stages of its fire: nobody else knows
  that session.
* In AppServer a frame is a response, a delta or a numbered notice; what it says
  is left out, since the properties only ask which ones arrive. The continuation of
  an await runs before anything of the host that waits for I/O, as microtasks do.
* Turns that a link drop hides from the desktop's window. A turn whose text has
  arrived and whose end is missed leaves `trace.status` on running: the next list
  clears `runIds` (`store.ts:519-524`), but `openSession` then finds the trace running
  and asks for no history, so the composer (`Chat.tsx:68`) stays disabled for good,
  against the comment at that line ("a run-finish missed while disconnected left runIds
  wedged as \"running\" (stuck spinner + blocked composer) forever"). A remote account
  resubscribes only to the open chat, so a background turn that ends later stays
  marked. Within 15 seconds of a start a list does not clear a missed end until the
  next connection, and an end that overtakes the answer to its own `turn/start` or
  list comes to nothing. A history read under way while a message is sent wipes the
  new turn's text. `RunIdsClear` and `TurnStaysOnScreen` state what remains true.
* A channel paused and resumed before its long poll returns has two poll loops, and
  messages may come twice. A paused channel still hands on the batch it holds. Only a
  delivered message resets the breaker's count, not an answered poll, so failures need
  not be consecutive as `specs/gateway-architecture.md:87` has them, and a failed
  download counts as one. Telegram sends its unconfirmed batch again after a restart.
  WeChat's cursor is written in place: a crash inside that write leaves a file that
  does not parse, the cursor is empty, and the whole history comes again, which
  `weixin.ts:94-95` means to exclude; crossed loops and a crash can set it back, or
  lose a Telegram message. A batch whose cursor cannot be written (a full disk) is lost.
  In the model the write succeeds, and the duplicate window outlives any replay.
* A Telegram message that is media alone (a photo, a voice note without caption) is gone
  when its download fails or Telegram names no file, as beyond 20 MB (`telegram.ts:247`):
  `toInbound` then returns nothing (`telegram.ts:196`), after the offset has moved
  (`telegram.ts:156`), and nobody is told, against "a failed download is logged and
  dropped, never aborts the whole message" (`telegram.ts:236-237`). `InboundKept` and
  `InboundArrives` say that nothing else is lost this way. WeChat hands the message on.
* What a chat may miss of an answer. WeChat's `send` reads the caption of a document
  and nothing else (`weixin.ts:143`), and a renderer sends every answer of more than
  `maxChars` as a document: of a long answer a WeChat user gets the words that the whole
  text is in the file, and no file. `chat-render.ts:7-8` says "hold text until
  `run-finish`, then send it split into ≤maxChars chunks". A version of a streamed
  answer that was given up is not sent again by the final flush, as `lastChunks` names
  it already. `AnswerArrives` leaves out both.
* `/new` drops a running turn's renderer without finishing it (`dispatcher.ts:479`), so
  its timer sets itself for ever and typing and status go on until the process ends,
  against "keep it alive on the tick for the whole run" (`chat-render.ts:88-89`). So it
  is with a turn that ends without an event. `DropAnswer` and `Tick` show it.
* The cards of todos and sub-agents are left out of ChatRender. They do not go through
  the chain: two updates before the first card's send resolves make two cards, and one
  that resolves after `endTurn` gives the next turn an old card to edit
  (`dispatcher.ts:943-981`).
* Hazards no property covers, besides the notes in `PROJECT.json`: a question of an
  unattended turn waits for ever (`ask.ts:44`); a fork moves the head under a driving
  turn (`index.ts:510`); a reply that cannot be appended leaves its run record open
  (`session.ts:407`), and so does a turn whose model does not resolve (`session.ts:270`):
  it emits no run-finish either, so the server's `activeTurns` and the window keep it
  (Dispatcher has that end, Session and ChatStore do not); a compaction whose summary hangs
  blocks later turns (`session.ts:311`, `session.ts:479`); a todo write after `deleteSession` reopens it (`index.ts:299`).
* What the configuration files do not promise. A panel or terminal that runs keeps the
  keys it read first, and its next write of secrets.json drops the keys that another
  process has stored since, against `apps/gateway/src/host/bootstrap.ts:3-5` ("configured
  in either are seen by the other"). The panel deletes a provider's or speech backend's
  key before it saves the list, so a death in between leaves a reference to nothing;
  `ea provider rm` goes the other way. `TokensResolve` sets both aside (`lost`). A
  torn gateway.json makes every handler and the start of the gateway fail until somebody
  repairs it. An edit between a gateway's `loadGatewayConfig` and its pid record is not
  applied and not flagged (`unseen`). Agents, schedules and settings are in no flag, and
  the comment at `admin.ts:456-459` does not name them. The terminal's page saves the
  provider list it read when it opened. The channel form with a blank token refers to
  whatever stands under that name, which may be nothing; the model's form has a token.
* What de-provisioning does not cut. A `/bind` that has read its key, or the import of the
  old files by a process that is just opening the database, brings the account back
  (`admin.ts:725-727`, `db.ts`). A message is asked at the gate once (`dispatcher.ts:263`)
  and then waits for its attachments and for the host: de-provisioned meanwhile, its user
  has that turn all the same, in the session that was there, in a new one without a memory,
  or, where the namespace had been read (`dispatcher.ts:413`), in a new one with the
  memory of the account, which the chat then keeps. With `EA_GATEWAY_AUTH_MODE=open` a chat
  goes on in its session anyway. `DeprovisionCuts` says that the memory is read no more and
  no other session begins with it. Connections to `/rpc` that are open stay open, whatever
  "logout everywhere" in the comment there suggests. A chat whose user is bound again to
  another account goes on in its session with the memory of the first one. `route rm`
  and the panel edit `routes.json`, which a running gateway does not read again: its next
  write brings the route back, against `bin.ts:110`.
* `loadOrCreateAdminSecret` says "if absent/empty" (`admin-auth.ts:48`), and throws on a file
  that is empty (`admin-auth.ts:59-66`): after a crash between creating and filling it, the
  panel and the gateway do not start until it is removed. `OneAdminSecret` is about the rest.
* Of a value saved by several processes only whether it is there is tracked; of two
  channels saved at once the later write wins, as in the code.
* In Sidecar a backoff runs out and a process counts as stable at some point; the
  lengths are left out. A process found dead is found by the next poll.

### Not modelled, and why

* Where a text is split, artifacts and progress cards: traffic with services that are
  not in this repository.
* Of the desktop's store: drafts, creating and deleting sessions, compaction, uploads,
  modes, plans and titles.
* What the configuration says and how scopes merge, model catalog, MCP, OS sandboxes,
  loaders, usage sums: sequential look-ups and arithmetic; their failures surface in the core as a tool
  call, a model resolution or a stream that throws, which the models have.
* What the terminal UI's views, the desktop's windows and the web pages draw. The
  terminal's questions and plan bar take the way its approvals take; its pickers and
  the session's own settings are left out.

## 6. Plan

Done: everything above. What is left:

1. **SessionLog** with a store that throws, and stale run records after a crash.
2. **ChatStore** with drafts and session creation, and a second window.
