------------------------------ MODULE AppServer ------------------------------
(***************************************************************************)
(* The app server (packages/agent-server/src/server.ts, node.ts) between   *)
(* its clients and one agent host.  It answers requests, remembers which   *)
(* run belongs to which session, which turn a session is running and which *)
(* prompts wait for an answer, and hands every event of the host to the    *)
(* connections that subscribed to it, each over a bounded queue.           *)
(*                                                                         *)
(* A request that awaits the host is two steps: what it asks of the host,  *)
(* and what it does with the answer.  The second one is a continuation: it *)
(* runs before anything of the host that waits for I/O.                    *)
(***************************************************************************)
EXTENDS RpcClient

CONSTANTS
  Sessions, Turns, SubRuns, Prompts,
  SessionOf,    \* session of each turn
  ParentOf,     \* turn of each sub-agent run
  AskedBy,      \* the run that raises each prompt
  Account,      \* account of each connection, or Trusted
  Owner,        \* account that owns each session
  Trusted, NoAccount, NoTurn,
  Greeted,      \* connections that have initialized before
  Method,       \* method of each request
  Target,       \* what a request is about: a session, a turn, a prompt
  MaxQueue,     \* outbound queue cap of a connection
  HighWater,    \* frames a socket buffers before a send stops resolving
  MaxEvents, MaxDeltas   \* bounds: events without meaning for the server

Runs == Turns \cup SubRuns
RootOf(r) == IF r \in SubRuns THEN ParentOf[r] ELSE r
Methods == {"initialize", "turn/start", "turn/interrupt", "respond",
            "subscribe/session", "subscribe/account", "session/delete"}

ASSUME AppServerAssumption ==
  /\ SessionOf \in [Turns -> Sessions] /\ ParentOf \in [SubRuns -> Turns]
  /\ AskedBy \in [Prompts -> Runs]
  /\ Turns \cap SubRuns = {}
  /\ Method \in [Requests -> Methods] /\ Greeted \subseteq Conns
  /\ \A q \in Requests : Target[q] \in CASE Method[q] \in {"turn/start", "turn/interrupt"} -> Turns
                                          [] Method[q] = "respond" -> Prompts
                                          [] OTHER -> Sessions
  /\ MaxQueue \in Nat \ {0} /\ HighWater \in Nat
  /\ MaxEvents \in Nat /\ MaxDeltas \in Nat

VARIABLES
  (* the host *)
  exists,      \* sessions in the registry
  line,        \* turn queue of each session; its head drives
  phase,       \* of each run
  aborted,     \* runs whose controller was aborted
  prompt,      \* of each prompt: new, waiting, over
  noise,       \* events and deltas emitted so far
  (* the server *)
  awaiting,    \* requests whose await on the host has been resolved
  initialized, \* connections
  subs,        \* scopes each connection subscribed to
  registered,  \* connections the server serves
  runToSession,  \* runs it knows
  activeTurns,   \* turn of each session, as session/list shows it
  sessionToAccount,
  pending,     \* prompts that can be answered, with their account
  queue,       \* outbound queue of each connection
  flushing,    \* connections whose send is awaited
  owed         \* history: how many notices each connection must be given

hostVars == <<exists, line, phase, aborted, prompt, noise>>
bookVars == <<runToSession, activeTurns, sessionToAccount, pending>>
connVars == <<initialized, subs, registered, queue, flushing, owed>>
wireVars == <<toClient, link>>
vars == <<rpcVars, hostVars, awaiting, bookVars, connVars>>

Phases == {"none", "queued", "driving", "over"}
Claimable == [id : Prompts, account : {Account[c] : c \in Conns} \cup {NoAccount}
                                        \cup {Owner[s] : s \in Sessions}]
ClaimOf(p) == CHOOSE x \in pending : x.id = p
Registered(p) == \E x \in pending : x.id = p

Init ==
  /\ RpcInit
  /\ exists = Sessions /\ line = [s \in Sessions |-> <<>>]
  /\ phase = [r \in Runs |-> "none"] /\ aborted = {}
  /\ prompt = [p \in Prompts |-> "new"]
  /\ noise = [events |-> 0, deltas |-> 0]
  /\ awaiting = {} /\ initialized = Greeted /\ subs = [c \in Conns |-> {}]
  /\ registered = Conns
  /\ runToSession = [r \in {} |-> r] /\ activeTurns = [s \in Sessions |-> NoTurn]
  /\ sessionToAccount = [s \in {} |-> s] /\ pending = {}
  /\ queue = [c \in Conns |-> <<>>] /\ flushing = {}
  /\ owed = [c \in Conns |-> 0]

-----------------------------------------------------------------------------
(* Outbound: enqueue, flush, close                                         *)

Event(k, r) == [kind |-> k, run |-> r]

\* A bug to tell apart: whatever finds the queue full is dropped.
FateDropsAll(c, m) ==
  IF c \notin registered THEN "lost"
  ELSE IF c \notin flushing THEN IF c \in link THEN "leaves" ELSE "closes"
  ELSE IF Len(queue[c]) < MaxQueue THEN "queues" ELSE "lost"

\* What one frame does to a connection: it leaves at once, it queues, a delta is
\* dropped at a full queue, anything else closes the connection there.
Fate(c, m) ==
  IF c \notin registered THEN "lost"
  ELSE IF c \notin flushing THEN IF c \in link THEN "leaves" ELSE "closes"
  ELSE IF Len(queue[c]) < MaxQueue THEN "queues"
  ELSE IF IsDelta(m) THEN "lost" ELSE "closes"

\* enqueue of frame[c] on every connection c of its domain; the close of a
\* connection clears its queue, closes its socket and takes it off the server.
Enqueue(frame) ==
  LET these(f) == {c \in DOMAIN frame : Fate(c, frame[c]) = f}
      onto(pipes, cs) == [c \in Conns |-> IF c \in cs THEN Append(pipes[c], frame[c])
                                          ELSE pipes[c]]
      gone == these("closes")
  IN  /\ toClient' = onto(toClient, these("leaves"))
      /\ flushing' = (flushing \cup these("leaves")) \ gone
      /\ queue' = [c \in Conns |-> IF c \in gone THEN <<>> ELSE onto(queue, these("queues"))[c]]
      /\ registered' = registered \ gone /\ link' = link \ gone

\* The awaited send has resolved: the socket's buffer has drained.
Drained(c) ==
  /\ c \in flushing /\ c \in link /\ Len(toClient[c]) <= HighWater
  /\ IF queue[c] = <<>>
     THEN flushing' = flushing \ {c} /\ UNCHANGED <<queue, toClient>>
     ELSE /\ toClient' = [toClient EXCEPT ![c] = Append(@, Head(queue[c]))]
          /\ queue' = [queue EXCEPT ![c] = Tail(@)]
          /\ UNCHANGED flushing
  /\ UNCHANGED <<call, open, link, toServer, seen, hostVars, awaiting, bookVars,
                 initialized, subs, registered, owed>>

\* A bug to tell apart: the connection is taken off the server, its socket left open.
ServerClosesHalf(c) ==
  /\ c \in registered
  /\ c \notin link \/ (c \in flushing /\ Len(toClient[c]) > HighWater)
  /\ registered' = registered \ {c} /\ flushing' = flushing \ {c}
  /\ queue' = [queue EXCEPT ![c] = <<>>]
  /\ UNCHANGED <<call, open, link, toServer, toClient, seen, hostVars, awaiting, bookVars,
                 initialized, subs, owed>>

\* close: a send that failed or never drained, or the socket's close or error.
ServerCloses(c) ==
  /\ c \in registered
  /\ c \notin link \/ (c \in flushing /\ Len(toClient[c]) > HighWater)
  /\ registered' = registered \ {c} /\ flushing' = flushing \ {c}
  /\ queue' = [queue EXCEPT ![c] = <<>>] /\ CutLink(c)
  /\ UNCHANGED <<call, open, toServer, toClient, seen, hostVars, awaiting, bookVars,
                 initialized, subs, owed>>

-----------------------------------------------------------------------------
(* Events of the host: handleHostEvent                                     *)

Known(r) == r \in DOMAIN runToSession

\* A bug to tell apart: a sub-agent's event is found by its own run alone.
FindsSessionByRun(m) == m.kind = "entry" \/ Known(m.run)

\* sessionIdForEvent, for an event of run r that names its parent or not.
FindsSession(m) ==
  \/ m.kind = "entry" \/ Known(m.run)
  \/ m.kind = "start" /\ m.run \in SubRuns /\ Known(ParentOf[m.run])

\* deliver: the connections that are told of an event.
Listeners(m) ==
  {c \in registered :
     \/ SessionOf[RootOf(m.run)] \in subs[c] \/ m.run \in subs[c] \/ "account" \in subs[c]
     \/ m.kind = "start" /\ ParentOf[m.run] \in subs[c]}

\* clearRun after the event is delivered; what the run's prompts were is gone.
Cleared(m, known) ==
  IF m.kind # "finish"
  THEN /\ runToSession' = known
       /\ UNCHANGED activeTurns
  ELSE /\ runToSession' = [r \in DOMAIN known \ {m.run} |-> known[r]]
       /\ activeTurns' = [s \in Sessions |-> IF activeTurns[s] = m.run THEN NoTurn
                                             ELSE activeTurns[s]]

Publish(m) ==
  IF ~FindsSession(m)
  THEN UNCHANGED <<bookVars, toClient, link, subs, registered, queue, flushing, owed>>
  ELSE LET s == SessionOf[RootOf(m.run)]
           acc == IF s \in DOMAIN sessionToAccount THEN sessionToAccount[s] ELSE NoAccount
           to == Listeners(m)
       IN  /\ Cleared(m, IF m.kind = "start" /\ m.run \notin DOMAIN runToSession
                         THEN [r \in DOMAIN runToSession \cup {m.run} |->
                                 IF r = m.run THEN s ELSE runToSession[r]]
                         ELSE runToSession)
           /\ sessionToAccount' =
                IF m.kind = "start" /\ s \notin DOMAIN sessionToAccount
                THEN [x \in DOMAIN sessionToAccount \cup {s} |->
                        IF x = s THEN acc ELSE sessionToAccount[x]]
                ELSE sessionToAccount
           /\ pending' =
                IF m.kind = "prompt" THEN pending \cup {[id |-> m.prompt, account |-> acc]}
                ELSE IF m.kind = "finish" THEN {x \in pending : AskedBy[x.id] # m.run}
                ELSE pending
           /\ Enqueue([c \in to |-> IF m.kind = "delta" THEN Delta ELSE Notice(owed[c] + 1)])
           /\ owed' = [c \in Conns |-> IF c \in to /\ m.kind # "delta" THEN owed[c] + 1
                                        ELSE owed[c]]
           /\ subs' = [c \in Conns |-> IF c \in to /\ m.kind = "start"
                                       THEN subs[c] \cup {m.run} ELSE subs[c]]

Told == UNCHANGED <<call, open, toServer, seen, exists, awaiting, initialized>>

\* Nothing of the host that waits for I/O overtakes a resolved await.
Settled == awaiting = {}
DrivingTurn(r) == phase[r] = "driving"
Alive(r) == IF r \in SubRuns THEN phase[r] = "driving" /\ DrivingTurn(ParentOf[r])
            ELSE DrivingTurn(r)

\* The queue reaches a turn: an aborted one is skipped without a word; the others
\* append their user entry, and may throw before the drive has begun.
Begin(r) ==
  /\ phase[r] = "queued" /\ Head(line[SessionOf[r]]) = r
  /\ \/ /\ r \in aborted
        /\ phase' = [phase EXCEPT ![r] = "over"]
        /\ line' = [line EXCEPT ![SessionOf[r]] = Tail(@)]
        /\ UNCHANGED <<bookVars, toClient, link, subs, registered, queue, flushing, owed>>
     \/ /\ r \notin aborted
        /\ \/ phase' = [phase EXCEPT ![r] = "driving"] /\ UNCHANGED line
           \/ /\ phase' = [phase EXCEPT ![r] = "over"]
              /\ line' = [line EXCEPT ![SessionOf[r]] = Tail(@)]
        /\ Publish(Event("entry", r))
  /\ UNCHANGED <<aborted, prompt, noise>> /\ Told

\* A run of the turn streams text, calls a tool, starts a sub-agent.
Emit(r) ==
  /\ Settled /\ Alive(r)
  /\ \/ /\ noise.deltas < MaxDeltas
        /\ noise' = [noise EXCEPT !.deltas = @ + 1]
        /\ Publish(Event("delta", r))
     \/ /\ noise.events < MaxEvents
        /\ noise' = [noise EXCEPT !.events = @ + 1]
        /\ Publish(Event("tool", r))
  /\ UNCHANGED <<line, phase, aborted, prompt>> /\ Told

Spawn(d) ==
  /\ Settled /\ phase[d] = "none" /\ DrivingTurn(ParentOf[d])
  /\ phase' = [phase EXCEPT ![d] = "driving"]
  /\ Publish(Event("start", d))
  /\ UNCHANGED <<line, aborted, prompt, noise>> /\ Told

\* A call of a run suspends on a prompt.
Raise(p) ==
  /\ Settled /\ prompt[p] = "new" /\ Alive(AskedBy[p]) /\ RootOf(AskedBy[p]) \notin aborted
  /\ prompt' = [prompt EXCEPT ![p] = "waiting"]
  /\ Publish([kind |-> "prompt", run |-> AskedBy[p], prompt |-> p])
  /\ UNCHANGED <<line, phase, aborted, noise>> /\ Told

\* The turn has ended, no call of it waits any more.
Finish(r) ==
  /\ Settled /\ r \in Turns /\ DrivingTurn(r)
  /\ \A p \in Prompts : RootOf(AskedBy[p]) = r => prompt[p] # "waiting"
  /\ phase' = [x \in Runs |-> IF RootOf(x) = r /\ phase[x] # "none" THEN "over" ELSE phase[x]]
  /\ line' = [line EXCEPT ![SessionOf[r]] = Tail(@)]
  /\ Publish(Event("finish", r))
  /\ UNCHANGED <<aborted, prompt, noise>> /\ Told

-----------------------------------------------------------------------------
(* Requests: handle and dispatch                                           *)

\* ownsSession, over the sessions the registry lists.
MayUse(c, s) == s \in exists /\ Account[c] \in {Trusted, Owner[s]}

Answer(q, ok) ==
  /\ Enqueue([c \in {ConnOf[q]} |-> Reply(q, ok)])
  /\ UNCHANGED owed
Refuse(q) ==
  /\ Answer(q, FALSE)
  /\ UNCHANGED <<hostVars, awaiting, bookVars, initialized, subs>>

\* trackRun.
Track(r, s, acc) ==
  /\ runToSession' = [x \in DOMAIN runToSession \cup {r} |-> IF x = r THEN s ELSE runToSession[x]]
  /\ sessionToAccount' =
       [x \in DOMAIN sessionToAccount \cup {s} |->
          IF x \in DOMAIN sessionToAccount THEN sessionToAccount[x] ELSE acc]

Initialize(q) ==
  /\ Method[q] = "initialize"
  /\ IF ConnOf[q] \in initialized THEN Refuse(q)
     ELSE /\ initialized' = initialized \cup {ConnOf[q]}
          /\ Answer(q, TRUE)
          /\ UNCHANGED <<hostVars, awaiting, bookVars, subs>>

\* turnStart up to its await: the host queues the turn.
TurnStart(q) ==
  LET r == Target[q]
      s == SessionOf[r]
  IN  /\ Method[q] = "turn/start"
      /\ IF ~MayUse(ConnOf[q], s) THEN Refuse(q)
         ELSE /\ phase' = [phase EXCEPT ![r] = "queued"]
              /\ line' = [line EXCEPT ![s] = Append(@, r)]
              /\ awaiting' = awaiting \cup {q}
              /\ UNCHANGED <<exists, aborted, prompt, noise, bookVars, connVars, wireVars>>

\* turnStart after it: the run is tracked and listed, its starter follows it.
TurnStarted(q) ==
  LET r == Target[q]
      s == SessionOf[r]
      c == ConnOf[q]
  IN  /\ q \in awaiting /\ awaiting' = awaiting \ {q}
      /\ Track(r, s, IF Account[c] = Trusted THEN NoAccount ELSE Account[c])
      /\ activeTurns' = [activeTurns EXCEPT ![s] = r]
      /\ subs' = [subs EXCEPT ![c] = @ \cup {r}]
      /\ Answer(q, TRUE)
      /\ UNCHANGED <<call, open, toServer, seen, hostVars, pending, initialized>>

\* turnInterrupt: the host aborts the run's controller; an active run's prompts
\* are rejected with it.
TurnInterrupt(q) ==
  LET r == Target[q]
  IN  /\ Method[q] = "turn/interrupt"
      /\ IF ~(Known(r) /\ MayUse(ConnOf[q], SessionOf[RootOf(r)])) THEN Refuse(q)
         ELSE /\ aborted' = IF phase[r] \in {"queued", "driving"} THEN aborted \cup {r} ELSE aborted
              /\ prompt' = [p \in Prompts |->
                              IF prompt[p] = "waiting" /\ RootOf(AskedBy[p]) = r THEN "over"
                              ELSE prompt[p]]
              /\ Answer(q, TRUE)
              /\ UNCHANGED <<exists, line, phase, noise, awaiting, bookVars, initialized, subs>>

\* approval/respond, question/respond, plan/respond: claimPending, then the host.
Respond(q) ==
  LET p == Target[q]
  IN  /\ Method[q] = "respond"
      /\ IF ~(Registered(p) /\ Account[ConnOf[q]] \in {Trusted, ClaimOf(p).account})
         THEN Refuse(q)
         ELSE /\ pending' = pending \ {ClaimOf(p)}
              /\ prompt' = [prompt EXCEPT ![p] = IF SessionOf[RootOf(AskedBy[p])] \in exists
                                                 THEN "over" ELSE @]
              /\ Answer(q, TRUE)
              /\ UNCHANGED <<exists, line, phase, aborted, noise, awaiting, runToSession,
                             activeTurns, sessionToAccount, initialized, subs>>

Subscribe(q) ==
  LET c == ConnOf[q]
      scope == IF Method[q] = "subscribe/account" THEN "account" ELSE Target[q]
  IN  /\ Method[q] \in {"subscribe/account", "subscribe/session"}
      /\ IF IF scope = "account" THEN Account[c] # Trusted ELSE ~MayUse(c, scope)
         THEN Refuse(q)
         ELSE /\ subs' = [subs EXCEPT ![c] = @ \cup {scope}]
              /\ Answer(q, TRUE)
              /\ UNCHANGED <<hostVars, awaiting, bookVars, initialized>>

\* sessionDelete: the host forgets the session, the server its runs.
SessionDelete(q) ==
  LET s == Target[q]
      gone == {r \in DOMAIN runToSession : runToSession[r] = s}
  IN  /\ Method[q] = "session/delete"
      /\ IF ~MayUse(ConnOf[q], s) THEN Refuse(q)
         ELSE /\ exists' = exists \ {s}
              /\ sessionToAccount' = [x \in DOMAIN sessionToAccount \ {s} |-> sessionToAccount[x]]
              /\ runToSession' = [r \in DOMAIN runToSession \ gone |-> runToSession[r]]
              /\ activeTurns' = [x \in Sessions |-> IF activeTurns[x] \in gone THEN NoTurn
                                                    ELSE activeTurns[x]]
              /\ pending' = {x \in pending : AskedBy[x.id] \notin gone}
              /\ Answer(q, TRUE)
              /\ UNCHANGED <<line, phase, aborted, prompt, noise, awaiting, initialized, subs>>

\* One frame is handled, also one that comes in after the server closed: any method
\* but initialize needs an initialized connection.
Handle(c) ==
  /\ Settled /\ toServer[c] # <<>>
  /\ LET q == Head(toServer[c])
     IN  IF Method[q] # "initialize" /\ c \notin initialized THEN Refuse(q)
         ELSE \/ Initialize(q) \/ TurnStart(q) \/ TurnInterrupt(q)
              \/ Respond(q) \/ Subscribe(q) \/ SessionDelete(q)
  /\ toServer' = [toServer EXCEPT ![c] = Tail(@)]
  /\ UNCHANGED <<call, open, seen>>

-----------------------------------------------------------------------------
ClientStep ==
  /\ \/ \E q \in Requests : Ask(q)
     \/ \E c \in Conns : Leave(c) \/ Break(c)
  /\ UNCHANGED <<hostVars, awaiting, bookVars, connVars>>

ClientReads ==
  /\ \E c \in Conns : Receive(c) \/ Lost(c)
  /\ UNCHANGED <<hostVars, awaiting, bookVars, connVars>>

HostStep == \/ \E r \in Turns : Begin(r) \/ Finish(r)
            \/ \E r \in Runs : Emit(r)
            \/ \E d \in SubRuns : Spawn(d)
            \/ \E p \in Prompts : Raise(p)

ServerStep == \/ \E q \in Requests : TurnStarted(q)
              \/ \E c \in Conns : Handle(c) \/ Drained(c) \/ ServerCloses(c)

Next == ClientStep \/ ClientReads \/ HostStep \/ ServerStep

\* Frames are read, awaits resume, sockets drain and report their end to both
\* sides: as long as any of that can be done, some of it is.  Nothing is assumed of
\* users, turns and the network.
Fairness == WF_vars(ClientReads \/ ServerStep)

Spec == Init /\ [][Next]_vars /\ Fairness

-----------------------------------------------------------------------------
(* Properties *)

AppTypeOK ==
  /\ call \in [Requests -> {"new", "pending", "resolved", "rejected"}]
  /\ open \subseteq Conns /\ link \subseteq Conns /\ registered \subseteq Conns
  /\ phase \in [Runs -> Phases] /\ prompt \in [Prompts -> {"new", "waiting", "over"}]
  /\ DOMAIN runToSession \subseteq Runs /\ activeTurns \in [Sessions -> Turns \cup {NoTurn}]
  /\ pending \subseteq Claimable /\ flushing \subseteq registered
  /\ \A c \in Conns : Len(queue[c]) <= MaxQueue /\ (queue[c] # <<>> => c \in flushing)

\* The notices among some frames are numbered from + 1, ..., to, in this order.
InOrder(frames, from, to) ==
  LET notices == {i \in DOMAIN frames : IsNotice(frames[i])}
  IN  /\ \A i, j \in notices : i < j => frames[i].no < frames[j].no
      /\ {frames[i].no : i \in notices} = from + 1..to

\* What reaches a client is what it was owed, in order and without a gap: a full
\* queue costs deltas, and anything else costs the connection, never a message
\* in the middle (server.ts enqueue; node.ts sendToSocket: "a closing/stuck socket
\* surfaces as a real failure instead of a silent drop").
NoGap ==
  \A c \in open : \E last \in seen[c]..owed[c] :
    /\ InOrder(toClient[c] \o queue[c], seen[c], last)
    /\ c \in registered => last = owed[c]

\* A prompt some call waits on can still be answered over the protocol, until an
\* answer or an abort ends the wait: neither the end of another run, nor an answer
\* that was refused, nor a lost connection takes it away.  (A deleted session
\* takes its prompts with it.)
PromptsAnswerable ==
  \A p \in Prompts :
    prompt[p] = "waiting" /\ SessionOf[RootOf(AskedBy[p])] \in exists => Registered(p)

\* A request is answered or fails in the end (each is made at most once here, so in
\* the end none is pending), whatever becomes of the connection:
\* "a dropped connection must settle every pending request" (client.ts:74-75).
RequestsSettle == <>[](\A q \in Requests : call[q] # "pending")
=============================================================================
