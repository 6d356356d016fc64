--------------------------- MODULE AppServerProofs ---------------------------
(***************************************************************************)
(* What the app server promises its clients, for every set of connections, *)
(* requests, turns, sub-agent runs and prompts, every queue cap and every  *)
(* order of their steps: a waiting prompt can be answered, what reaches a  *)
(* client is what it was owed, in order and without a gap, and a call that *)
(* waits has something left that will settle it.                           *)
(***************************************************************************)
EXTENDS AppServer, SequenceTheorems, TLAPS

-----------------------------------------------------------------------------
(* The books: runs, turns and prompts                                      *)

\* What the books are made of.
BookOK ==
  /\ phase \in [Runs -> Phases] /\ prompt \in [Prompts -> {"new", "waiting", "over"}]
  /\ toServer \in [Conns -> Seq(Requests)]
  /\ awaiting \subseteq {q \in Requests : Method[q] = "turn/start"}
  /\ \A r \in DOMAIN runToSession : r \in Runs /\ runToSession[r] = SessionOf[RootOf(r)]

\* A run that can still raise a prompt is known, as long as its session exists: a turn
\* at the latest when the await that started it is resolved.
TurnsKnown ==
  \A r \in Turns : phase[r] \in {"queued", "driving"} /\ SessionOf[r] \in exists =>
    Known(r) \/ \E q \in awaiting : Target[q] = r

\* A sub-agent run as soon as it drives.
SubsKnown ==
  \A d \in SubRuns : phase[d] = "driving" /\ SessionOf[ParentOf[d]] \in exists => Known(d)

\* Inductive: with it, a prompt that waits is registered (server.ts pendingPrompts).
BookInv == BookOK /\ TurnsKnown /\ SubsKnown /\ PromptsAnswerable

\* A turn is its own root, a sub-agent run hangs on its parent.
LEMMA Roots ==
  /\ \A r \in Turns : r \in Runs /\ r \notin SubRuns /\ RootOf(r) = r
  /\ \A d \in SubRuns :
       d \in Runs /\ d \notin Turns /\ RootOf(d) = ParentOf[d] /\ ParentOf[d] \in Turns
  /\ \A r \in Runs : RootOf(r) \in Turns
  /\ \A p \in Prompts : AskedBy[p] \in Runs
BY AppServerAssumption DEF Runs, RootOf

\* What an event leaves in the books.
LEMMA EventBooks ==
  ASSUME NEW k, NEW r, Publish(Event(k, r)), k \in {"entry", "delta", "tool"}
  PROVE  UNCHANGED <<runToSession, pending>>
<1> DEFINE m == Event(k, r)
<1>1. m.kind = k
  BY DEF Event
<1> HIDE DEF m
<1>2. Publish(m)
  BY DEF m
<1>3. CASE ~FindsSession(m)
  BY <1>2, <1>3 DEF Publish, bookVars
<1>4. CASE FindsSession(m)
  BY <1>1, <1>2, <1>4 DEF Publish, Cleared
<1> QED BY <1>3, <1>4

\* The start of a sub-agent run is tracked with its parent's session.
LEMMA StartBooks ==
  ASSUME NEW d \in SubRuns, Publish(Event("start", d))
  PROVE  /\ pending' = pending
         /\ Known(ParentOf[d]) => DOMAIN runToSession' = DOMAIN runToSession \cup {d}
         /\ DOMAIN runToSession \subseteq DOMAIN runToSession'
         /\ DOMAIN runToSession' \subseteq DOMAIN runToSession \cup {d}
         /\ \A r \in DOMAIN runToSession : runToSession'[r] = runToSession[r]
         /\ d \in DOMAIN runToSession' /\ d \notin DOMAIN runToSession =>
              runToSession'[d] = SessionOf[RootOf(d)]
<1> DEFINE m == Event("start", d)
<1>1. m.kind = "start" /\ m.run = d
  BY DEF Event
<1> HIDE DEF m
<1>2. Publish(m)
  BY DEF m
<1>3. CASE ~FindsSession(m)
  BY <1>1, <1>2, <1>3 DEF Publish, FindsSession, bookVars
<1>4. CASE FindsSession(m)
  <2>1. pending' = pending
    BY <1>1, <1>2, <1>4 DEF Publish
  <2>2. runToSession' = IF d \notin DOMAIN runToSession
                        THEN [r \in DOMAIN runToSession \cup {d} |->
                                IF r = d THEN SessionOf[RootOf(d)] ELSE runToSession[r]]
                        ELSE runToSession
    BY <1>1, <1>2, <1>4 DEF Publish, Cleared
  <2> QED BY <2>1, <2>2
<1> QED BY <1>3, <1>4

\* A prompt event registers its prompt, if its run is known.
LEMMA PromptBooks ==
  ASSUME NEW p \in Prompts, Publish([kind |-> "prompt", run |-> AskedBy[p], prompt |-> p])
  PROVE  /\ UNCHANGED runToSession /\ pending \subseteq pending'
         /\ Known(AskedBy[p]) => \E x \in pending' : x.id = p
<1> DEFINE m == [kind |-> "prompt", run |-> AskedBy[p], prompt |-> p]
<1>1. m.kind = "prompt" /\ m.run = AskedBy[p] /\ m.prompt = p
  OBVIOUS
<1> HIDE DEF m
<1>2. Publish(m)
  BY DEF m
<1>3. CASE ~FindsSession(m)
  BY <1>1, <1>2, <1>3 DEF Publish, FindsSession, bookVars
<1>4. CASE FindsSession(m)
  <2>1. UNCHANGED runToSession
    BY <1>1, <1>2, <1>4 DEF Publish, Cleared
  <2> DEFINE s == SessionOf[RootOf(AskedBy[p])]
             a == IF s \in DOMAIN sessionToAccount THEN sessionToAccount[s] ELSE NoAccount
  <2>2. pending' = pending \cup {[id |-> p, account |-> a]}
    BY <1>1, <1>2, <1>4 DEF Publish
  <2> HIDE DEF a
  <2>3. [id |-> p, account |-> a] \in pending' /\ [id |-> p, account |-> a].id = p
    BY <2>2
  <2>4. pending \subseteq pending'
    BY <2>2
  <2> QED BY <2>1, <2>3, <2>4
<1> QED BY <1>3, <1>4

\* The end of a turn takes its own run and its own prompts away, no others.
LEMMA FinishBooks ==
  ASSUME NEW t \in Turns, Publish(Event("finish", t))
  PROVE  /\ DOMAIN runToSession' \subseteq DOMAIN runToSession
         /\ \A r \in DOMAIN runToSession' : runToSession'[r] = runToSession[r]
         /\ \A r \in DOMAIN runToSession : r # t => r \in DOMAIN runToSession'
         /\ \A x \in pending : AskedBy[x.id] # t => x \in pending'
<1> DEFINE m == Event("finish", t)
<1>1. m.kind = "finish" /\ m.run = t
  BY DEF Event
<1> HIDE DEF m
<1>2. Publish(m)
  BY DEF m
<1>3. CASE ~FindsSession(m)
  BY <1>1, <1>2, <1>3 DEF Publish, FindsSession, bookVars
<1>4. CASE FindsSession(m)
  <2>1. runToSession' = [r \in DOMAIN runToSession \ {t} |-> runToSession[r]]
    BY <1>1, <1>2, <1>4 DEF Publish, Cleared
  <2>2. pending' = {x \in pending : AskedBy[x.id] # t}
    BY <1>1, <1>2, <1>4 DEF Publish
  <2> QED BY <2>1, <2>2
<1> QED BY <1>3, <1>4

\* What requests do to the books: a refusal and an answer leave them alone.
LEMMA HandleBooks ==
  ASSUME BookInv, NEW c \in Conns, Handle(c)
  PROVE  BookInv'
<1> DEFINE q == Head(toServer[c])
<1>1. /\ awaiting = {} /\ q \in Requests
      /\ toServer' \in [Conns -> Seq(Requests)]
  <2>1. toServer[c] \in Seq(Requests) /\ toServer[c] # <<>>
    BY DEF Handle, BookInv, BookOK
  <2>2. q \in Requests /\ Tail(toServer[c]) \in Seq(Requests)
    BY <2>1
  <2> QED BY <2>2 DEF Handle, Settled, BookInv, BookOK
<1>2. \/ Refuse(q) \/ Initialize(q) \/ TurnStart(q) \/ TurnInterrupt(q)
      \/ Respond(q) \/ Subscribe(q) \/ SessionDelete(q)
  BY DEF Handle
<1> HIDE DEF q
<1>3. ASSUME UNCHANGED <<hostVars, awaiting, bookVars>> PROVE BookInv'
  BY <1>1, <1>3 DEF BookInv, BookOK, TurnsKnown, SubsKnown, PromptsAnswerable,
        Known, Registered, hostVars, bookVars
<1>4. CASE Refuse(q) \/ Initialize(q) \/ Subscribe(q)
  BY <1>3, <1>4 DEF Refuse, Initialize, Subscribe, bookVars, hostVars
<1>5. CASE TurnStart(q)
  <2>1. CASE Refuse(q)
    BY <1>3, <2>1 DEF Refuse
  <2>2. CASE /\ phase' = [phase EXCEPT ![Target[q]] = "queued"]
             /\ awaiting' = awaiting \cup {q}
             /\ UNCHANGED <<exists, prompt, bookVars>>
             /\ Method[q] = "turn/start"
    <3>1. Target[q] \in Turns
      BY <1>1, <2>2, AppServerAssumption
    <3>2. BookOK'
      BY <1>1, <2>2, <3>1 DEF BookInv, BookOK, bookVars, Phases
    <3>3. TurnsKnown'
      BY <1>1, <2>2, <3>1, Roots DEF BookInv, BookOK, TurnsKnown, Known, bookVars
    <3>4. SubsKnown'
      BY <2>2, <3>1, Roots DEF BookInv, BookOK, SubsKnown, Known, bookVars
    <3>5. PromptsAnswerable'
      BY <2>2 DEF BookInv, PromptsAnswerable, Registered, bookVars
    <3> QED BY <3>2, <3>3, <3>4, <3>5 DEF BookInv
  <2> QED BY <1>5, <2>1, <2>2 DEF TurnStart
<1>6. CASE TurnInterrupt(q)
  <2>1. CASE Refuse(q)
    BY <1>3, <2>1 DEF Refuse
  <2>2. CASE /\ prompt' = [p \in Prompts |->
                              IF prompt[p] = "waiting" /\ RootOf(AskedBy[p]) = Target[q] THEN "over"
                              ELSE prompt[p]]
             /\ UNCHANGED <<exists, phase, awaiting, bookVars>>
    BY <1>1, <2>2 DEF BookInv, BookOK, TurnsKnown, SubsKnown, PromptsAnswerable,
        Known, Registered, bookVars
  <2> QED BY <1>6, <2>1, <2>2 DEF TurnInterrupt
<1>7. CASE Respond(q)
  <2> DEFINE p == Target[q]
  <2>1. CASE Refuse(q)
    BY <1>3, <2>1 DEF Refuse
  <2>2. CASE /\ Registered(p) /\ pending' = pending \ {ClaimOf(p)}
             /\ prompt' = [prompt EXCEPT ![p] = IF SessionOf[RootOf(AskedBy[p])] \in exists
                                                 THEN "over" ELSE @]
             /\ UNCHANGED <<exists, phase, awaiting, runToSession>>
             /\ Method[q] = "respond"
    <3>1. p \in Prompts
      BY <1>1, <2>2, AppServerAssumption
    <3>2. ClaimOf(p).id = p
      BY <2>2 DEF Registered, ClaimOf
    <3> HIDE DEF p
    <3>3. BookOK' /\ TurnsKnown' /\ SubsKnown'
      BY <1>1, <2>2, <3>1 DEF BookInv, BookOK, TurnsKnown, SubsKnown, Known
    <3>4. ASSUME NEW x \in Prompts, prompt'[x] = "waiting", SessionOf[RootOf(AskedBy[x])] \in exists
          PROVE  Registered(x)'
      <4>1. x # p /\ prompt[x] = "waiting"
        BY <2>2, <3>1, <3>4 DEF BookInv, BookOK
      <4>2. PICK y \in pending : y.id = x
        BY <3>4, <4>1 DEF BookInv, PromptsAnswerable, Registered
      <4>3. y \in pending'
        BY <2>2, <3>2, <4>1, <4>2
      <4> QED BY <4>2, <4>3 DEF Registered
    <3> QED BY <2>2, <3>3, <3>4 DEF BookInv, PromptsAnswerable
  <2> QED BY <1>7, <2>1, <2>2 DEF Respond
<1>8. CASE SessionDelete(q)
  <2> DEFINE s == Target[q]
             gone == {r \in DOMAIN runToSession : runToSession[r] = s}
  <2>1. CASE Refuse(q)
    BY <1>3, <2>1 DEF Refuse
  <2>2. CASE /\ exists' = exists \ {s}
             /\ runToSession' = [r \in DOMAIN runToSession \ gone |-> runToSession[r]]
             /\ pending' = {x \in pending : AskedBy[x.id] \notin gone}
             /\ UNCHANGED <<phase, prompt, awaiting>>
    <3>1. \A r \in DOMAIN runToSession : r \in Runs /\ runToSession[r] = SessionOf[RootOf(r)]
      BY DEF BookInv, BookOK
    <3>2. \A r \in DOMAIN runToSession : SessionOf[RootOf(r)] # s => r \in DOMAIN runToSession'
      BY <2>2, <3>1
    <3>3. BookOK'
      BY <1>1, <2>2, <3>1 DEF BookInv, BookOK
    <3>4. TurnsKnown' /\ SubsKnown'
      BY <2>2, <3>2, Roots DEF BookInv, TurnsKnown, SubsKnown, Known
    <3>5. ASSUME NEW x \in Prompts, prompt[x] = "waiting", SessionOf[RootOf(AskedBy[x])] \in exists \ {s}
          PROVE  Registered(x)'
      <4>1. PICK y \in pending : y.id = x
        BY <3>5 DEF BookInv, PromptsAnswerable, Registered
      <4>2. AskedBy[x] \notin gone
        BY <3>1, <3>5
      <4>3. y \in pending'
        BY <2>2, <4>1, <4>2
      <4> QED BY <4>1, <4>3 DEF Registered
    <3>6. PromptsAnswerable'
      BY <2>2, <3>5 DEF PromptsAnswerable
    <3> QED BY <3>3, <3>4, <3>6 DEF BookInv
  <2> QED BY <1>8, <2>1, <2>2 DEF SessionDelete
<1> QED BY <1>2, <1>4, <1>5, <1>6, <1>7, <1>8

\* What the host does, with the event it sends.
LEMMA HostBooks ==
  ASSUME BookInv, HostStep
  PROVE  BookInv'
<1> USE DEF BookInv
<1>0. UNCHANGED <<toServer, exists, awaiting>>
  BY DEF HostStep, Begin, Emit, Spawn, Raise, Finish, Told
<1>1. ASSUME NEW r \in Turns, Begin(r) PROVE BookInv'
  <2>1. UNCHANGED <<runToSession, pending, prompt>>
    BY <1>1, EventBooks DEF Begin, bookVars
  <2>2. /\ phase[r] = "queued"
        /\ phase' = [phase EXCEPT ![r] = "over"] \/ phase' = [phase EXCEPT ![r] = "driving"]
    BY <1>1 DEF Begin
  <2>3. BookOK'
    BY <1>0, <2>1, <2>2 DEF BookOK, Phases
  <2>4. TurnsKnown'
    BY <1>0, <2>1, <2>2, Roots DEF BookOK, TurnsKnown, Known
  <2>5. SubsKnown'
    BY <1>0, <2>1, <2>2, Roots DEF BookOK, SubsKnown, Known
  <2>6. PromptsAnswerable'
    BY <1>0, <2>1 DEF PromptsAnswerable, Registered
  <2> QED BY <2>3, <2>4, <2>5, <2>6
<1>2. ASSUME NEW r \in Runs, Emit(r) PROVE BookInv'
  <2>1. UNCHANGED <<runToSession, pending, prompt, phase>>
    BY <1>2, EventBooks DEF Emit
  <2> QED BY <1>0, <2>1 DEF BookOK, TurnsKnown, SubsKnown, PromptsAnswerable, Known, Registered
<1>3. ASSUME NEW d \in SubRuns, Spawn(d) PROVE BookInv'
  <2>1. /\ awaiting = {} /\ phase[ParentOf[d]] = "driving"
        /\ phase' = [phase EXCEPT ![d] = "driving"] /\ prompt' = prompt
        /\ Publish(Event("start", d))
    BY <1>3 DEF Spawn, Settled, DrivingTurn
  <2>2. SessionOf[ParentOf[d]] \in exists => Known(ParentOf[d])
    BY <2>1, Roots DEF TurnsKnown
  <2>3. BookOK'
    <3>1. phase' \in [Runs -> Phases]
      BY <2>1, Roots DEF BookOK, Phases
    <3>2. \A r \in DOMAIN runToSession' : r \in Runs /\ runToSession'[r] = SessionOf[RootOf(r)]
      <4>1. /\ DOMAIN runToSession' \subseteq DOMAIN runToSession \cup {d}
            /\ \A r \in DOMAIN runToSession : runToSession'[r] = runToSession[r]
            /\ d \in DOMAIN runToSession' /\ d \notin DOMAIN runToSession =>
                 runToSession'[d] = SessionOf[RootOf(d)]
        BY <2>1, StartBooks
      <4> QED BY <4>1, Roots DEF BookOK
    <3> QED BY <1>0, <2>1, <3>1, <3>2 DEF BookOK
  <2>4. TurnsKnown'
    BY <1>0, <2>1, StartBooks, Roots, ZenonT(40) DEF BookOK, TurnsKnown, Known
  <2>5. SubsKnown'
    <3>1. /\ Known(ParentOf[d]) => d \in DOMAIN runToSession'
          /\ DOMAIN runToSession \subseteq DOMAIN runToSession'
      BY <2>1, StartBooks
    <3>2. \A x \in SubRuns : x # d => phase'[x] = phase[x]
      BY <2>1 DEF BookOK
    <3> QED BY <1>0, <2>2, <3>1, <3>2 DEF SubsKnown, Known
  <2>6. PromptsAnswerable'
    BY <1>0, <2>1, StartBooks DEF PromptsAnswerable, Registered
  <2> QED BY <2>3, <2>4, <2>5, <2>6
<1>4. ASSUME NEW p \in Prompts, Raise(p) PROVE BookInv'
  <2>1. /\ awaiting = {} /\ Alive(AskedBy[p]) /\ phase' = phase
        /\ prompt' = [prompt EXCEPT ![p] = "waiting"]
        /\ Publish([kind |-> "prompt", run |-> AskedBy[p], prompt |-> p])
    BY <1>4 DEF Raise, Settled
  <2>2. SessionOf[RootOf(AskedBy[p])] \in exists => Known(AskedBy[p])
    <3>1. CASE AskedBy[p] \in SubRuns
      BY <2>1, <3>1, Roots DEF Alive, SubsKnown
    <3>2. CASE AskedBy[p] \in Turns
      BY <2>1, <3>2, Roots DEF Alive, DrivingTurn, TurnsKnown
    <3> QED BY <3>1, <3>2, Roots DEF Runs
  <2>3. UNCHANGED runToSession /\ pending \subseteq pending'
    BY <2>1, PromptBooks
  <2>4. Known(AskedBy[p]) => \E x \in pending' : x.id = p
    BY <2>1, PromptBooks
  <2>5. BookOK' /\ TurnsKnown' /\ SubsKnown'
    BY <1>0, <2>1, <2>3 DEF BookOK, TurnsKnown, SubsKnown, Known
  <2>6. ASSUME NEW y \in Prompts, prompt'[y] = "waiting", SessionOf[RootOf(AskedBy[y])] \in exists
        PROVE  Registered(y)'
    <3>1. CASE y = p
      BY <2>2, <2>4, <2>6, <3>1 DEF Registered
    <3>2. CASE y # p
      <4>1. prompt[y] = "waiting"
        BY <2>1, <2>6, <3>2 DEF BookOK
      <4> QED BY <2>3, <2>6, <4>1 DEF PromptsAnswerable, Registered
    <3> QED BY <3>1, <3>2
  <2> QED BY <1>0, <2>5, <2>6 DEF PromptsAnswerable
<1>5. ASSUME NEW t \in Turns, Finish(t) PROVE BookInv'
  <2>1. /\ \A p \in Prompts : RootOf(AskedBy[p]) = t => prompt[p] # "waiting"
        /\ phase' = [x \in Runs |-> IF RootOf(x) = t /\ phase[x] # "none" THEN "over" ELSE phase[x]]
        /\ prompt' = prompt /\ Publish(Event("finish", t)) /\ phase[t] = "driving"
    BY <1>5 DEF Finish, DrivingTurn
  <2>2. phase'[t] = "over" /\ \A r \in Runs : phase'[r] = phase[r] \/ phase'[r] = "over"
    BY <2>1, Roots
  <2>3. BookOK'
    <3>1. phase' \in [Runs -> Phases]
      BY <2>1 DEF BookOK, Phases
    <3> QED BY <1>0, <2>1, <3>1, FinishBooks DEF BookOK
  <2>4. TurnsKnown' /\ SubsKnown'
    BY <1>0, <2>1, <2>2, FinishBooks, Roots DEF TurnsKnown, SubsKnown, Known
  <2>5. ASSUME NEW y \in Prompts, prompt[y] = "waiting", SessionOf[RootOf(AskedBy[y])] \in exists
        PROVE  Registered(y)'
    <3>1. PICK x \in pending : x.id = y
      BY <2>5 DEF PromptsAnswerable, Registered
    <3>2. AskedBy[x.id] # t
      BY <2>1, <2>5, <3>1, Roots
    <3>3. x \in pending'
      BY <2>1, <3>2, FinishBooks
    <3> QED BY <3>1, <3>3 DEF Registered
  <2> QED BY <1>0, <2>1, <2>3, <2>4, <2>5 DEF PromptsAnswerable
<1> QED BY <1>1, <1>2, <1>3, <1>4, <1>5 DEF HostStep

\* The turn that a resolved await started is tracked.
LEMMA TrackBooks ==
  ASSUME BookInv, NEW q \in Requests, TurnStarted(q)
  PROVE  BookInv'
<1> DEFINE r == Target[q]
<1>1. /\ q \in awaiting /\ awaiting' = awaiting \ {q}
      /\ runToSession' = [x \in DOMAIN runToSession \cup {r} |->
                            IF x = r THEN SessionOf[r] ELSE runToSession[x]]
      /\ UNCHANGED <<toServer, exists, phase, prompt, pending>>
  BY DEF TurnStarted, Track, hostVars
<1>2. r \in Turns
  BY <1>1, AppServerAssumption DEF BookInv, BookOK
<1> HIDE DEF r
<1>3. r \in DOMAIN runToSession' /\ \A x \in DOMAIN runToSession : x \in DOMAIN runToSession'
  BY <1>1
<1>4. BookOK'
  BY <1>1, <1>2, Roots DEF BookInv, BookOK
<1>5. TurnsKnown' /\ SubsKnown'
  BY <1>1, <1>3 DEF BookInv, TurnsKnown, SubsKnown, Known, r
<1> QED BY <1>1, <1>4, <1>5 DEF BookInv, PromptsAnswerable, Registered

\* Every step keeps the books.
LEMMA BookStep ==
  ASSUME BookInv, [Next]_vars
  PROVE  BookInv'
<1>1. ASSUME UNCHANGED <<toServer, hostVars, awaiting, bookVars>> PROVE BookInv'
  BY <1>1 DEF BookInv, BookOK, TurnsKnown, SubsKnown, PromptsAnswerable,
        Known, Registered, hostVars, bookVars
<1>2. CASE ClientStep
  <2>1. UNCHANGED <<hostVars, awaiting, bookVars>>
    BY <1>2 DEF ClientStep
  <2>2. toServer' \in [Conns -> Seq(Requests)]
    <3>1. ASSUME NEW q \in Requests, Ask(q) PROVE toServer' \in [Conns -> Seq(Requests)]
      <4>1. ConnOf[q] \in Conns
        BY RpcAssumption
      <4>2. Append(toServer[ConnOf[q]], q) \in Seq(Requests)
        BY <4>1 DEF BookInv, BookOK
      <4>3. \/ toServer' = toServer
            \/ toServer' = [toServer EXCEPT ![ConnOf[q]] = Append(toServer[ConnOf[q]], q)]
        BY <3>1 DEF Ask
      <4> QED BY <4>1, <4>2, <4>3 DEF BookInv, BookOK
    <3>2. ASSUME NEW c \in Conns, Leave(c) \/ Break(c) PROVE toServer' \in [Conns -> Seq(Requests)]
      BY <3>2 DEF Leave, Break, BookInv, BookOK
    <3> QED BY <1>2, <3>1, <3>2 DEF ClientStep
  <2> QED BY <2>1, <2>2 DEF BookInv, BookOK, TurnsKnown, SubsKnown, PromptsAnswerable,
        Known, Registered, hostVars, bookVars
<1>3. CASE ClientReads
  BY <1>1, <1>3 DEF ClientReads, Receive, Lost
<1>4. ASSUME NEW c \in Conns, Drained(c) \/ ServerCloses(c) PROVE BookInv'
  BY <1>1, <1>4 DEF Drained, ServerCloses
<1>5. CASE UNCHANGED vars
  BY <1>1, <1>5 DEF vars, rpcVars
<1> QED
  BY <1>2, <1>3, <1>4, <1>5, HostBooks, HandleBooks, TrackBooks DEF Next, ServerStep

\* At first.
LEMMA BookInit ==
  Init => BookInv
<1> SUFFICES ASSUME Init PROVE BookInv
  OBVIOUS
<1>1. BookOK
  BY DEF Init, RpcInit, BookOK, Phases
<1> QED BY <1>1, Roots DEF Init, BookInv, TurnsKnown, SubsKnown, PromptsAnswerable

\* A prompt some call waits on can be answered over the protocol until an answer or an
\* abort ends the wait (server.ts handleHostEvent, trackRun, clearRun, claimPending).
THEOREM PromptsCanBeAnswered == Spec => []PromptsAnswerable
<1>1. Init => BookInv
  BY BookInit
<1>2. BookInv /\ [Next]_vars => BookInv'
  BY BookStep
<1>3. BookInv => PromptsAnswerable
  BY DEF BookInv
<1> QED BY <1>1, <1>2, <1>3, PTL DEF Spec

-----------------------------------------------------------------------------
(* The wires: what is on the way to a client                               *)

\* What travels to a client.
Frames == {Reply(q, ok) : q \in Requests, ok \in BOOLEAN} \cup {Delta} \cup {Notice(n) : n \in Nat}

\* The three kinds of frames exclude each other.
LEMMA FrameKinds ==
  /\ \A q, ok : ~IsNotice(Reply(q, ok)) /\ ~IsDelta(Reply(q, ok)) /\ IsReply(Reply(q, ok))
  /\ ~IsNotice(Delta) /\ IsDelta(Delta)
  /\ \A n : IsNotice(Notice(n)) /\ ~IsDelta(Notice(n)) /\ Notice(n).no = n
  /\ \A q \in Requests, ok \in BOOLEAN : Reply(q, ok) \in Frames
  /\ Delta \in Frames /\ \A n \in Nat : Notice(n) \in Frames
<1>1. \A q, ok : DOMAIN Reply(q, ok) = {"reply", "ok"}
  BY DEF Reply
<1>2. DOMAIN Delta = {"delta"}
  BY DEF Delta
<1>3. \A n : DOMAIN Notice(n) = {"no"} /\ Notice(n).no = n
  BY DEF Notice
<1> QED BY <1>1, <1>2, <1>3 DEF IsNotice, IsReply, IsDelta, Frames

\* InOrder, notice by notice.
LEMMA InOrderAt ==
  ASSUME NEW s, NEW a, NEW b
  PROVE  InOrder(s, a, b) <=>
           /\ \A i, j \in DOMAIN s : IsNotice(s[i]) /\ IsNotice(s[j]) /\ i < j => s[i].no < s[j].no
           /\ \A i \in DOMAIN s : IsNotice(s[i]) => s[i].no \in a + 1..b
           /\ \A n \in a + 1..b : \E i \in DOMAIN s : IsNotice(s[i]) /\ s[i].no = n
<1> DEFINE notices == {i \in DOMAIN s : IsNotice(s[i])}
           nos == {s[i].no : i \in notices}
<1>1. InOrder(s, a, b) <=>
        (\A i, j \in notices : i < j => s[i].no < s[j].no) /\ nos = a + 1..b
  BY DEF InOrder
<1>2. (\A i, j \in notices : i < j => s[i].no < s[j].no) <=>
        \A i, j \in DOMAIN s : IsNotice(s[i]) /\ IsNotice(s[j]) /\ i < j => s[i].no < s[j].no
  OBVIOUS
<1>3. nos = a + 1..b <=>
           /\ \A i \in DOMAIN s : IsNotice(s[i]) => s[i].no \in a + 1..b
           /\ \A n \in a + 1..b : \E i \in DOMAIN s : IsNotice(s[i]) /\ s[i].no = n
  OBVIOUS
<1> QED BY <1>1, <1>2, <1>3

\* No frame brings no notice.
LEMMA NothingInOrder ==
  ASSUME NEW a \in Nat, NEW b \in Nat
  PROVE  InOrder(<<>>, a, b) <=> b <= a
BY InOrderAt

\* A frame that is no notice changes nothing at the end ...
LEMMA PassesBy ==
  ASSUME NEW s \in Seq(Frames), NEW f \in Frames, NEW a \in Nat, NEW b \in Nat,
         ~IsNotice(f), InOrder(s, a, b)
  PROVE  InOrder(Append(s, f), a, b)
<1> DEFINE t == Append(s, f)
<1>1. /\ DOMAIN s = 1..Len(s) /\ DOMAIN t = 1..Len(s) + 1 /\ Len(s) \in Nat
      /\ \A i \in 1..Len(s) : t[i] = s[i]
      /\ t[Len(s) + 1] = f
  OBVIOUS
<1> HIDE DEF t
<1>2. \A i \in DOMAIN t : IsNotice(t[i]) => i \in DOMAIN s /\ t[i] = s[i]
  BY <1>1
<1>3. \A i \in DOMAIN s : i \in DOMAIN t /\ t[i] = s[i]
  BY <1>1
<1> QED BY <1>2, <1>3, InOrderAt DEF t

\* ... and the next notice extends the order.
LEMMA OneMore ==
  ASSUME NEW s \in Seq(Frames), NEW a \in Nat, NEW b \in Nat, a <= b, InOrder(s, a, b)
  PROVE  InOrder(Append(s, Notice(b + 1)), a, b + 1)
<1> DEFINE f == Notice(b + 1)
           t == Append(s, f)
<1>1. IsNotice(f) /\ f.no = b + 1 /\ f \in Frames
  BY FrameKinds
<1> HIDE DEF f
<1>2. /\ DOMAIN s = 1..Len(s) /\ DOMAIN t = 1..Len(s) + 1 /\ Len(s) \in Nat
      /\ \A i \in 1..Len(s) : t[i] = s[i]
      /\ t[Len(s) + 1] = f
  BY <1>1
<1> HIDE DEF t
<1>3. \A i \in DOMAIN s : IsNotice(s[i]) => s[i].no \in a + 1..b
  BY InOrderAt
<1>4. ASSUME NEW i \in DOMAIN t, NEW j \in DOMAIN t, IsNotice(t[i]), IsNotice(t[j]), i < j
      PROVE  t[i].no < t[j].no
  <2>1. i \in DOMAIN s /\ t[i] = s[i]
    BY <1>2, <1>4
  <2>2. CASE j \in DOMAIN s
    BY <1>2, <1>4, <2>1, <2>2, InOrderAt
  <2>3. CASE j = Len(s) + 1
    BY <1>1, <1>2, <1>3, <1>4, <2>1, <2>3
  <2> QED BY <1>2, <2>2, <2>3
<1>5. ASSUME NEW i \in DOMAIN t, IsNotice(t[i]) PROVE t[i].no \in a + 1..b + 1
  <2>1. CASE i \in DOMAIN s
    BY <1>2, <1>3, <1>5, <2>1
  <2>2. CASE i = Len(s) + 1
    BY <1>1, <1>2, <2>2
  <2> QED BY <1>2, <2>1, <2>2
<1>6. ASSUME NEW n \in a + 1..b + 1 PROVE \E i \in DOMAIN t : IsNotice(t[i]) /\ t[i].no = n
  <2>1. CASE n = b + 1
    BY <1>1, <1>2, <2>1
  <2>2. CASE n \in a + 1..b
    <3>1. PICK i \in DOMAIN s : IsNotice(s[i]) /\ s[i].no = n
      BY <2>2, InOrderAt
    <3> QED BY <1>2, <3>1
  <2> QED BY <1>6, <2>1, <2>2
<1> QED BY <1>4, <1>5, <1>6, InOrderAt DEF t, f

\* A sequence that is not empty, taken apart.
LEMMA TailAt ==
  ASSUME NEW s \in Seq(Frames), s # <<>>
  PROVE  /\ Head(s) = s[1] /\ Head(s) \in Frames /\ Tail(s) \in Seq(Frames)
         /\ Len(s) \in Nat \ {0} /\ DOMAIN s = 1..Len(s) /\ DOMAIN Tail(s) = 1..Len(s) - 1
         /\ \A i \in 1..Len(s) - 1 : Tail(s)[i] = s[i + 1]
OBVIOUS

\* A frame that is no notice changes nothing at the front ...
LEMMA HeadPasses ==
  ASSUME NEW s \in Seq(Frames), s # <<>>, NEW a \in Nat, NEW b \in Nat,
         ~IsNotice(Head(s)), InOrder(s, a, b)
  PROVE  InOrder(Tail(s), a, b)
<1> DEFINE t == Tail(s)
<1>1. /\ DOMAIN s = 1..Len(s) /\ DOMAIN t = 1..Len(s) - 1 /\ Len(s) \in Nat \ {0}
      /\ \A i \in 1..Len(s) - 1 : t[i] = s[i + 1]
      /\ ~IsNotice(s[1])
  BY TailAt
<1> HIDE DEF t
<1>2. ASSUME NEW i \in DOMAIN t, NEW j \in DOMAIN t, IsNotice(t[i]), IsNotice(t[j]), i < j
      PROVE  t[i].no < t[j].no
  <2>1. /\ i + 1 \in DOMAIN s /\ j + 1 \in DOMAIN s /\ i + 1 < j + 1
        /\ t[i] = s[i + 1] /\ t[j] = s[j + 1]
    BY <1>1, <1>2
  <2> QED BY <1>2, <2>1, InOrderAt
<1>3. ASSUME NEW i \in DOMAIN t, IsNotice(t[i]) PROVE t[i].no \in a + 1..b
  <2>1. i + 1 \in DOMAIN s /\ t[i] = s[i + 1]
    BY <1>1
  <2> QED BY <1>3, <2>1, InOrderAt
<1>4. ASSUME NEW n \in a + 1..b PROVE \E i \in DOMAIN t : IsNotice(t[i]) /\ t[i].no = n
  <2>1. PICK k \in DOMAIN s : IsNotice(s[k]) /\ s[k].no = n
    BY InOrderAt
  <2>2. k - 1 \in DOMAIN t /\ t[k - 1] = s[k]
    BY <1>1, <2>1
  <2> QED BY <2>1, <2>2
<1> QED BY <1>2, <1>3, <1>4, InOrderAt DEF t

\* ... and a notice there is the one that is due.
LEMMA HeadIsNext ==
  ASSUME NEW s \in Seq(Frames), s # <<>>, NEW a \in Nat, NEW b \in Nat,
         IsNotice(Head(s)), InOrder(s, a, b)
  PROVE  Head(s).no = a + 1 /\ a < b /\ InOrder(Tail(s), a + 1, b)
<1> DEFINE t == Tail(s)
<1>1. /\ DOMAIN s = 1..Len(s) /\ DOMAIN t = 1..Len(s) - 1 /\ Len(s) \in Nat \ {0}
      /\ \A i \in 1..Len(s) - 1 : t[i] = s[i + 1]
      /\ Head(s) = s[1] /\ IsNotice(s[1]) /\ 1 \in DOMAIN s
  BY TailAt
<1> HIDE DEF t
<1>2. s[1].no \in a + 1..b
  BY <1>1, InOrderAt
<1>3. \A j \in DOMAIN s : IsNotice(s[j]) /\ j # 1 => s[1].no < s[j].no /\ s[j].no \in a + 1..b
  BY <1>1, InOrderAt
<1>4. s[1].no = a + 1
  <2>1. PICK k \in DOMAIN s : IsNotice(s[k]) /\ s[k].no = a + 1
    BY <1>2, InOrderAt
  <2> QED BY <1>2, <1>3, <2>1
<1>5. ASSUME NEW i \in DOMAIN t, NEW j \in DOMAIN t, IsNotice(t[i]), IsNotice(t[j]), i < j
      PROVE  t[i].no < t[j].no
  <2>1. /\ i + 1 \in DOMAIN s /\ j + 1 \in DOMAIN s /\ i + 1 < j + 1
        /\ t[i] = s[i + 1] /\ t[j] = s[j + 1]
    BY <1>1, <1>5
  <2> QED BY <1>5, <2>1, InOrderAt
<1>6. ASSUME NEW i \in DOMAIN t, IsNotice(t[i]) PROVE t[i].no \in (a + 1) + 1..b
  <2>1. i + 1 \in DOMAIN s /\ t[i] = s[i + 1] /\ i + 1 # 1
    BY <1>1
  <2>2. s[1].no < t[i].no /\ t[i].no \in a + 1..b
    BY <1>3, <1>6, <2>1
  <2> QED BY <1>4, <2>2
<1>7. ASSUME NEW n \in (a + 1) + 1..b PROVE \E i \in DOMAIN t : IsNotice(t[i]) /\ t[i].no = n
  <2>1. PICK k \in DOMAIN s : IsNotice(s[k]) /\ s[k].no = n
    BY InOrderAt, SMTT(20)
  <2>2. k # 1
    BY <1>4, <2>1
  <2>3. k - 1 \in DOMAIN t /\ t[k - 1] = s[k]
    BY <1>1, <2>1, <2>2
  <2> QED BY <2>1, <2>3
<1>8. InOrder(t, a + 1, b)
  BY <1>5, <1>6, <1>7, InOrderAt
<1> QED BY <1>1, <1>2, <1>4, <1>8 DEF t

\* What is in order up to m, and then from m, is in order.
LEMMA JoinInOrder ==
  ASSUME NEW s \in Seq(Frames), NEW t \in Seq(Frames), NEW a \in Nat, NEW m \in Nat, NEW b \in Nat,
         a <= m, m <= b, InOrder(s, a, m), InOrder(t, m, b)
  PROVE  InOrder(s \o t, a, b)
<1> DEFINE u == s \o t
<1>1. /\ DOMAIN s = 1..Len(s) /\ DOMAIN t = 1..Len(t) /\ Len(s) \in Nat /\ Len(t) \in Nat
      /\ DOMAIN u = 1..Len(s) + Len(t)
      /\ \A i \in 1..Len(s) : u[i] = s[i]
      /\ \A i \in 1..Len(s) + Len(t) : i > Len(s) => u[i] = t[i - Len(s)]
  <2>1. u \in Seq(Frames) /\ Len(u) = Len(s) + Len(t)
    OBVIOUS
  <2> QED BY <2>1
<1> HIDE DEF u
<1>2. /\ \A i \in DOMAIN s : IsNotice(s[i]) => s[i].no \in a + 1..m
      /\ \A i \in DOMAIN t : IsNotice(t[i]) => t[i].no \in m + 1..b
  BY InOrderAt
<1>3. ASSUME NEW i \in DOMAIN u
      PROVE  \/ i \in DOMAIN s /\ u[i] = s[i]
             \/ i > Len(s) /\ i - Len(s) \in DOMAIN t /\ u[i] = t[i - Len(s)]
  BY <1>1
<1>4. ASSUME NEW i \in DOMAIN u, NEW j \in DOMAIN u, IsNotice(u[i]), IsNotice(u[j]), i < j
      PROVE  u[i].no < u[j].no
  <2>0. i \in Int /\ j \in Int
    BY <1>1
  <2>1. CASE i \in DOMAIN s /\ u[i] = s[i]
    <3>1. CASE j \in DOMAIN s /\ u[j] = s[j]
      BY <1>4, <2>1, <3>1, InOrderAt
    <3>2. CASE j - Len(s) \in DOMAIN t /\ u[j] = t[j - Len(s)]
      BY <1>2, <1>4, <2>1, <3>2
    <3> QED BY <1>3, <3>1, <3>2
  <2>2. CASE i > Len(s) /\ i - Len(s) \in DOMAIN t /\ u[i] = t[i - Len(s)]
    <3>1. j - Len(s) \in DOMAIN t /\ u[j] = t[j - Len(s)] /\ i - Len(s) < j - Len(s)
      BY <1>1, <1>4, <2>0, <2>2
    <3> QED BY <1>4, <2>2, <3>1, InOrderAt
  <2> QED BY <1>3, <2>1, <2>2
<1>5. ASSUME NEW i \in DOMAIN u, IsNotice(u[i]) PROVE u[i].no \in a + 1..b
  BY <1>2, <1>3, <1>5
<1>6. ASSUME NEW n \in a + 1..b PROVE \E i \in DOMAIN u : IsNotice(u[i]) /\ u[i].no = n
  <2>1. CASE n \in a + 1..m
    <3>1. PICK i \in DOMAIN s : IsNotice(s[i]) /\ s[i].no = n
      BY <2>1, InOrderAt
    <3>2. i \in DOMAIN u /\ u[i] = s[i]
      BY <1>1
    <3> QED BY <3>1, <3>2
  <2>2. CASE n \in m + 1..b
    <3>1. PICK i \in DOMAIN t : IsNotice(t[i]) /\ t[i].no = n
      BY <2>2, InOrderAt
    <3>2. Len(s) + i \in DOMAIN u /\ u[Len(s) + i] = t[i]
      BY <1>1
    <3> QED BY <3>1, <3>2
  <2> QED BY <1>6, <2>1, <2>2
<1> QED BY <1>4, <1>5, <1>6, InOrderAt DEF u

\* Of one connection: the notices on the wire are those after the last one seen up to some
\* mid, those in the queue of a registered connection the ones from there to the last owed.
WireAt(c) ==
  /\ toClient[c] \in Seq(Frames) /\ queue[c] \in Seq(Frames)
  /\ seen[c] \in Nat /\ owed[c] \in Nat
  /\ c \in flushing => c \in registered
  /\ c \notin flushing => queue[c] = <<>>
  /\ c \in open => \E mid \in seen[c]..owed[c] :
                     /\ InOrder(toClient[c], seen[c], mid)
                     /\ c \in registered => InOrder(queue[c], mid, owed[c])

\* Inductive: of all connections.
WireInv ==
  /\ toClient \in [Conns -> Seq(Frames)] /\ queue \in [Conns -> Seq(Frames)]
  /\ seen \in [Conns -> Nat] /\ owed \in [Conns -> Nat]
  /\ toServer \in [Conns -> Seq(Requests)]
  /\ awaiting \subseteq Requests /\ open \subseteq Conns /\ registered \subseteq Conns
  /\ \A c \in Conns : WireAt(c)

\* What enqueue does to one connection: it is not addressed, its frame leaves, queues or
\* closes it, or is lost, which of a registered connection only a delta is.
LEMMA EnqueueAt ==
  ASSUME WireInv, NEW frame, DOMAIN frame \subseteq Conns, Enqueue(frame), NEW c \in Conns
  PROVE  \/ /\ c \notin DOMAIN frame
            /\ toClient'[c] = toClient[c] /\ queue'[c] = queue[c]
            /\ c \in flushing' <=> c \in flushing
            /\ c \in registered' <=> c \in registered
         \/ /\ c \in DOMAIN frame /\ c \in registered /\ c \notin flushing
            /\ toClient'[c] = Append(toClient[c], frame[c]) /\ queue'[c] = queue[c]
            /\ c \in flushing' /\ c \in registered'
         \/ /\ c \in DOMAIN frame /\ c \in registered /\ c \in flushing
            /\ toClient'[c] = toClient[c] /\ queue'[c] = Append(queue[c], frame[c])
            /\ c \in flushing' /\ c \in registered'
         \/ /\ c \in DOMAIN frame /\ c \in registered
            /\ toClient'[c] = toClient[c] /\ queue'[c] = <<>>
            /\ c \notin flushing' /\ c \notin registered'
         \/ /\ c \in DOMAIN frame /\ (c \in registered => IsDelta(frame[c]))
            /\ toClient'[c] = toClient[c] /\ queue'[c] = queue[c]
            /\ c \in flushing' <=> c \in flushing
            /\ c \in registered' <=> c \in registered
<1> DEFINE fate == Fate(c, frame[c])
           in(f) == c \in DOMAIN frame /\ fate = f
<1>1. /\ toClient'[c] = IF in("leaves") THEN Append(toClient[c], frame[c]) ELSE toClient[c]
      /\ c \in flushing' <=> (c \in flushing \/ in("leaves")) /\ ~in("closes")
      /\ queue'[c] = IF in("closes") THEN <<>>
                     ELSE IF in("queues") THEN Append(queue[c], frame[c]) ELSE queue[c]
      /\ c \in registered' <=> c \in registered /\ ~in("closes")
  BY DEF Enqueue
<1>2. /\ fate \in {"leaves", "closes", "queues", "lost"}
      /\ fate = "leaves" => c \in registered /\ c \notin flushing
      /\ fate = "queues" => c \in registered /\ c \in flushing
      /\ fate = "closes" => c \in registered
      /\ fate = "lost" => (c \in registered => IsDelta(frame[c]))
  BY DEF Fate
<1> HIDE DEF fate
<1> QED BY <1>1, <1>2

\* The types that every enqueue leaves.
LEMMA EnqueueTypes ==
  ASSUME WireInv, NEW frame, DOMAIN frame \subseteq Conns, Enqueue(frame),
         \A c \in DOMAIN frame : frame[c] \in Frames
  PROVE  /\ toClient' \in [Conns -> Seq(Frames)] /\ queue' \in [Conns -> Seq(Frames)]
         /\ registered' \subseteq Conns
<1>1. ASSUME NEW c \in Conns PROVE toClient'[c] \in Seq(Frames) /\ queue'[c] \in Seq(Frames)
  <2>1. toClient[c] \in Seq(Frames) /\ queue[c] \in Seq(Frames)
    BY DEF WireInv
  <2>2. c \in DOMAIN frame =>
          /\ Append(toClient[c], frame[c]) \in Seq(Frames)
          /\ Append(queue[c], frame[c]) \in Seq(Frames)
    BY <2>1
  <2>3. <<>> \in Seq(Frames)
    OBVIOUS
  <2> QED BY EnqueueAt, <2>1, <2>2, <2>3
<1>2. DOMAIN toClient' = Conns /\ DOMAIN queue' = Conns
     /\ toClient' = [c \in Conns |-> toClient'[c]] /\ queue' = [c \in Conns |-> queue'[c]]
     /\ registered' \subseteq Conns
  BY DEF Enqueue, WireInv
<1> QED BY <1>1, <1>2

\* A connection that a step leaves alone.
LEMMA StaysAt ==
  ASSUME NEW c \in Conns, WireAt(c), toClient'[c] = toClient[c], queue'[c] = queue[c],
         seen'[c] = seen[c], owed'[c] = owed[c], c \in open' => c \in open,
         c \in flushing' <=> c \in flushing, c \in registered' <=> c \in registered
  PROVE  WireAt(c)'
BY DEF WireAt

\* Frames that are no notices.
LEMMA PassingAt ==
  ASSUME WireInv, NEW frame, DOMAIN frame \subseteq Conns, Enqueue(frame),
         \A c \in DOMAIN frame : frame[c] \in Frames /\ ~IsNotice(frame[c]),
         UNCHANGED <<open, seen, owed>>, NEW c \in Conns
  PROVE  WireAt(c)'
<1>1. WireAt(c)
  BY DEF WireInv
<1>2. CASE /\ c \in DOMAIN frame /\ c \in registered /\ c \notin flushing
           /\ toClient'[c] = Append(toClient[c], frame[c]) /\ queue'[c] = queue[c]
           /\ c \in flushing' /\ c \in registered'
  <2>1. Append(toClient[c], frame[c]) \in Seq(Frames)
    BY <1>1, <1>2 DEF WireAt
  <2>2. ASSUME c \in open
        PROVE \E mid \in seen[c]..owed[c] :
                     /\ InOrder(Append(toClient[c], frame[c]), seen[c], mid)
                     /\ InOrder(queue[c], mid, owed[c])
    <3>1. PICK mid \in seen[c]..owed[c] :
        /\ InOrder(toClient[c], seen[c], mid)
        /\ InOrder(queue[c], mid, owed[c])
      BY <1>1, <1>2, <2>2 DEF WireAt
    <3>2. mid \in Nat
      BY <1>1 DEF WireAt
    <3>3. InOrder(Append(toClient[c], frame[c]), seen[c], mid)
      BY <1>1, <1>2, <3>1, <3>2, PassesBy DEF WireAt
    <3> QED BY <3>1, <3>3
  <2> QED BY <1>1, <1>2, <2>1, <2>2 DEF WireAt
<1>3. CASE /\ c \in DOMAIN frame /\ c \in registered /\ c \in flushing
           /\ toClient'[c] = toClient[c] /\ queue'[c] = Append(queue[c], frame[c])
           /\ c \in flushing' /\ c \in registered'
  <2>1. Append(queue[c], frame[c]) \in Seq(Frames)
    BY <1>1, <1>3 DEF WireAt
  <2>2. ASSUME c \in open
        PROVE \E mid \in seen[c]..owed[c] :
                     /\ InOrder(toClient[c], seen[c], mid)
                     /\ InOrder(Append(queue[c], frame[c]), mid, owed[c])
    <3>1. PICK mid \in seen[c]..owed[c] :
        /\ InOrder(toClient[c], seen[c], mid)
        /\ InOrder(queue[c], mid, owed[c])
      BY <1>1, <1>3, <2>2 DEF WireAt
    <3>2. mid \in Nat
      BY <1>1 DEF WireAt
    <3>3. InOrder(Append(queue[c], frame[c]), mid, owed[c])
      BY <1>1, <1>3, <3>1, <3>2, PassesBy DEF WireAt
    <3> QED BY <3>1, <3>3
  <2> QED BY <1>1, <1>3, <2>1, <2>2 DEF WireAt
<1>4. CASE /\ toClient'[c] = toClient[c] /\ queue'[c] = <<>>
           /\ c \notin flushing' /\ c \notin registered'
  BY <1>1, <1>4 DEF WireAt
<1>5. CASE /\ toClient'[c] = toClient[c] /\ queue'[c] = queue[c]
           /\ c \in flushing' <=> c \in flushing
           /\ c \in registered' <=> c \in registered
  BY <1>1, <1>5, StaysAt
<1> QED BY EnqueueAt, <1>2, <1>3, <1>4, <1>5

\* Notices to the connections that are told, which are registered.
LEMMA NoticesAt ==
  ASSUME WireInv, NEW to \in SUBSET (registered \cap Conns),
         Enqueue([c \in to |-> Notice(owed[c] + 1)]),
         owed' = [c \in Conns |-> IF c \in to THEN owed[c] + 1 ELSE owed[c]],
         UNCHANGED <<open, seen>>, NEW c \in Conns
  PROVE  WireAt(c)'
<1> DEFINE frame == [x \in to |-> Notice(owed[x] + 1)]
           f == Notice(owed[c] + 1)
<1>1. WireAt(c) /\ owed[c] \in Nat /\ seen[c] \in Nat
  BY DEF WireInv, WireAt
<1>2. f \in Frames /\ IsNotice(f) /\ ~IsDelta(f)
  BY <1>1, FrameKinds
<1>3. DOMAIN frame = to /\ (c \in to => frame[c] = f) /\ Enqueue(frame)
  OBVIOUS
<1>4. c \in to => c \in registered /\ owed'[c] = owed[c] + 1
  OBVIOUS
<1>5. c \notin to => owed'[c] = owed[c]
  OBVIOUS
<1> HIDE DEF frame
<1>6. CASE /\ c \in to /\ c \notin flushing
           /\ toClient'[c] = Append(toClient[c], f) /\ queue'[c] = queue[c]
           /\ c \in flushing' /\ c \in registered'
  <2>1. Append(toClient[c], f) \in Seq(Frames)
    BY <1>1, <1>2 DEF WireAt
  <2>2. ASSUME c \in open
        PROVE /\ InOrder(Append(toClient[c], f), seen[c], owed[c] + 1)
              /\ InOrder(queue[c], owed[c] + 1, owed[c] + 1)
              /\ seen[c] <= owed[c]
    <3>1. PICK mid \in seen[c]..owed[c] :
        /\ InOrder(toClient[c], seen[c], mid)
        /\ InOrder(queue[c], mid, owed[c])
      BY <1>1, <1>4, <1>6, <2>2 DEF WireAt
    <3>2. mid \in Nat /\ queue[c] = <<>> /\ toClient[c] \in Seq(Frames)
      BY <1>1, <1>6 DEF WireAt
    <3>3. mid = owed[c]
      BY <1>1, <3>1, <3>2, NothingInOrder
    <3>4. seen[c] <= owed[c]
      BY <1>1, <3>1
    <3>5. InOrder(Append(toClient[c], f), seen[c], owed[c] + 1)
      BY <1>1, <3>1, <3>2, <3>3, <3>4, OneMore
    <3> QED BY <1>1, <3>2, <3>4, <3>5, NothingInOrder
  <2> QED BY <1>1, <1>4, <1>6, <2>1, <2>2 DEF WireAt
<1>7. CASE /\ c \in to /\ c \in flushing
           /\ toClient'[c] = toClient[c] /\ queue'[c] = Append(queue[c], f)
           /\ c \in flushing' /\ c \in registered'
  <2>1. Append(queue[c], f) \in Seq(Frames)
    BY <1>1, <1>2 DEF WireAt
  <2>2. ASSUME c \in open
        PROVE \E mid \in seen[c]..owed[c] + 1 :
                     /\ InOrder(toClient[c], seen[c], mid)
                     /\ InOrder(Append(queue[c], f), mid, owed[c] + 1)
    <3>1. PICK mid \in seen[c]..owed[c] :
        /\ InOrder(toClient[c], seen[c], mid)
        /\ InOrder(queue[c], mid, owed[c])
      BY <1>1, <1>4, <1>7, <2>2 DEF WireAt
    <3>2. mid \in Nat /\ mid <= owed[c] /\ queue[c] \in Seq(Frames)
      BY <1>1 DEF WireAt
    <3>3. InOrder(Append(queue[c], f), mid, owed[c] + 1)
      BY <1>1, <3>1, <3>2, OneMore
    <3> QED BY <1>1, <3>1, <3>2, <3>3
  <2> QED BY <1>1, <1>4, <1>7, <2>1, <2>2 DEF WireAt
<1>8. CASE /\ toClient'[c] = toClient[c] /\ queue'[c] = <<>>
           /\ c \notin flushing' /\ c \notin registered'
  <2>1. owed'[c] \in Nat /\ owed[c] <= owed'[c]
    BY <1>1, <1>4, <1>5
  <2> QED BY <1>1, <1>8, <2>1 DEF WireAt
<1>9. CASE /\ c \notin to /\ toClient'[c] = toClient[c] /\ queue'[c] = queue[c]
           /\ c \in flushing' <=> c \in flushing
           /\ c \in registered' <=> c \in registered
  BY <1>1, <1>5, <1>9, StaysAt
<1>10. DOMAIN frame \subseteq Conns
  BY <1>3
<1> QED BY <1>2, <1>3, <1>4, <1>6, <1>7, <1>8, <1>9, <1>10, EnqueueAt

\* A step that touches no wire.
LEMMA WiresStay ==
  ASSUME WireInv, UNCHANGED <<toClient, queue, seen, owed, flushing, registered>>,
         open' \subseteq open, toServer' \in [Conns -> Seq(Requests)], awaiting' \subseteq Requests
  PROVE  WireInv'
BY StaysAt DEF WireInv

\* Publish.
\* An event that is delivered (server.ts deliver), whatever the step that sends it.
LEMMA PublishWires ==
  ASSUME WireInv, NEW m, Publish(m),
         UNCHANGED <<open, toServer, seen, awaiting>>
  PROVE  WireInv'
<1>1. CASE ~FindsSession(m)
  BY <1>1, WiresStay DEF Publish, WireInv
<1>2. CASE FindsSession(m)
  <2> DEFINE to == Listeners(m)
             frame == [c \in to |-> IF m.kind = "delta" THEN Delta ELSE Notice(owed[c] + 1)]
  <2>1. /\ Enqueue(frame)
        /\ owed' = [c \in Conns |-> IF c \in to /\ m.kind # "delta" THEN owed[c] + 1 ELSE owed[c]]
    BY <1>2 DEF Publish
  <2>2. to \subseteq registered
    BY DEF Listeners
  <2>3. \A c \in Conns : owed[c] \in Nat
    BY DEF WireInv
  <2> HIDE DEF to
  <2>4. to \subseteq Conns
    BY <2>2 DEF WireInv
  <2>5. DOMAIN frame = to /\ \A c \in to : frame[c] \in Frames
    BY <2>3, <2>4, FrameKinds
  <2>6. /\ toClient' \in [Conns -> Seq(Frames)] /\ queue' \in [Conns -> Seq(Frames)]
        /\ registered' \subseteq Conns
    BY <2>1, <2>4, <2>5, EnqueueTypes
  <2>7. owed' \in [Conns -> Nat]
    BY <2>1, <2>3
  <2>8. ASSUME NEW c \in Conns PROVE WireAt(c)'
    <3>1. CASE m.kind = "delta"
      <4>1. \A x \in DOMAIN frame : frame[x] \in Frames /\ ~IsNotice(frame[x])
        BY <2>5, <3>1, FrameKinds
      <4>2. owed' = owed
        BY <2>1, <3>1 DEF WireInv
      <4> QED BY <2>1, <2>4, <2>5, <4>1, <4>2, PassingAt
    <3>2. CASE m.kind # "delta"
      <4>1. frame = [x \in to |-> Notice(owed[x] + 1)]
        BY <3>2
      <4>2. owed' = [x \in Conns |-> IF x \in to THEN owed[x] + 1 ELSE owed[x]]
        BY <2>1, <3>2
      <4>3. to \in SUBSET (registered \cap Conns)
        BY <2>2, <2>4
      <4> HIDE DEF frame
      <4> QED BY <2>1, <4>1, <4>2, <4>3, NoticesAt
    <3> QED BY <3>1, <3>2
  <2> QED BY <2>6, <2>7, <2>8 DEF WireInv
<1> QED BY <1>1, <1>2

\* A request that is answered or refused.
LEMMA AnswerWires ==
  ASSUME WireInv, NEW q \in Requests, NEW ok \in BOOLEAN, Answer(q, ok),
         UNCHANGED <<open, seen>>,
         toServer' \in [Conns -> Seq(Requests)], awaiting' \subseteq Requests
  PROVE  WireInv'
<1> DEFINE frame == [c \in {ConnOf[q]} |-> Reply(q, ok)]
<1>1. Enqueue(frame) /\ owed' = owed /\ DOMAIN frame \subseteq Conns
  BY RpcAssumption DEF Answer
<1>2. \A c \in DOMAIN frame : frame[c] \in Frames /\ ~IsNotice(frame[c])
  BY FrameKinds
<1> HIDE DEF frame
<1>3. \A c \in Conns : WireAt(c)'
  BY <1>1, <1>2, PassingAt
<1>4. /\ toClient' \in [Conns -> Seq(Frames)] /\ queue' \in [Conns -> Seq(Frames)]
      /\ registered' \subseteq Conns
  BY <1>1, <1>2, EnqueueTypes
<1> QED BY <1>1, <1>3, <1>4 DEF WireInv

\* flush: the next frame of the queue leaves.
LEMMA DrainedWires ==
  ASSUME WireInv, NEW c \in Conns, Drained(c)
  PROVE  WireInv'
<1>1. /\ c \in flushing /\ UNCHANGED <<open, toServer, seen, awaiting, registered, owed>>
      /\ toClient[c] \in Seq(Frames) /\ queue[c] \in Seq(Frames) /\ seen[c] \in Nat /\ owed[c] \in Nat
      /\ WireAt(c) /\ c \in registered
  BY DEF Drained, WireInv, WireAt
<1>2. CASE queue[c] = <<>>
  <2>1. flushing' = flushing \ {c} /\ UNCHANGED <<queue, toClient>>
    BY <1>2 DEF Drained
  <2>2. ASSUME NEW x \in Conns PROVE WireAt(x)'
    <3>1. CASE x = c
      BY <1>1, <1>2, <2>1, <3>1 DEF WireAt
    <3>2. CASE x # c
      BY <1>1, <2>1, <3>2, StaysAt DEF WireInv
    <3> QED BY <3>1, <3>2
  <2> QED BY <1>1, <2>1, <2>2 DEF WireInv
<1>3. CASE queue[c] # <<>>
  <2> DEFINE f == Head(queue[c])
  <2>1. /\ toClient' = [toClient EXCEPT ![c] = Append(toClient[c], f)]
        /\ queue' = [queue EXCEPT ![c] = Tail(queue[c])] /\ flushing' = flushing
    BY <1>3 DEF Drained
  <2>2. f \in Frames /\ Tail(queue[c]) \in Seq(Frames)
    BY <1>1, <1>3, TailAt
  <2>3. Append(toClient[c], f) \in Seq(Frames)
    BY <1>1, <2>2
  <2>4. toClient' \in [Conns -> Seq(Frames)] /\ queue' \in [Conns -> Seq(Frames)]
    BY <2>1, <2>2, <2>3 DEF WireInv
  <2>5. toClient'[c] = Append(toClient[c], f) /\ queue'[c] = Tail(queue[c])
    BY <2>1 DEF WireInv
  <2>6. ASSUME c \in open
        PROVE \E mid \in seen[c]..owed[c] :
                /\ InOrder(Append(toClient[c], f), seen[c], mid)
                /\ InOrder(Tail(queue[c]), mid, owed[c])
    <3>1. PICK mid \in seen[c]..owed[c] :
        /\ InOrder(toClient[c], seen[c], mid)
        /\ InOrder(queue[c], mid, owed[c])
      BY <1>1, <2>6 DEF WireAt
    <3>2. mid \in Nat /\ seen[c] <= mid
      BY <1>1
    <3>3. CASE ~IsNotice(f)
      <4>1. InOrder(Append(toClient[c], f), seen[c], mid)
        BY <1>1, <2>2, <3>1, <3>2, <3>3, PassesBy
      <4>2. InOrder(Tail(queue[c]), mid, owed[c])
        BY <1>1, <1>3, <3>1, <3>2, <3>3, HeadPasses
      <4> QED BY <3>1, <4>1, <4>2
    <3>4. CASE IsNotice(f)
      <4>1. f.no = mid + 1 /\ mid < owed[c] /\ InOrder(Tail(queue[c]), mid + 1, owed[c])
        BY <1>1, <1>3, <3>1, <3>2, <3>4, HeadIsNext
      <4>2. f = Notice(mid + 1)
        BY <2>2, <3>4, <4>1, FrameKinds DEF Frames
      <4>3. InOrder(Append(toClient[c], f), seen[c], mid + 1)
        BY <1>1, <3>1, <3>2, <4>2, OneMore
      <4>4. mid + 1 \in seen[c]..owed[c]
        BY <1>1, <3>2, <4>1
      <4> QED BY <4>1, <4>3, <4>4
    <3> QED BY <3>3, <3>4
  <2> HIDE DEF f
  <2>7. ASSUME NEW x \in Conns PROVE WireAt(x)'
    <3>1. CASE x = c
      BY <1>1, <2>1, <2>2, <2>3, <2>5, <2>6, <3>1 DEF WireAt
    <3>2. CASE x # c
      BY <1>1, <2>1, <3>2, StaysAt DEF WireInv
    <3> QED BY <3>1, <3>2
  <2> QED BY <1>1, <2>4, <2>7 DEF WireInv
<1> QED BY <1>2, <1>3

\* close: the queue goes, and with it the connection.
LEMMA ClosesWires ==
  ASSUME WireInv, NEW c \in Conns, ServerCloses(c)
  PROVE  WireInv'
<1>1. /\ registered' = registered \ {c} /\ flushing' = flushing \ {c}
      /\ queue' = [queue EXCEPT ![c] = <<>>]
      /\ UNCHANGED <<open, toServer, toClient, seen, awaiting, owed>>
  BY DEF ServerCloses
<1>2. queue' \in [Conns -> Seq(Frames)] /\ queue'[c] = <<>>
  BY <1>1 DEF WireInv
<1>3. ASSUME NEW x \in Conns PROVE WireAt(x)'
  <2>1. CASE x = c
    BY <1>1, <1>2, <2>1 DEF WireInv, WireAt
  <2>2. CASE x # c
    BY <1>1, <2>2, StaysAt DEF WireInv
  <2> QED BY <2>1, <2>2
<1> QED BY <1>1, <1>2, <1>3 DEF WireInv

\* The client takes the next frame (client.ts handle).
LEMMA ReceiveWires ==
  ASSUME WireInv, NEW c \in Conns, Receive(c),
         UNCHANGED <<queue, owed, flushing, registered, awaiting>>
  PROVE  WireInv'
<1> DEFINE m == Head(toClient[c])
<1>1. /\ toClient[c] # <<>> /\ toClient' = [toClient EXCEPT ![c] = Tail(toClient[c])]
      /\ UNCHANGED <<open, toServer>> /\ c \in open
      /\ toClient[c] \in Seq(Frames) /\ seen[c] \in Nat /\ owed[c] \in Nat /\ WireAt(c)
  BY DEF Receive, WireInv
<1>2. seen' = [seen EXCEPT ![c] = IF IsNotice(m) THEN m.no ELSE seen[c]]
  BY DEF Receive, IsNotice, WireInv
<1>3. m \in Frames /\ Tail(toClient[c]) \in Seq(Frames)
  BY <1>1, TailAt
<1>4. PICK mid \in seen[c]..owed[c] :
        /\ InOrder(toClient[c], seen[c], mid)
        /\ c \in registered => InOrder(queue[c], mid, owed[c])
  BY <1>1 DEF WireAt
<1>5. mid \in Nat
  BY <1>1
<1>6. \E next \in seen[c]..mid :
        seen'[c] = next /\ InOrder(Tail(toClient[c]), next, mid)
  <2>1. CASE ~IsNotice(m)
    <3>1. seen'[c] = seen[c] /\ InOrder(Tail(toClient[c]), seen[c], mid)
      BY <1>1, <1>2, <1>4, <1>5, <2>1, HeadPasses DEF WireInv
    <3> QED BY <1>1, <1>4, <3>1
  <2>2. CASE IsNotice(m)
    <3>1. m.no = seen[c] + 1 /\ seen[c] < mid /\ InOrder(Tail(toClient[c]), seen[c] + 1, mid)
      BY <1>1, <1>4, <1>5, <2>2, HeadIsNext
    <3>2. seen'[c] = seen[c] + 1
      BY <1>2, <2>2, <3>1 DEF WireInv
    <3> QED BY <1>1, <1>5, <3>1, <3>2
  <2> QED BY <2>1, <2>2
<1> HIDE DEF m
<1>7. seen'[c] \in Nat /\ mid \in seen'[c]..owed[c] /\ InOrder(Tail(toClient[c]), seen'[c], mid)
  BY <1>1, <1>4, <1>5, <1>6
<1>8. /\ toClient' \in [Conns -> Seq(Frames)] /\ toClient'[c] = Tail(toClient[c])
      /\ seen' \in [Conns -> Nat]
  <2>1. \A v : seen' = [seen EXCEPT ![c] = v] => seen'[c] = v
    BY DEF WireInv
  <2>2. seen' = [seen EXCEPT ![c] = seen'[c]]
    BY <1>2, <2>1
  <2> QED BY <1>1, <1>3, <1>7, <2>2 DEF WireInv
<1>9. ASSUME NEW x \in Conns PROVE WireAt(x)'
  <2>1. CASE x = c
    BY <1>1, <1>3, <1>4, <1>7, <1>8, <2>1 DEF WireAt
  <2>2. CASE x # c
    BY <1>1, <1>2, <2>2, StaysAt DEF WireInv
  <2> QED BY <2>1, <2>2
<1> QED BY <1>1, <1>8, <1>9 DEF WireInv

\* handleDisconnect, close.
LEMMA GoneWires ==
  ASSUME WireInv, NEW c \in Conns, Lost(c) \/ Leave(c),
         UNCHANGED <<queue, owed, flushing, registered, awaiting>>
  PROVE  WireInv'
<1>1. /\ open' = open \ {c} /\ toClient' = [toClient EXCEPT ![c] = <<>>]
      /\ UNCHANGED <<toServer, seen>>
  BY DEF Lost, Leave
<1>2. toClient' \in [Conns -> Seq(Frames)] /\ toClient'[c] = <<>>
  BY <1>1 DEF WireInv
<1>3. ASSUME NEW x \in Conns PROVE WireAt(x)'
  <2>1. CASE x = c
    BY <1>1, <1>2, <2>1 DEF WireInv, WireAt
  <2>2. CASE x # c
    BY <1>1, <2>2, StaysAt DEF WireInv
  <2> QED BY <2>1, <2>2
<1> QED BY <1>1, <1>2, <1>3 DEF WireInv

\* Every request.
LEMMA HandleWires ==
  ASSUME WireInv, NEW c \in Conns, Handle(c)
  PROVE  WireInv'
<1> DEFINE q == Head(toServer[c])
<1>1. /\ q \in Requests /\ toServer' \in [Conns -> Seq(Requests)] /\ UNCHANGED <<open, seen>>
  <2>1. toServer[c] \in Seq(Requests) /\ toServer[c] # <<>>
    BY DEF Handle, WireInv
  <2>2. q \in Requests /\ Tail(toServer[c]) \in Seq(Requests)
    BY <2>1
  <2> QED BY <2>2 DEF Handle, WireInv
<1>2. \/ Refuse(q) \/ Initialize(q) \/ TurnStart(q) \/ TurnInterrupt(q)
      \/ Respond(q) \/ Subscribe(q) \/ SessionDelete(q)
  BY DEF Handle
<1> HIDE DEF q
<1>3. CASE UNCHANGED awaiting /\ \E ok \in BOOLEAN : Answer(q, ok)
  BY <1>1, <1>3, AnswerWires DEF WireInv
<1>4. CASE Refuse(q)
  BY <1>3, <1>4 DEF Refuse
<1>5. CASE TurnStart(q)
  <2>1. CASE Refuse(q)
    BY <1>4, <2>1
  <2>2. CASE awaiting' = awaiting \cup {q} /\ UNCHANGED <<connVars, wireVars>>
    BY <1>1, <2>2, WiresStay DEF WireInv, connVars, wireVars
  <2> QED BY <1>5, <2>1, <2>2 DEF TurnStart
<1>6. CASE Initialize(q)
  BY <1>3, <1>4, <1>6 DEF Initialize
<1>7. CASE TurnInterrupt(q)
  BY <1>3, <1>4, <1>7 DEF TurnInterrupt
<1>8. CASE Respond(q)
  BY <1>3, <1>4, <1>8 DEF Respond
<1>9. CASE Subscribe(q)
  BY <1>3, <1>4, <1>9 DEF Subscribe
<1>10. CASE SessionDelete(q)
  BY <1>3, <1>4, <1>10 DEF SessionDelete
<1> QED BY <1>2, <1>4, <1>5, <1>6, <1>7, <1>8, <1>9, <1>10

\* Everything the host does.
LEMMA HostWires ==
  ASSUME WireInv, HostStep
  PROVE  WireInv'
<1>0. UNCHANGED <<open, toServer, seen, awaiting>>
  BY DEF HostStep, Begin, Emit, Spawn, Raise, Finish, Told
<1>1. CASE UNCHANGED <<toClient, registered, queue, flushing, owed>>
  BY <1>0, <1>1, WiresStay DEF WireInv
<1>2. CASE \E m : Publish(m)
  BY <1>0, <1>2, PublishWires
<1>3. ASSUME NEW r \in Turns, Begin(r) PROVE WireInv'
  BY <1>1, <1>2, <1>3 DEF Begin
<1>4. ASSUME NEW r \in Runs, Emit(r) PROVE WireInv'
  BY <1>2, <1>4 DEF Emit
<1>5. ASSUME NEW d \in SubRuns, Spawn(d) PROVE WireInv'
  BY <1>2, <1>5 DEF Spawn
<1>6. ASSUME NEW p \in Prompts, Raise(p) PROVE WireInv'
  BY <1>2, <1>6 DEF Raise
<1>7. ASSUME NEW r \in Turns, Finish(r) PROVE WireInv'
  BY <1>2, <1>7 DEF Finish
<1> QED BY <1>3, <1>4, <1>5, <1>6, <1>7 DEF HostStep

\* Every step keeps the wires.
LEMMA WireStep ==
  ASSUME WireInv, [Next]_vars
  PROVE  WireInv'
<1>1. CASE ClientStep
  <2>1. UNCHANGED <<queue, owed, flushing, registered, awaiting>>
    BY <1>1 DEF ClientStep, connVars
  <2>2. ASSUME NEW q \in Requests, Ask(q) PROVE WireInv'
    <3>1. ConnOf[q] \in Conns /\ UNCHANGED <<toClient, seen, open>>
      BY <2>2, RpcAssumption DEF Ask
    <3>2. Append(toServer[ConnOf[q]], q) \in Seq(Requests)
      BY <3>1 DEF WireInv
    <3>3. \/ toServer' = toServer
          \/ toServer' = [toServer EXCEPT ![ConnOf[q]] = Append(toServer[ConnOf[q]], q)]
      BY <2>2 DEF Ask
    <3>4. toServer' \in [Conns -> Seq(Requests)]
      BY <3>1, <3>2, <3>3 DEF WireInv
    <3> QED BY <2>1, <3>1, <3>4, WiresStay DEF WireInv
  <2>3. ASSUME NEW c \in Conns, Leave(c) PROVE WireInv'
    BY <2>1, <2>3, GoneWires
  <2>4. ASSUME NEW c \in Conns, Break(c) PROVE WireInv'
    BY <2>1, <2>4, WiresStay DEF Break, WireInv
  <2> QED BY <1>1, <2>2, <2>3, <2>4 DEF ClientStep
<1>2. CASE ClientReads
  <2>1. UNCHANGED <<queue, owed, flushing, registered, awaiting>>
    BY <1>2 DEF ClientReads, connVars
  <2> QED BY <1>2, <2>1, ReceiveWires, GoneWires DEF ClientReads
<1>3. CASE HostStep
  BY <1>3, HostWires
<1>4. ASSUME NEW q \in Requests, TurnStarted(q) PROVE WireInv'
  BY <1>4, AnswerWires DEF TurnStarted, WireInv
<1>5. ASSUME NEW c \in Conns, Handle(c) \/ Drained(c) \/ ServerCloses(c) PROVE WireInv'
  BY <1>5, HandleWires, DrainedWires, ClosesWires
<1>6. CASE UNCHANGED vars
  BY <1>6, WiresStay DEF vars, rpcVars, connVars, WireInv
<1> QED BY <1>1, <1>2, <1>3, <1>4, <1>5, <1>6 DEF Next, ServerStep

\* At first.
LEMMA WireInit ==
  Init => WireInv
<1> SUFFICES ASSUME Init PROVE WireInv
  OBVIOUS
<1>1. <<>> \in Seq(Frames) /\ <<>> \in Seq(Requests) /\ InOrder(<<>>, 0, 0)
  BY NothingInOrder
<1>2. ASSUME NEW c \in Conns PROVE WireAt(c)
  BY <1>1 DEF Init, RpcInit, WireAt
<1> QED BY <1>1, <1>2 DEF Init, RpcInit, WireInv

\* What reaches a client is what it was owed, in order and without a gap: a full queue
\* costs deltas, or the connection, never a message in the middle (server.ts enqueue,
\* flush, close; node.ts sendToSocket).
THEOREM NothingIsMissing == Spec => []NoGap
<1>1. Init => WireInv
  BY WireInit
<1>2. WireInv /\ [Next]_vars => WireInv'
  BY WireStep
<1>3. WireInv => NoGap
  <2> SUFFICES ASSUME WireInv, NEW c \in open
               PROVE  \E last \in seen[c]..owed[c] :
                        /\ InOrder(toClient[c] \o queue[c], seen[c], last)
                        /\ c \in registered => last = owed[c]
    BY DEF NoGap
  <2>1. /\ toClient[c] \in Seq(Frames) /\ queue[c] \in Seq(Frames)
        /\ seen[c] \in Nat /\ owed[c] \in Nat /\ WireAt(c)
    BY DEF WireInv
  <2>2. PICK mid \in seen[c]..owed[c] :
          /\ InOrder(toClient[c], seen[c], mid)
          /\ c \in registered => InOrder(queue[c], mid, owed[c])
    BY <2>1 DEF WireAt
  <2>3. mid \in Nat /\ seen[c] <= mid /\ mid <= owed[c]
    BY <2>1
  <2>4. CASE c \in registered
    <3>1. InOrder(toClient[c] \o queue[c], seen[c], owed[c])
      BY <2>1, <2>2, <2>3, <2>4, JoinInOrder
    <3> QED BY <2>1, <2>3, <2>4, <3>1
  <2>5. CASE c \notin registered
    <3>1. queue[c] = <<>>
      BY <2>1, <2>5 DEF WireAt
    <3>2. InOrder(toClient[c] \o queue[c], seen[c], mid)
      BY <2>1, <2>2, <2>3, <3>1, NothingInOrder, JoinInOrder
    <3> QED BY <2>5, <3>2
  <2> QED BY <2>4, <2>5
<1> QED BY <1>1, <1>2, <1>3, PTL DEF Spec

-----------------------------------------------------------------------------
(* Types                                                                   *)

\* What sessions are tracked under.
Accounts == {Account[c] : c \in Conns} \cup {NoAccount}
\* The types of what the clients, the books and the queues keep.
CallOK == call \in [Requests -> {"new", "pending", "resolved", "rejected"}]
\* Of the lists, with the accounts of sessions.
ListsOK ==
  /\ activeTurns \in [Sessions -> Turns \cup {NoTurn}] /\ pending \subseteq Claimable
  /\ \A s \in DOMAIN sessionToAccount : sessionToAccount[s] \in Accounts
\* Of the links and queues.
QueuesOK == link \cup flushing \subseteq Conns /\ \A c \in Conns : Len(queue[c]) <= MaxQueue

\* Inductive: the books and the wires are in it, for the targets and frames they type.
TypeInv == BookInv /\ WireInv /\ CallOK /\ ListsOK /\ QueuesOK

\* The parts make the type invariant.
LEMMA TypeParts ==
  BookInv /\ WireInv /\ CallOK /\ ListsOK /\ QueuesOK => AppTypeOK
<1> SUFFICES ASSUME BookInv, WireInv, CallOK, ListsOK, QueuesOK PROVE AppTypeOK
  OBVIOUS
<1>1. /\ open \subseteq Conns /\ registered \subseteq Conns
      /\ phase \in [Runs -> Phases] /\ prompt \in [Prompts -> {"new", "waiting", "over"}]
      /\ DOMAIN runToSession \subseteq Runs
  BY DEF BookInv, BookOK, WireInv
<1>2. \A c \in Conns : (c \in flushing => c \in registered) /\ (queue[c] # <<>> => c \in flushing)
  BY DEF WireInv, WireAt
<1> QED BY <1>1, <1>2 DEF CallOK, ListsOK, QueuesOK, AppTypeOK

\* enqueue keeps the cap of every queue.
LEMMA EnqueueQueues ==
  ASSUME WireInv, QueuesOK, NEW frame, Enqueue(frame), DOMAIN frame \subseteq Conns
  PROVE  QueuesOK'
<1>1. link' \cup flushing' \subseteq Conns
  BY DEF Enqueue, QueuesOK
<1>2. ASSUME NEW c \in Conns PROVE Len(queue'[c]) <= MaxQueue
  <2>1. \/ queue'[c] \in {queue[c], <<>>}
        \/ queue'[c] = Append(queue[c], frame[c]) /\ Len(queue[c]) < MaxQueue
    BY DEF Enqueue, Fate
  <2>2. queue[c] \in Seq(Frames) /\ Len(queue[c]) <= MaxQueue /\ Len(queue[c]) \in Nat
    BY DEF WireInv, QueuesOK
  <2>3. queue'[c] = <<>> => Len(queue'[c]) = 0
    OBVIOUS
  <2>4. queue'[c] = Append(queue[c], frame[c]) => Len(queue'[c]) = Len(queue[c]) + 1
    BY <2>2
  <2> QED BY <2>1, <2>2, <2>3, <2>4, AppServerAssumption
<1> QED BY <1>1, <1>2 DEF QueuesOK

\* A delivered event.
LEMMA PublishTypes ==
  ASSUME BookInv, WireInv, ListsOK, QueuesOK, NEW m, Publish(m),
         m.kind = "prompt" => m.prompt \in Prompts
  PROVE  ListsOK' /\ QueuesOK'
<1>1. CASE ~FindsSession(m)
  BY <1>1 DEF Publish, bookVars, ListsOK, QueuesOK
<1>2. CASE FindsSession(m)
  <2> DEFINE s == SessionOf[RootOf(m.run)]
             acc == IF s \in DOMAIN sessionToAccount THEN sessionToAccount[s] ELSE NoAccount
             frame == [c \in Listeners(m) |-> IF m.kind = "delta" THEN Delta ELSE Notice(owed[c] + 1)]
  <2>1. Enqueue(frame) /\ DOMAIN frame \subseteq Conns
    BY <1>2 DEF Publish, Listeners, WireInv
  <2>2. QueuesOK'
    BY <2>1, EnqueueQueues
  <2>3. acc \in Accounts
    BY DEF ListsOK, Accounts
  <2>4. activeTurns' \in [Sessions -> Turns \cup {NoTurn}]
    BY <1>2 DEF Publish, Cleared, ListsOK
  <2>5. pending' = IF m.kind = "prompt" THEN pending \cup {[id |-> m.prompt, account |-> acc]}
                   ELSE IF m.kind = "finish" THEN {x \in pending : AskedBy[x.id] # m.run}
                   ELSE pending
    BY <1>2 DEF Publish
  <2>6. sessionToAccount' =
                IF m.kind = "start" /\ s \notin DOMAIN sessionToAccount
                THEN [x \in DOMAIN sessionToAccount \cup {s} |->
                        IF x = s THEN acc ELSE sessionToAccount[x]]
                ELSE sessionToAccount
    BY <1>2 DEF Publish
  <2> HIDE DEF acc, s
  <2>7. m.kind = "prompt" => [id |-> m.prompt, account |-> acc] \in Claimable
    BY <2>3 DEF Claimable, Accounts
  <2>8. pending' \subseteq Claimable
    BY <2>5, <2>7 DEF ListsOK
  <2>9. \A x \in DOMAIN sessionToAccount' : sessionToAccount'[x] \in Accounts
    BY <2>3, <2>6 DEF ListsOK
  <2> QED BY <2>2, <2>4, <2>8, <2>9 DEF ListsOK
<1> QED BY <1>1, <1>2

\* An answer.
LEMMA AnswerQueues ==
  ASSUME WireInv, QueuesOK, NEW q \in Requests, NEW ok, Answer(q, ok)
  PROVE  QueuesOK'
BY EnqueueQueues, RpcAssumption DEF Answer

\* Every request ...
LEMMA HandleTypes ==
  ASSUME BookInv, WireInv, ListsOK, QueuesOK, NEW c \in Conns, Handle(c)
  PROVE  ListsOK' /\ QueuesOK'
<1> DEFINE q == Head(toServer[c])
<1>1. q \in Requests
  <2>1. toServer[c] \in Seq(Requests) /\ toServer[c] # <<>>
    BY DEF Handle, WireInv
  <2> QED BY <2>1
<1>2. \/ Refuse(q) \/ Initialize(q) \/ TurnStart(q) \/ TurnInterrupt(q)
      \/ Respond(q) \/ Subscribe(q) \/ SessionDelete(q)
  BY DEF Handle
<1> HIDE DEF q
<1>3. CASE UNCHANGED bookVars /\ \E ok \in BOOLEAN : Answer(q, ok)
  BY <1>1, <1>3, AnswerQueues DEF bookVars, ListsOK
<1>4. CASE Refuse(q)
  BY <1>3, <1>4 DEF Refuse
<1>5. CASE TurnStart(q)
  <2>1. CASE UNCHANGED <<bookVars, connVars, wireVars>>
    BY <2>1 DEF ListsOK, QueuesOK, bookVars, connVars, wireVars
  <2> QED BY <1>4, <1>5, <2>1 DEF TurnStart
<1>6. CASE Initialize(q)
  BY <1>3, <1>4, <1>6 DEF Initialize
<1>7. CASE TurnInterrupt(q)
  BY <1>3, <1>4, <1>7 DEF TurnInterrupt
<1>8. CASE Respond(q)
  <2>1. CASE /\ pending' \subseteq pending /\ Answer(q, TRUE)
             /\ UNCHANGED <<activeTurns, sessionToAccount>>
    BY <1>1, <2>1, AnswerQueues DEF ListsOK
  <2> QED BY <1>4, <1>8, <2>1 DEF Respond
<1>9. CASE Subscribe(q)
  BY <1>3, <1>4, <1>9 DEF Subscribe
<1>10. CASE SessionDelete(q)
  <2> DEFINE s == Target[q]
             gone == {r \in DOMAIN runToSession : runToSession[r] = s}
  <2>1. CASE /\ sessionToAccount' = [x \in DOMAIN sessionToAccount \ {s} |-> sessionToAccount[x]]
             /\ activeTurns' = [x \in Sessions |-> IF activeTurns[x] \in gone THEN NoTurn
                                                    ELSE activeTurns[x]]
             /\ pending' = {x \in pending : AskedBy[x.id] \notin gone}
             /\ Answer(q, TRUE)
    <3> HIDE DEF gone
    <3>1. ListsOK'
      BY <2>1 DEF ListsOK
    <3> QED BY <1>1, <2>1, <3>1, AnswerQueues
  <2> QED BY <1>4, <1>10, <2>1 DEF SessionDelete
<1> QED BY <1>2, <1>4, <1>5, <1>6, <1>7, <1>8, <1>9, <1>10

\* ... everything the host does ...
LEMMA HostTypes ==
  ASSUME BookInv, WireInv, ListsOK, QueuesOK, HostStep
  PROVE  ListsOK' /\ QueuesOK'
<1>1. CASE UNCHANGED <<bookVars, link, queue, flushing>>
  BY <1>1 DEF ListsOK, QueuesOK, bookVars
<1>2. ASSUME NEW k \in {"entry", "delta", "tool", "start", "finish"}, NEW r, Publish(Event(k, r))
      PROVE  ListsOK' /\ QueuesOK'
  <2>1. Event(k, r).kind # "prompt"
    BY DEF Event
  <2> QED BY <1>2, <2>1, PublishTypes
<1>3. ASSUME NEW r \in Turns, Begin(r) PROVE ListsOK' /\ QueuesOK'
  BY <1>1, <1>2, <1>3 DEF Begin
<1>4. ASSUME NEW r \in Runs, Emit(r) PROVE ListsOK' /\ QueuesOK'
  BY <1>2, <1>4 DEF Emit
<1>5. ASSUME NEW d \in SubRuns, Spawn(d) PROVE ListsOK' /\ QueuesOK'
  BY <1>2, <1>5 DEF Spawn
<1>6. ASSUME NEW p \in Prompts, Raise(p) PROVE ListsOK' /\ QueuesOK'
  BY <1>6, PublishTypes DEF Raise
<1>7. ASSUME NEW r \in Turns, Finish(r) PROVE ListsOK' /\ QueuesOK'
  BY <1>2, <1>7 DEF Finish
<1> QED BY <1>3, <1>4, <1>5, <1>6, <1>7 DEF HostStep

\* ... and the turn that a resolved await started.
LEMMA TrackTypes ==
  ASSUME BookInv, WireInv, ListsOK, QueuesOK, NEW q \in Requests, TurnStarted(q)
  PROVE  ListsOK' /\ QueuesOK'
<1> DEFINE r == Target[q]
           s == SessionOf[r]
           acc == IF Account[ConnOf[q]] = Trusted THEN NoAccount ELSE Account[ConnOf[q]]
<1>1. /\ q \in awaiting /\ Answer(q, TRUE) /\ pending' = pending
      /\ activeTurns' = [activeTurns EXCEPT ![s] = r]
      /\ sessionToAccount' =
           [x \in DOMAIN sessionToAccount \cup {s} |->
              IF x \in DOMAIN sessionToAccount THEN sessionToAccount[x] ELSE acc]
  BY DEF TurnStarted, Track
<1>2. r \in Turns
  BY <1>1, AppServerAssumption DEF BookInv, BookOK
<1>3. acc \in Accounts
  BY RpcAssumption DEF Accounts
<1> HIDE DEF r, s, acc
<1>4. ListsOK'
  BY <1>1, <1>2, <1>3 DEF ListsOK
<1> QED BY <1>1, <1>4, AnswerQueues

\* What every step does to the calls ...
LEMMA CallStep ==
  ASSUME WireInv, CallOK, [Next]_vars
  PROVE  CallOK'
<1>1. CASE call' = call
  BY <1>1 DEF CallOK
<1>2. ASSUME NEW q \in Requests, Ask(q) PROVE CallOK'
  BY <1>2 DEF Ask, CallOK
<1>3. ASSUME NEW c \in Conns, RejectAll(c) PROVE CallOK'
  BY <1>3 DEF RejectAll, CallOK
<1>4. ASSUME NEW c \in Conns, Receive(c) PROVE CallOK'
  BY <1>4 DEF Receive, CallOK
<1>5. CASE ClientStep
  BY <1>1, <1>2, <1>3, <1>5 DEF ClientStep, Leave, Break
<1>6. CASE ClientReads
  BY <1>3, <1>4, <1>6 DEF ClientReads, Lost
<1>7. CASE HostStep
  BY <1>1, <1>7 DEF HostStep, Begin, Emit, Spawn, Raise, Finish, Told
<1>8. CASE ServerStep
  BY <1>1, <1>8 DEF ServerStep, TurnStarted, Handle, Drained, ServerCloses
<1>9. CASE UNCHANGED vars
  BY <1>1, <1>9 DEF vars, rpcVars
<1> QED BY <1>5, <1>6, <1>7, <1>8, <1>9 DEF Next

\* ... and to the lists and queues.
LEMMA ListsStep ==
  ASSUME BookInv, WireInv, ListsOK, QueuesOK, [Next]_vars
  PROVE  ListsOK' /\ QueuesOK'
<1>1. ASSUME UNCHANGED <<bookVars, queue>>, link' \subseteq link, flushing' \subseteq flushing
      PROVE ListsOK' /\ QueuesOK'
  BY <1>1 DEF ListsOK, QueuesOK, bookVars
<1>2. CASE ClientStep
  BY <1>1, <1>2 DEF ClientStep, connVars, Ask, Leave, Break, CutLink
<1>3. CASE ClientReads
  BY <1>1, <1>3 DEF ClientReads, connVars, Receive, Lost
<1>4. ASSUME NEW c \in Conns, Drained(c) PROVE ListsOK' /\ QueuesOK'
  <2>1. CASE queue' = queue
    BY <1>1, <1>4, <2>1 DEF Drained
  <2>2. CASE queue[c] # <<>> /\ queue' = [queue EXCEPT ![c] = Tail(queue[c])]
    <3>1. queue[c] \in Seq(Frames) /\ Len(queue[c]) <= MaxQueue /\ Len(queue[c]) \in Nat
      BY DEF WireInv, QueuesOK
    <3>2. Len(Tail(queue[c])) = Len(queue[c]) - 1
      BY <2>2, <3>1
    <3>3. \A x \in Conns : Len(queue'[x]) <= MaxQueue
      BY <2>2, <3>1, <3>2, AppServerAssumption DEF QueuesOK, WireInv
    <3> QED BY <1>4, <3>3 DEF Drained, QueuesOK, ListsOK, bookVars
  <2> QED BY <1>4, <2>1, <2>2 DEF Drained
<1>5. ASSUME NEW c \in Conns, ServerCloses(c) PROVE ListsOK' /\ QueuesOK'
  <2>1. queue' = [queue EXCEPT ![c] = <<>>] /\ link' \subseteq link /\ flushing' \subseteq flushing
        /\ UNCHANGED bookVars
    BY <1>5 DEF ServerCloses, CutLink
  <2>2. \A x \in Conns : Len(queue'[x]) <= MaxQueue
    <3>1. Len(<<>>) = 0
      OBVIOUS
    <3>2. queue'[c] = <<>> /\ \A x \in Conns : x # c => queue'[x] = queue[x]
      BY <2>1 DEF WireInv
    <3> QED BY <3>1, <3>2, AppServerAssumption DEF QueuesOK
  <2> QED BY <2>1, <2>2 DEF QueuesOK, ListsOK, bookVars
<1>6. CASE UNCHANGED vars
  BY <1>1, <1>6 DEF vars, rpcVars, connVars
<1> QED BY <1>2, <1>3, <1>4, <1>5, <1>6, HostTypes, TrackTypes, HandleTypes DEF Next, ServerStep

\* The type invariant; with it every outbound queue stays within its cap, and only a
\* connection that is being flushed has one (server.ts enqueue, flush, close).
THEOREM AppTypesCorrect == Spec => []AppTypeOK
<1>1. Init => TypeInv
  <2> SUFFICES ASSUME Init PROVE TypeInv
    OBVIOUS
  <2>1. CallOK
    BY DEF Init, RpcInit, CallOK
  <2>2. ListsOK
    BY DEF Init, ListsOK
  <2>3. QueuesOK
    <3>1. Len(<<>>) = 0
      OBVIOUS
    <3> QED BY <3>1, AppServerAssumption DEF Init, RpcInit, QueuesOK
  <2> QED BY <2>1, <2>2, <2>3, BookInit, WireInit DEF TypeInv
<1>2. TypeInv /\ [Next]_vars => TypeInv'
  BY BookStep, WireStep, CallStep, ListsStep DEF TypeInv
<1>3. TypeInv => AppTypeOK
  BY TypeParts DEF TypeInv
<1> QED BY <1>1, <1>2, <1>3, PTL DEF Spec

-----------------------------------------------------------------------------
(* Requests: what settles a call                                           *)

\* A request is among these frames.
Waits(frames, q) == \E i \in DOMAIN frames : frames[i] = q
\* A response to it is.
Answers(frames, q) == \E i \in DOMAIN frames : IsReply(frames[i]) /\ frames[i].reply = q
\* The response is on the wire of its connection or in the queue before it.
Answered(q) == Answers(toClient[ConnOf[q]], q) \/ Answers(queue[ConnOf[q]], q)

\* A call that waits has a client that is not closed, and as long as the socket is up,
\* something that will settle it: its request or its response is on the way, or the server
\* goes on with it.
RequestIsHeld ==
  \A q \in Requests : call[q] = "pending" =>
    /\ ConnOf[q] \in open
    /\ ConnOf[q] \in link => Waits(toServer[ConnOf[q]], q) \/ q \in awaiting \/ Answered(q)

\* A socket that is up is served: no answer is dropped before it.
SocketIsServed == link \subseteq registered

\* Inductive, with the types of the wires and the calls.
HeldInv == WireInv /\ CallOK /\ RequestIsHeld /\ SocketIsServed

\* A response put at the end is among the frames, and so is all that was there ...
LEMMA AnswersGrow ==
  ASSUME NEW s \in Seq(Frames), NEW f \in Frames, NEW q
  PROVE  /\ Answers(s, q) => Answers(Append(s, f), q)
         /\ IsReply(f) /\ f.reply = q => Answers(Append(s, f), q)
<1> DEFINE t == Append(s, f)
<1>1. /\ DOMAIN s = 1..Len(s) /\ DOMAIN t = 1..Len(s) + 1 /\ Len(s) \in Nat
      /\ \A i \in 1..Len(s) : t[i] = s[i]
      /\ t[Len(s) + 1] = f
  OBVIOUS
<1> HIDE DEF t
<1>2. \A i \in DOMAIN s : i \in DOMAIN t /\ t[i] = s[i]
  BY <1>1
<1>3. Len(s) + 1 \in DOMAIN t
  BY <1>1
<1> QED BY <1>1, <1>2, <1>3 DEF Answers, t

\* ... and what is not the head stays when it leaves.
LEMMA AnswersShrink ==
  ASSUME NEW s \in Seq(Frames), s # <<>>, NEW q, Answers(s, q)
  PROVE  \/ IsReply(Head(s)) /\ Head(s).reply = q
         \/ Answers(Tail(s), q)
<1>1. PICK i \in DOMAIN s : IsReply(s[i]) /\ s[i].reply = q
  BY DEF Answers
<1>2. CASE i = 1
  BY <1>1, <1>2, TailAt
<1>3. CASE i # 1
  <2>1. i - 1 \in DOMAIN Tail(s) /\ Tail(s)[i - 1] = s[i]
    BY <1>3, TailAt
  <2> QED BY <1>1, <2>1 DEF Answers
<1> QED BY <1>2, <1>3

\* The same of the requests on the way to the server.
LEMMA WaitsGrow ==
  ASSUME NEW s \in Seq(Requests), NEW p \in Requests, NEW q
  PROVE  Waits(Append(s, p), q) <=> Waits(s, q) \/ p = q
<1> DEFINE t == Append(s, p)
<1>1. /\ DOMAIN s = 1..Len(s) /\ DOMAIN t = 1..Len(s) + 1 /\ Len(s) \in Nat
      /\ \A i \in 1..Len(s) : t[i] = s[i]
      /\ t[Len(s) + 1] = p
  OBVIOUS
<1> HIDE DEF t
<1>2. \A i \in DOMAIN s : i \in DOMAIN t /\ t[i] = s[i]
  BY <1>1
<1>3. Len(s) + 1 \in DOMAIN t
  BY <1>1
<1>4. \A i \in DOMAIN t : i \in DOMAIN s \/ i = Len(s) + 1
  BY <1>1
<1> QED BY <1>1, <1>2, <1>3, <1>4 DEF Waits, t

\* All but the head stay.
LEMMA WaitsShrink ==
  ASSUME NEW s \in Seq(Requests), s # <<>>, NEW q, Waits(s, q), q # Head(s)
  PROVE  Waits(Tail(s), q)
<1>1. PICK i \in DOMAIN s : s[i] = q
  BY DEF Waits
<1>2. /\ Head(s) = s[1] /\ DOMAIN s = 1..Len(s) /\ DOMAIN Tail(s) = 1..Len(s) - 1 /\ Len(s) \in Nat
      /\ \A j \in 1..Len(s) - 1 : Tail(s)[j] = s[j + 1]
  OBVIOUS
<1>3. i - 1 \in DOMAIN Tail(s) /\ Tail(s)[i - 1] = q
  BY <1>1, <1>2
<1> QED BY <1>3 DEF Waits

\* enqueue loses no response and takes the new one, unless the socket is closed with it
\* (server.ts enqueue, close).
LEMMA EnqueueHolds ==
  ASSUME WireInv, SocketIsServed, NEW frame, DOMAIN frame \subseteq Conns, Enqueue(frame),
         \A c \in DOMAIN frame : frame[c] \in Frames
  PROVE  /\ SocketIsServed' /\ link' \subseteq link
         /\ \A q \in Requests : ConnOf[q] \in link' /\ Answered(q) => Answered(q)'
         /\ \A q \in Requests, ok \in BOOLEAN :
              ConnOf[q] \in link' \cap DOMAIN frame /\ frame[ConnOf[q]] = Reply(q, ok) => Answered(q)'
<1>1. SocketIsServed' /\ link' \subseteq link
  BY DEF Enqueue, SocketIsServed
<1>2. ASSUME NEW q \in Requests, ConnOf[q] \in link'
      PROVE  /\ Answered(q) => Answered(q)'
             /\ \A ok \in BOOLEAN :
                  ConnOf[q] \in DOMAIN frame /\ frame[ConnOf[q]] = Reply(q, ok) => Answered(q)'
  <2> DEFINE c == ConnOf[q]
  <2>1. c \in Conns /\ c \in registered' /\ c \in registered
    BY <1>1, <1>2, RpcAssumption DEF SocketIsServed
  <2>2. \A ok : ~IsDelta(Reply(q, ok)) /\ IsReply(Reply(q, ok)) /\ Reply(q, ok).reply = q
    BY FrameKinds DEF Reply
  <2>3. toClient[c] \in Seq(Frames) /\ queue[c] \in Seq(Frames)
    BY <2>1 DEF WireInv
  <2> HIDE DEF c
  <2>4. CASE /\ c \in DOMAIN frame
             /\ toClient'[c] = Append(toClient[c], frame[c]) /\ queue'[c] = queue[c]
    BY <2>2, <2>3, <2>4, AnswersGrow DEF Answered, c
  <2>5. CASE /\ c \in DOMAIN frame
             /\ toClient'[c] = toClient[c] /\ queue'[c] = Append(queue[c], frame[c])
    BY <2>2, <2>3, <2>5, AnswersGrow DEF Answered, c
  <2>6. CASE /\ c \in DOMAIN frame => IsDelta(frame[c])
             /\ toClient'[c] = toClient[c] /\ queue'[c] = queue[c]
    BY <2>2, <2>6 DEF Answered, c
  <2> QED BY <2>1, <2>4, <2>5, <2>6, EnqueueAt DEF c
<1> QED BY <1>1, <1>2

\* A step in which the calls stay and no connection is closed by its client.
LEMMA HeldStays ==
  ASSUME HeldInv, UNCHANGED <<call, open>>, link' \subseteq link, SocketIsServed',
         WireInv', CallOK',
         \A q \in Requests : ConnOf[q] \in link' =>
           /\ Answered(q) => Answered(q)'
           /\ Waits(toServer[ConnOf[q]], q) \/ q \in awaiting =>
                Waits(toServer'[ConnOf[q]], q) \/ q \in awaiting' \/ Answered(q)'
  PROVE  HeldInv'
<1> SUFFICES ASSUME NEW q \in Requests, call[q] = "pending", ConnOf[q] \in link'
             PROVE  Waits(toServer'[ConnOf[q]], q) \/ q \in awaiting' \/ Answered(q)'
  BY DEF HeldInv, RequestIsHeld
<1> QED BY DEF HeldInv, RequestIsHeld

\* What the host does: its events are delivered.
LEMMA HostHolds ==
  ASSUME HeldInv, HostStep, WireInv', CallOK'
  PROVE  HeldInv'
<1>0. UNCHANGED <<call, open, toServer, awaiting>>
  BY DEF HostStep, Begin, Emit, Spawn, Raise, Finish, Told
<1>1. CASE UNCHANGED <<toClient, link, registered, queue>>
  BY <1>0, <1>1, HeldStays DEF HeldInv, SocketIsServed, Answered
<1>2. ASSUME NEW m, Publish(m) PROVE HeldInv'
  <2>1. CASE ~FindsSession(m)
    BY <1>1, <1>2, <2>1 DEF Publish
  <2>2. CASE FindsSession(m)
    <3> DEFINE to == Listeners(m)
               frame == [c \in to |-> IF m.kind = "delta" THEN Delta ELSE Notice(owed[c] + 1)]
    <3>1. Enqueue(frame)
      BY <1>2, <2>2 DEF Publish
    <3>2. to \subseteq Conns /\ \A c \in Conns : owed[c] \in Nat
      BY DEF Listeners, HeldInv, WireInv
    <3> HIDE DEF to
    <3>3. DOMAIN frame = to /\ \A c \in to : frame[c] \in Frames
      BY <3>2, FrameKinds
    <3> HIDE DEF frame
    <3>4. /\ SocketIsServed' /\ link' \subseteq link
          /\ \A q \in Requests : ConnOf[q] \in link' /\ Answered(q) => Answered(q)'
      BY <3>1, <3>2, <3>3, EnqueueHolds DEF HeldInv
    <3> QED BY <1>0, <3>4, HeldStays
  <2> QED BY <2>1, <2>2
<1>3. ASSUME NEW r \in Turns, Begin(r) PROVE HeldInv'
  BY <1>1, <1>2, <1>3 DEF Begin
<1>4. ASSUME NEW r \in Runs, Emit(r) PROVE HeldInv'
  BY <1>2, <1>4 DEF Emit
<1>5. ASSUME NEW d \in SubRuns, Spawn(d) PROVE HeldInv'
  BY <1>2, <1>5 DEF Spawn
<1>6. ASSUME NEW p \in Prompts, Raise(p) PROVE HeldInv'
  BY <1>2, <1>6 DEF Raise
<1>7. ASSUME NEW r \in Turns, Finish(r) PROVE HeldInv'
  BY <1>2, <1>7 DEF Finish
<1> QED BY <1>3, <1>4, <1>5, <1>6, <1>7 DEF HostStep

\* A request that is answered, as it is read or after its await.
LEMMA AnswerHolds ==
  ASSUME HeldInv, NEW q \in Requests, NEW ok \in BOOLEAN, Answer(q, ok),
         UNCHANGED <<call, open>>, WireInv', CallOK',
         \A p \in Requests : p # q /\ (Waits(toServer[ConnOf[p]], p) \/ p \in awaiting) =>
           Waits(toServer'[ConnOf[p]], p) \/ p \in awaiting'
  PROVE  HeldInv'
<1> DEFINE frame == [c \in {ConnOf[q]} |-> Reply(q, ok)]
<1>1. /\ Enqueue(frame) /\ DOMAIN frame = {ConnOf[q]} /\ ConnOf[q] \in Conns
      /\ frame[ConnOf[q]] = Reply(q, ok) /\ Reply(q, ok) \in Frames
  BY RpcAssumption, FrameKinds DEF Answer
<1> HIDE DEF frame
<1>2. /\ SocketIsServed' /\ link' \subseteq link
      /\ \A p \in Requests : ConnOf[p] \in link' /\ Answered(p) => Answered(p)'
      /\ \A p \in Requests, o \in BOOLEAN :
           ConnOf[p] \in link' \cap DOMAIN frame /\ frame[ConnOf[p]] = Reply(p, o) => Answered(p)'
  BY <1>1, EnqueueHolds DEF HeldInv
<1>3. ConnOf[q] \in link' => Answered(q)'
  BY <1>1, <1>2
<1> QED BY <1>2, <1>3, HeldStays

\* A request that is read leaves the wire; it is answered, or the server awaits the host.
LEMMA HandleHolds ==
  ASSUME HeldInv, NEW c \in Conns, Handle(c), WireInv', CallOK'
  PROVE  HeldInv'
<1> DEFINE q == Head(toServer[c])
<1>1. /\ toServer \in [Conns -> Seq(Requests)] /\ toServer[c] \in Seq(Requests) /\ toServer[c] # <<>>
      /\ toServer' = [toServer EXCEPT ![c] = Tail(toServer[c])] /\ UNCHANGED <<call, open>>
  BY DEF Handle, HeldInv, WireInv
<1>2. q \in Requests
  BY <1>1
<1>3. ASSUME NEW p \in Requests, p # q, Waits(toServer[ConnOf[p]], p)
      PROVE  Waits(toServer'[ConnOf[p]], p)
  <2>1. CASE ConnOf[p] = c
    <3>1. Waits(Tail(toServer[c]), p)
      BY <1>1, <1>3, <2>1, WaitsShrink
    <3> QED BY <1>1, <2>1, <3>1
  <2>2. CASE ConnOf[p] # c
    BY <1>1, <1>3, <2>2
  <2> QED BY <2>1, <2>2
<1>4. \/ Refuse(q) \/ Initialize(q) \/ TurnStart(q) \/ TurnInterrupt(q)
      \/ Respond(q) \/ Subscribe(q) \/ SessionDelete(q)
  BY DEF Handle
<1> HIDE DEF q
<1>5. CASE UNCHANGED awaiting /\ \E ok \in BOOLEAN : Answer(q, ok)
  BY <1>1, <1>2, <1>3, <1>5, AnswerHolds
<1>6. CASE awaiting' = awaiting \cup {q} /\ UNCHANGED <<connVars, wireVars>>
  <2>1. UNCHANGED <<toClient, queue, link, registered>>
    BY <1>6 DEF connVars, wireVars
  <2> QED BY <1>1, <1>3, <1>6, <2>1, HeldStays DEF HeldInv, SocketIsServed, Answered
<1>7. CASE Refuse(q)
  BY <1>5, <1>7 DEF Refuse
<1>8. CASE Initialize(q)
  BY <1>5, <1>7, <1>8 DEF Initialize
<1>9. CASE TurnStart(q)
  BY <1>6, <1>7, <1>9 DEF TurnStart
<1>10. CASE TurnInterrupt(q)
  BY <1>5, <1>7, <1>10 DEF TurnInterrupt
<1>11. CASE Respond(q)
  BY <1>5, <1>7, <1>11 DEF Respond
<1>12. CASE Subscribe(q)
  BY <1>5, <1>7, <1>12 DEF Subscribe
<1>13. CASE SessionDelete(q)
  BY <1>5, <1>7, <1>13 DEF SessionDelete
<1> QED BY <1>4, <1>7, <1>8, <1>9, <1>10, <1>11, <1>12, <1>13

\* flush moves a response from the queue to the wire; close ends the socket with both.
LEMMA FlushHolds ==
  ASSUME HeldInv, NEW c \in Conns, Drained(c) \/ ServerCloses(c), WireInv', CallOK'
  PROVE  HeldInv'
<1>1. /\ toClient[c] \in Seq(Frames) /\ queue[c] \in Seq(Frames)
      /\ toClient \in [Conns -> Seq(Frames)] /\ queue \in [Conns -> Seq(Frames)]
  BY DEF HeldInv, WireInv
<1>2. UNCHANGED <<call, open, toServer, awaiting>>
  BY DEF Drained, ServerCloses
<1>3. CASE Drained(c)
  <2>1. UNCHANGED <<link, registered>>
    BY <1>3 DEF Drained
  <2>2. CASE UNCHANGED <<queue, toClient>>
    BY <1>2, <2>1, <2>2, HeldStays DEF HeldInv, SocketIsServed, Answered
  <2>3. CASE /\ queue[c] # <<>>
             /\ toClient' = [toClient EXCEPT ![c] = Append(toClient[c], Head(queue[c]))]
             /\ queue' = [queue EXCEPT ![c] = Tail(queue[c])]
    <3>1. /\ toClient'[c] = Append(toClient[c], Head(queue[c])) /\ queue'[c] = Tail(queue[c])
          /\ \A x \in Conns : x # c => toClient'[x] = toClient[x] /\ queue'[x] = queue[x]
      BY <1>1, <2>3
    <3>2. Head(queue[c]) \in Frames
      BY <1>1, <2>3, TailAt
    <3>3. ASSUME NEW q \in Requests, Answered(q) PROVE Answered(q)'
      <4>1. CASE ConnOf[q] = c
        <5>1. \/ Answers(toClient[c], q)
              \/ IsReply(Head(queue[c])) /\ Head(queue[c]).reply = q
              \/ Answers(Tail(queue[c]), q)
          BY <1>1, <2>3, <3>3, <4>1, AnswersShrink DEF Answered
        <5>2. Answers(Append(toClient[c], Head(queue[c])), q) \/ Answers(Tail(queue[c]), q)
          BY <1>1, <3>2, <5>1, AnswersGrow
        <5> QED BY <3>1, <4>1, <5>2 DEF Answered
      <4>2. CASE ConnOf[q] # c
        BY <3>1, <3>3, <4>2, RpcAssumption DEF Answered
      <4> QED BY <4>1, <4>2
    <3> QED BY <1>2, <2>1, <3>3, HeldStays DEF HeldInv, SocketIsServed
  <2> QED BY <1>3, <2>2, <2>3 DEF Drained
<1>4. CASE ServerCloses(c)
  <2>1. /\ registered' = registered \ {c} /\ link' = link \ {c} /\ toClient' = toClient
        /\ \A x \in Conns : x # c => queue'[x] = queue[x]
    BY <1>1, <1>4 DEF ServerCloses, CutLink
  <2>2. \A q \in Requests : ConnOf[q] \in link' /\ Answered(q) => Answered(q)'
    BY <2>1, RpcAssumption DEF Answered
  <2> QED BY <1>2, <2>1, <2>2, HeldStays DEF HeldInv, SocketIsServed
<1> QED BY <1>3, <1>4

\* The client: a new request is sent or rejected, a response settles the call it names, the
\* end of the connection all that wait (client.ts request, handle, rejectAllPending).
LEMMA ClientHolds ==
  ASSUME HeldInv, ClientStep \/ ClientReads, WireInv', CallOK'
  PROVE  HeldInv'
<1>0. UNCHANGED <<awaiting, registered, queue>>
  BY DEF ClientStep, ClientReads, connVars
<1>1. /\ toServer \in [Conns -> Seq(Requests)] /\ toClient \in [Conns -> Seq(Frames)]
      /\ call \in [Requests -> {"new", "pending", "resolved", "rejected"}]
      /\ \A q \in Requests : ConnOf[q] \in Conns
  BY RpcAssumption DEF HeldInv, WireInv, CallOK
<1>2. ASSUME NEW p \in Requests, Ask(p) PROVE HeldInv'
  <2>1. UNCHANGED <<open, link, toClient>>
    BY <1>2 DEF Ask
  <2>2. CASE /\ ConnOf[p] \in open \cap link
             /\ call' = [call EXCEPT ![p] = "pending"]
             /\ toServer' = [toServer EXCEPT ![ConnOf[p]] = Append(toServer[ConnOf[p]], p)]
    <3>1. /\ toServer'[ConnOf[p]] = Append(toServer[ConnOf[p]], p)
          /\ \A c \in Conns : c # ConnOf[p] => toServer'[c] = toServer[c]
      BY <1>1, <2>2
    <3>2. ASSUME NEW q \in Requests, Waits(toServer[ConnOf[q]], q)
          PROVE  Waits(toServer'[ConnOf[q]], q)
      <4>1. CASE ConnOf[q] = ConnOf[p]
        <5>1. toServer[ConnOf[q]] \in Seq(Requests)
          BY <1>1
        <5>2. Waits(Append(toServer[ConnOf[q]], p), q)
          BY <3>2, <5>1, WaitsGrow
        <5> QED BY <3>1, <4>1, <5>2
      <4>2. CASE ConnOf[q] # ConnOf[p]
        BY <1>1, <3>1, <3>2, <4>2
      <4> QED BY <4>1, <4>2
    <3>3. Waits(toServer'[ConnOf[p]], p)
      <4>1. toServer[ConnOf[p]] \in Seq(Requests)
        BY <1>1
      <4>2. Waits(Append(toServer[ConnOf[p]], p), p)
        BY <4>1, WaitsGrow
      <4> QED BY <3>1, <4>2
    <3>4. \A q \in Requests : q # p => call'[q] = call[q]
      BY <1>1, <2>2
    <3>5. \A q \in Requests : Answered(q)' <=> Answered(q)
      BY <1>0, <2>1 DEF Answered
    <3>6. RequestIsHeld'
      BY <1>0, <2>1, <2>2, <3>2, <3>3, <3>4, <3>5 DEF HeldInv, RequestIsHeld
    <3> QED BY <1>0, <2>1, <3>6 DEF HeldInv, SocketIsServed
  <2>3. CASE call' = [call EXCEPT ![p] = "rejected"] /\ toServer' = toServer
    <3>1. \A q \in Requests : call'[q] = "pending" => call[q] = "pending"
      BY <1>1, <2>3
    <3>2. RequestIsHeld'
      BY <1>0, <2>1, <2>3, <3>1 DEF HeldInv, RequestIsHeld, Answered
    <3> QED BY <1>0, <2>1, <3>2 DEF HeldInv, SocketIsServed
  <2> QED BY <1>2, <2>2, <2>3 DEF Ask
<1>3. ASSUME NEW c \in Conns, Leave(c) \/ Lost(c) PROVE HeldInv'
  <2>1. /\ open' = open \ {c} /\ RejectAll(c) /\ link' \subseteq link /\ toServer' = toServer
        /\ toClient' = [toClient EXCEPT ![c] = <<>>]
    BY <1>3 DEF Leave, Lost, CutLink
  <2>2. \A q \in Requests : call'[q] = "pending" => call[q] = "pending" /\ ConnOf[q] # c
    BY <2>1 DEF RejectAll
  <2>3. \A q \in Requests : ConnOf[q] # c /\ Answered(q) => Answered(q)'
    BY <1>0, <1>1, <2>1 DEF Answered
  <2>4. RequestIsHeld'
    BY <1>0, <2>1, <2>2, <2>3 DEF HeldInv, RequestIsHeld
  <2> QED BY <1>0, <2>1, <2>4 DEF HeldInv, SocketIsServed
<1>4. ASSUME NEW c \in Conns, Break(c) PROVE HeldInv'
  BY <1>0, <1>4, HeldStays DEF Break, CutLink, HeldInv, SocketIsServed, Answered
<1>5. ASSUME NEW c \in Conns, Receive(c) PROVE HeldInv'
  <2> DEFINE m == Head(toClient[c])
  <2>1. /\ toClient[c] # <<>> /\ toClient' = [toClient EXCEPT ![c] = Tail(toClient[c])]
        /\ UNCHANGED <<open, link, toServer>>
        /\ IF IsReply(m)
           THEN call' = IF call[m.reply] = "pending"
                        THEN [call EXCEPT ![m.reply] = IF m.ok THEN "resolved" ELSE "rejected"]
                        ELSE call
           ELSE call' = call
    BY <1>5 DEF Receive
  <2>2. toClient'[c] = Tail(toClient[c]) /\ \A x \in Conns : x # c => toClient'[x] = toClient[x]
    BY <1>1, <2>1
  <2> HIDE DEF m
  <2>3. ASSUME NEW q \in Requests, call'[q] = "pending"
        PROVE  call[q] = "pending" /\ ~(IsReply(m) /\ m.reply = q)
    BY <1>1, <2>1, <2>3
  <2>4. ASSUME NEW q \in Requests, call'[q] = "pending", Answered(q) PROVE Answered(q)'
    <3>1. CASE ConnOf[q] = c
      <4>1. Answers(toClient[c], q) => Answers(Tail(toClient[c]), q)
        BY <1>1, <2>1, <2>3, <2>4, AnswersShrink DEF m
      <4> QED BY <1>0, <2>2, <2>4, <3>1, <4>1 DEF Answered
    <3>2. CASE ConnOf[q] # c
      BY <1>0, <1>1, <2>2, <2>4, <3>2 DEF Answered
    <3> QED BY <3>1, <3>2
  <2>5. RequestIsHeld'
    BY <1>0, <2>1, <2>3, <2>4 DEF HeldInv, RequestIsHeld
  <2> QED BY <1>0, <2>1, <2>5 DEF HeldInv, SocketIsServed
<1> QED BY <1>2, <1>3, <1>4, <1>5 DEF ClientStep, ClientReads

\* Every step keeps what settles the calls.
LEMMA HeldStep ==
  ASSUME HeldInv, [Next]_vars
  PROVE  HeldInv'
<1>1. WireInv' /\ CallOK'
  BY WireStep, CallStep DEF HeldInv
<1>2. CASE ClientStep \/ ClientReads
  BY <1>1, <1>2, ClientHolds
<1>3. CASE HostStep
  BY <1>1, <1>3, HostHolds
<1>4. ASSUME NEW q \in Requests, TurnStarted(q) PROVE HeldInv'
  BY <1>1, <1>4, AnswerHolds DEF TurnStarted
<1>5. ASSUME NEW c \in Conns, Handle(c) \/ Drained(c) \/ ServerCloses(c) PROVE HeldInv'
  BY <1>1, <1>5, HandleHolds, FlushHolds
<1>6. CASE UNCHANGED vars
  BY <1>1, <1>6, HeldStays DEF vars, rpcVars, connVars, HeldInv, SocketIsServed, Answered
<1> QED BY <1>2, <1>3, <1>4, <1>5, <1>6 DEF Next, ServerStep

\* A call that waits has something that will settle it, and a socket that is up is served:
\* the server answers every request it reads or closes the socket, it drops no response at
\* a full queue, and the end of a socket is still to reach a client that is not closed
\* (client.ts request, rejectAllPending; server.ts handle, enqueue, close).  What
\* RequestsSettle says happens in the end can always still happen.
THEOREM RequestsAreHeld == Spec => [](RequestIsHeld /\ SocketIsServed)
<1>1. Init => HeldInv
  <2> SUFFICES ASSUME Init PROVE HeldInv
    OBVIOUS
  <2> QED BY WireInit DEF Init, RpcInit, HeldInv, CallOK, RequestIsHeld, SocketIsServed
<1>2. HeldInv /\ [Next]_vars => HeldInv'
  BY HeldStep
<1>3. HeldInv => RequestIsHeld /\ SocketIsServed
  BY DEF HeldInv
<1> QED BY <1>1, <1>2, <1>3, PTL DEF Spec
=============================================================================
