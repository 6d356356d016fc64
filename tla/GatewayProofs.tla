------------------------------ MODULE GatewayProofs ------------------------------
(***************************************************************************)
(* The chat gateway, for any number of conversations, messages, prompts,   *)
(* poll loops, users, accounts, keys and processes: a conversation holds   *)
(* nothing but what its registered turn raised, and loses a prompt only    *)
(* when it is settled; no inbound message is lost or handed on twice while *)
(* one loop polls; what frees a stopped turn's conversation is always      *)
(* there; a turn's answer is all in the chat when nothing is left to send; *)
(* a de-provisioned account is cut off; there is one admin secret.         *)
(***************************************************************************)
EXTENDS Gateway, TLAPS

------------------------------------------------------------------------------
(* The parts of the gateway.                                               *)

gatewayVars == <<vars, channelVars, renderVars, accountVars, secretVars, watched>>

\* A step of the gateway is one of a part, and leaves the others at rest.
LEMMA PartSteps ==
  ASSUME [GatewayNext]_gatewayVars
  PROVE  [Next]_vars /\ [ChannelsNext]_channelVars /\ [AccountsNext]_accountVars /\ [SecretNext]_secretVars
BY DEF GatewayNext, gatewayVars

------------------------------------------------------------------------------
(* Facts about the data.                                                   *)

\* Every run belongs to a message's turn, and its conversation exists.
LEMMA RunFacts ==
  ASSUME NEW r \in Runs
  PROVE  TurnOf(r) \in Messages /\ ConvOf[TurnOf(r)] \in Convs
BY DispatcherAssumption DEF Runs, TurnOf

\* A message is its own turn, and a sub-agent its parent's.
LEMMA OwnTurn ==
  /\ \A m \in Messages : m \in Runs /\ TurnOf(m) = m /\ ConvOf[m] \in Convs
  /\ \A d \in Subs : d \in Runs /\ TurnOf(d) = ParentOf[d] /\ ParentOf[d] \in Messages
BY DispatcherAssumption DEF Runs, TurnOf

\* What an approval queue contains after one is added.
LEMMA ContainsAppend ==
  ASSUME NEW S, NEW s \in Seq(S), NEW e \in S, NEW x, Contains(Append(s, e), x)
  PROVE  Contains(s, x) \/ x = e
<1>1. PICK i \in 1..Len(Append(s, e)) : Append(s, e)[i] = x
  BY DEF Contains
<1>2. Len(Append(s, e)) = Len(s) + 1
  OBVIOUS
<1>3. CASE i = Len(s) + 1
  BY <1>1, <1>3
<1>4. CASE i # Len(s) + 1
  <2>1. i \in 1..Len(s)
    BY <1>1, <1>2, <1>4
  <2>2. s[i] = x
    BY <1>1, <2>1
  <2> QED BY <2>1, <2>2 DEF Contains
<1> QED BY <1>3, <1>4

\* And after the oldest is taken.
LEMMA ContainsTail ==
  ASSUME NEW S, NEW s \in Seq(S), s # <<>>, NEW x, Contains(Tail(s), x)
  PROVE  Contains(s, x)
<1>1. PICK i \in 1..Len(Tail(s)) : Tail(s)[i] = x
  BY DEF Contains
<1>2. i + 1 \in 1..Len(s) /\ s[i + 1] = x
  BY <1>1
<1> QED BY <1>2 DEF Contains

\* An empty queue contains nothing.
LEMMA ContainsNone == ASSUME NEW x PROVE ~Contains(<<>>, x)
BY DEF Contains

------------------------------------------------------------------------------
(* Types.                                                                  *)

\* The end of a turn, and the start of one, keep the types.
LEMMA TurnTypes ==
  ASSUME DispatcherTypeOK, NEW c \in Convs, NEW m \in Messages, EndTurn(c) \/ BeginTurn(c, m)
  PROVE  /\ orch' \in [Convs -> Messages \cup {NoRun}]
         /\ turnRuns' \in [Convs -> SUBSET Runs] /\ runToConv' \in [Runs -> Convs \cup {NoConv}]
         /\ tokens' \in [Convs -> SUBSET Asks] /\ approvals' \in [Convs -> Seq(Asks)]
         /\ question' \in [Convs -> Asks \cup {NoAsk}] /\ plan' \in [Convs -> Asks \cup {NoAsk}]
<1>1. /\ tokens' \in [Convs -> SUBSET Asks] /\ approvals' \in [Convs -> Seq(Asks)]
      /\ question' \in [Convs -> Asks \cup {NoAsk}] /\ plan' \in [Convs -> Asks \cup {NoAsk}]
  <2>1. ClearWaits(c)
    BY DEF EndTurn, BeginTurn
  <2>2. << >> \in Seq(Asks)
    OBVIOUS
  <2>3. approvals' \in [Convs -> Seq(Asks)]
    BY <2>1, <2>2 DEF ClearWaits, DispatcherTypeOK
  <2> QED BY <2>1, <2>3 DEF ClearWaits, DispatcherTypeOK
<1>2. /\ orch' \in [Convs -> Messages \cup {NoRun}]
      /\ turnRuns' \in [Convs -> SUBSET Runs] /\ runToConv' \in [Runs -> Convs \cup {NoConv}]
  <2>1. CASE EndTurn(c)
    BY <2>1 DEF EndTurn, DispatcherTypeOK
  <2>2. CASE BeginTurn(c, m)
    BY <2>2, OwnTurn DEF BeginTurn, DispatcherTypeOK
  <2> QED BY <2>1, <2>2
<1> QED BY <1>1, <1>2

\* An abort keeps the types of the host's side.
LEMMA AbortTypes ==
  ASSUME DispatcherTypeOK, NEW m \in Messages, HostAbort(m)
  PROVE  /\ stage' \in [Messages -> Stages] /\ aborted' \subseteq Messages
         /\ pending' \subseteq raised' /\ UNCHANGED <<buttons, session, spawned, raised>>
BY DEF HostAbort, DispatcherTypeOK, Stages

\* What a run's end says to the conversation keeps the types.
LEMMA LastWordsTypes ==
  ASSUME DispatcherTypeOK, NEW m \in Messages, NEW calls, LastWords(m, calls)
  PROVE  /\ flushing' \subseteq Messages /\ orch' \in [Convs -> Messages \cup {NoRun}]
         /\ turnRuns' \in [Convs -> SUBSET Runs] /\ runToConv' \in [Runs -> Convs \cup {NoConv}]
         /\ tokens' \in [Convs -> SUBSET Asks] /\ approvals' \in [Convs -> Seq(Asks)]
         /\ question' \in [Convs -> Asks \cup {NoAsk}] /\ plan' \in [Convs -> Asks \cup {NoAsk}]
<1>1. flushing' \subseteq Messages
  BY DEF LastWords, DispatcherTypeOK
<1>2. CASE UNCHANGED convVars
  BY <1>1, <1>2 DEF convVars, waitVars, DispatcherTypeOK
<1>3. CASE EndTurn(ConvOf[m])
  BY <1>1, <1>3, TurnTypes, OwnTurn
<1> QED BY <1>2, <1>3 DEF LastWords

\* Showing a prompt, and settling one, keep the types.
LEMMA WaitTypes ==
  ASSUME DispatcherTypeOK, NEW c \in Convs, NEW p \in Asks,
         Shows(c, p) \/ TypeAnswer(c) \/ TypeVerdict(c) \/ Tap(c, p) \/ UNCHANGED waitVars
  PROVE  /\ tokens' \in [Convs -> SUBSET Asks] /\ approvals' \in [Convs -> Seq(Asks)]
         /\ question' \in [Convs -> Asks \cup {NoAsk}] /\ plan' \in [Convs -> Asks \cup {NoAsk}]
<1>1. CASE Shows(c, p)
  <2>1. approvals' \in [Convs -> Seq(Asks)]
    <3>1. approvals[c] \in Seq(Asks)
      BY DEF DispatcherTypeOK
    <3>2. Append(approvals[c], p) \in Seq(Asks)
      BY <3>1
    <3> QED BY <1>1, <3>2 DEF Shows, DispatcherTypeOK
  <2>2. /\ tokens' \in [Convs -> SUBSET Asks]
        /\ question' \in [Convs -> Asks \cup {NoAsk}] /\ plan' \in [Convs -> Asks \cup {NoAsk}]
    BY <1>1 DEF Shows, DispatcherTypeOK
  <2> QED BY <2>1, <2>2
<1>2. CASE TypeAnswer(c)
  BY <1>2 DEF TypeAnswer, DispatcherTypeOK
<1>3. CASE TypeVerdict(c)
  <2>1. approvals' \in [Convs -> Seq(Asks)]
    <3>1. approvals[c] \in Seq(Asks)
      BY DEF DispatcherTypeOK
    <3>2. approvals[c] # << >> => Tail(approvals[c]) \in Seq(Asks)
      BY <3>1
    <3> QED BY <1>3, <3>2 DEF TypeVerdict, DispatcherTypeOK
  <2>2. /\ tokens' \in [Convs -> SUBSET Asks]
        /\ question' \in [Convs -> Asks \cup {NoAsk}] /\ plan' \in [Convs -> Asks \cup {NoAsk}]
    BY <1>3 DEF TypeVerdict, DispatcherTypeOK
  <2> QED BY <2>1, <2>2
<1>4. CASE Tap(c, p)
  BY <1>4 DEF Tap, DispatcherTypeOK
<1>5. CASE UNCHANGED waitVars
  BY <1>5 DEF waitVars, DispatcherTypeOK
<1> QED BY <1>1, <1>2, <1>3, <1>4, <1>5

\* No message, command, tap or event leaves the types.
LEMMA TypeStep ==
  ASSUME DispatcherTypeOK, [Next]_vars
  PROVE  DispatcherTypeOK'
<1>1. ASSUME NEW m \in Messages,
             \/ Accept(m) \/ Composed(m) \/ PrepareFails(m) \/ Drives(m) \/ EndsUnheard(m)
      PROVE  DispatcherTypeOK'
  BY <1>1, OwnTurn, ZenonT(40) DEF Accept, Composed, PrepareFails, Drives, EndsUnheard, DispatcherTypeOK,
       Stages, convVars, waitVars
<1>2. ASSUME NEW m \in Messages, Sent(m) PROVE DispatcherTypeOK'
  <2>1. ConvOf[m] \in Convs /\ BeginTurn(ConvOf[m], m)
    BY <1>2, OwnTurn DEF Sent
  <2>2. /\ stage' \in [Messages -> Stages] /\ session' \in [Messages -> Messages \cup {NoRun}]
        /\ route' \in [Convs -> Messages \cup {NoRun}]
    BY <1>2, <2>1 DEF Sent, DispatcherTypeOK, Stages
  <2> QED BY <1>2, <2>1, <2>2, TurnTypes DEF Sent, DispatcherTypeOK
<1>3. ASSUME NEW m \in Messages, Errs(m) \/ Finishes(m) PROVE DispatcherTypeOK'
  <2>1. stage' \in [Messages -> Stages] /\ \E calls : LastWords(m, calls)
    BY <1>3 DEF Errs, Finishes, DispatcherTypeOK, Stages
  <2> QED BY <1>3, <2>1, LastWordsTypes DEF Errs, Finishes, DispatcherTypeOK
<1>4. ASSUME NEW m \in Messages, Flushed(m) PROVE DispatcherTypeOK'
  <2>1. ConvOf[m] \in Convs /\ EndTurn(ConvOf[m])
    BY <1>4, OwnTurn DEF Flushed
  <2> QED BY <1>4, <2>1, TurnTypes DEF Flushed, hostVars, DispatcherTypeOK
<1>5. ASSUME NEW c \in Convs, New(c) PROVE DispatcherTypeOK'
  <2>1. /\ stage' \in [Messages -> Stages] /\ aborted' \subseteq Messages
        /\ pending' \subseteq raised' /\ UNCHANGED <<buttons, session, spawned, raised>>
    BY <1>5, AbortTypes DEF New, hostVars, DispatcherTypeOK
  <2>2. EndTurn(c) /\ UNCHANGED flushing /\ route' \in [Convs -> Messages \cup {NoRun}]
    BY <1>5 DEF New, DispatcherTypeOK
  <2>3. CASE Messages # {}
    BY <2>1, <2>2, <2>3, TurnTypes DEF DispatcherTypeOK
  <2>4. CASE Messages = {}
    BY <2>1, <2>2, <2>4 DEF DispatcherTypeOK, EndTurn, ClearWaits
  <2> QED BY <2>3, <2>4
<1>6. ASSUME NEW c \in Convs, Stop(c) PROVE DispatcherTypeOK'
  <2>1. orch[c] \in Messages /\ HostAbort(orch[c])
    BY <1>6 DEF Stop, DispatcherTypeOK
  <2> QED BY <1>6, <2>1, AbortTypes DEF Stop, convVars, waitVars, DispatcherTypeOK
<1>7. ASSUME NEW c \in Convs, NEW p \in Asks, TypeAnswer(c) \/ TypeVerdict(c) \/ Tap(c, p)
      PROVE  DispatcherTypeOK'
  <2>1. PICK q : Resolve(q)
    BY <1>7 DEF TypeAnswer, TypeVerdict, Tap
  <2>2. /\ tokens' \in [Convs -> SUBSET Asks] /\ approvals' \in [Convs -> Seq(Asks)]
        /\ question' \in [Convs -> Asks \cup {NoAsk}] /\ plan' \in [Convs -> Asks \cup {NoAsk}]
    BY <1>7, WaitTypes
  <2>3. /\ pending' \subseteq raised'
        /\ UNCHANGED <<buttons, stage, session, aborted, spawned, raised>>
        /\ UNCHANGED <<route, orch, turnRuns, runToConv, flushing>>
    BY <2>1 DEF Resolve, DispatcherTypeOK
  <2> QED BY <2>2, <2>3 DEF DispatcherTypeOK
<1>8. ASSUME NEW d \in Subs, Spawn(d) PROVE DispatcherTypeOK'
  <2>1. d \in Runs /\ ParentOf[d] \in Runs
    BY OwnTurn
  <2>2. turnRuns' \in [Convs -> SUBSET Runs] /\ runToConv' \in [Runs -> Convs \cup {NoConv}]
    <3>1. CASE runToConv[ParentOf[d]] = NoConv
      BY <1>8, <3>1 DEF Spawn, DispatcherTypeOK
    <3>2. CASE runToConv[ParentOf[d]] # NoConv
      <4>1. runToConv[ParentOf[d]] \in Convs
        BY <2>1, <3>2 DEF DispatcherTypeOK
      <4> DEFINE b == runToConv[ParentOf[d]]
      <4>2. /\ turnRuns' = [turnRuns EXCEPT ![b] = @ \cup {d}]
            /\ runToConv' = [runToConv EXCEPT ![d] = b]
        BY <1>8, <3>2 DEF Spawn
      <4> HIDE DEF b
      <4>3. b \in Convs
        BY <4>1 DEF b
      <4> QED BY <2>1, <4>2, <4>3 DEF DispatcherTypeOK
    <3> QED BY <3>1, <3>2
  <2> QED BY <1>8, <2>2 DEF Spawn, waitVars, DispatcherTypeOK
<1>9. ASSUME NEW p \in Asks, Raise(p) PROVE DispatcherTypeOK'
  <2>1. AskedBy[p] \in Runs
    BY DispatcherAssumption
  <2>2. UNCHANGED waitVars \/ \E c \in Convs : Shows(c, p)
    BY <1>9, <2>1 DEF Raise, DispatcherTypeOK
  <2>3. /\ tokens' \in [Convs -> SUBSET Asks] /\ approvals' \in [Convs -> Seq(Asks)]
        /\ question' \in [Convs -> Asks \cup {NoAsk}] /\ plan' \in [Convs -> Asks \cup {NoAsk}]
    <3>1. CASE UNCHANGED waitVars
      BY <3>1 DEF waitVars, DispatcherTypeOK
    <3> QED BY <2>2, <3>1, WaitTypes
  <2> QED BY <1>9, <2>3 DEF Raise, DispatcherTypeOK
<1>10. CASE UNCHANGED vars
  BY <1>10 DEF vars, hostVars, convVars, waitVars, DispatcherTypeOK
<1> QED
  <2>1. ASSUME NEW c \in Convs, TypeAnswer(c) \/ TypeVerdict(c) PROVE DispatcherTypeOK'
    <3>1. CASE Asks # {}
      BY <1>7, <2>1, <3>1
    <3>2. CASE Asks = {}
      BY <2>1, <3>2 DEF TypeAnswer, TypeVerdict, Resolve, DispatcherTypeOK
    <3> QED BY <3>1, <3>2
  <2> QED
    BY <1>1, <1>2, <1>3, <1>4, <1>5, <1>6, <1>7, <1>8, <1>9, <1>10, <2>1 DEF Next

------------------------------------------------------------------------------
(* The registered turn.                                                    *)

\* While a message is prepared its conversation has no turn and no other claim.
ClaimHeld ==
  \A m \in Messages : stage[m] \in {"composing", "opening"} =>
    /\ orch[ConvOf[m]] = NoRun
    /\ \A n \in Messages :
         ConvOf[n] = ConvOf[m] /\ stage[n] \in {"composing", "opening"} => n = m

TurnInvariant == DispatcherTypeOK /\ ClaimHeld /\ TurnIsWhole

\* A step that registers no run and shows only prompts of registered runs.
LEMMA QuietStep ==
  ASSUME TurnIsWhole, UNCHANGED <<orch, turnRuns, runToConv>>,
         \A c \in Convs, p \in Asks :
           Answerable(c, p)' => Answerable(c, p) \/ AskedBy[p] \in turnRuns[c]
  PROVE  TurnIsWhole'
BY DEF TurnIsWhole

\* A conversation without a turn holds no run and nothing to answer.
LEMMA NothingHeld ==
  ASSUME DispatcherTypeOK, TurnIsWhole, NEW c \in Convs, orch[c] = NoRun
  PROVE  turnRuns[c] = {} /\ \A r \in Runs : runToConv[r] # c
<1>1. \A r \in Runs : TurnOf(r) # NoRun
  BY RunFacts, DispatcherAssumption DEF Runs
<1> QED BY <1>1 DEF TurnIsWhole, DispatcherTypeOK

\* A registered run is registered where its turn's message came from.
LEMMA HomeOnly ==
  ASSUME DispatcherTypeOK, TurnIsWhole, NEW r \in Runs, NEW c \in Convs, runToConv[r] = c
  PROVE  c = ConvOf[TurnOf(r)] /\ orch[c] = TurnOf(r)
<1>1. r \in turnRuns[c] /\ TurnOf(r) = orch[c]
  BY DEF TurnIsWhole
<1>2. orch[c] # NoRun
  BY <1>1, RunFacts, DispatcherAssumption DEF Runs
<1> QED BY <1>1, <1>2 DEF TurnIsWhole

\* What an emptied conversation has to answer: nothing; the others keep theirs.
LEMMA ClearedWaits ==
  ASSUME DispatcherTypeOK, NEW c \in Convs, ClearWaits(c)
  PROVE  \A b \in Convs, p \in Asks :
           Answerable(b, p)' => b # c /\ Answerable(b, p)
<1> TAKE b \in Convs, p \in Asks
<1>1. CASE b = c
  <2>1. tokens'[c] = {} /\ approvals'[c] = << >> /\ question'[c] = NoAsk /\ plan'[c] = NoAsk
    BY DEF ClearWaits, DispatcherTypeOK
  <2>2. p # NoAsk
    BY DispatcherAssumption
  <2> QED BY <1>1, <2>1, <2>2, ContainsNone DEF Answerable
<1>2. CASE b # c
  BY <1>2 DEF ClearWaits, Answerable, DispatcherTypeOK
<1> QED BY <1>1, <1>2

\* endTurn forgets the turn, its runs and all it raised, and touches no other.
LEMMA EndTurnWhole ==
  ASSUME DispatcherTypeOK, TurnIsWhole, NEW c \in Convs, EndTurn(c)
  PROVE  TurnIsWhole'
<1> SUFFICES ASSUME NEW b \in Convs
    PROVE  /\ turnRuns'[b] = {r \in Runs : runToConv'[r] = b}
           /\ \A r \in turnRuns'[b] : TurnOf(r) = orch'[b]
           /\ orch'[b] # NoRun => orch'[b] \in turnRuns'[b] /\ ConvOf[orch'[b]] = b
           /\ \A p \in Asks : Answerable(b, p)' => AskedBy[p] \in turnRuns'[b]
  BY DEF TurnIsWhole
<1>1. \A p \in Asks : Answerable(b, p)' => b # c /\ Answerable(b, p)
  BY ClearedWaits DEF EndTurn
<1>2. b # NoConv
  BY DispatcherAssumption
<1>3. CASE b = c
  <2>1. turnRuns'[c] = {} /\ orch'[c] = NoRun
    BY DEF EndTurn, DispatcherTypeOK
  <2>2. \A r \in Runs : runToConv'[r] # c
    BY <1>2, <1>3 DEF EndTurn, TurnIsWhole
  <2> QED BY <1>1, <1>3, <2>1, <2>2
<1>4. CASE b # c
  <2>1. turnRuns'[b] = turnRuns[b] /\ orch'[b] = orch[b]
    BY <1>4 DEF EndTurn, DispatcherTypeOK
  <2>2. \A r \in Runs : runToConv'[r] = b <=> runToConv[r] = b
    BY <1>2, <1>4 DEF EndTurn, TurnIsWhole
  <2> QED BY <1>1, <2>1, <2>2 DEF TurnIsWhole
<1> QED BY <1>3, <1>4

\* beginTurn of a message that held the claim.
LEMMA BeginTurnWhole ==
  ASSUME DispatcherTypeOK, TurnIsWhole, NEW m \in Messages,
         orch[ConvOf[m]] = NoRun, BeginTurn(ConvOf[m], m)
  PROVE  TurnIsWhole'
<1> DEFINE c == ConvOf[m]
<1>1. c \in Convs /\ m \in Runs /\ TurnOf(m) = m
  BY OwnTurn
<1> HIDE DEF c
<1>2. turnRuns[c] = {} /\ \A r \in Runs : runToConv[r] # c
  BY <1>1, NothingHeld DEF c
<1>3. \A b \in Convs : runToConv[m] = b => b = c
  BY <1>1, HomeOnly DEF c
<1> SUFFICES ASSUME NEW b \in Convs
    PROVE  /\ turnRuns'[b] = {r \in Runs : runToConv'[r] = b}
           /\ \A r \in turnRuns'[b] : TurnOf(r) = orch'[b]
           /\ orch'[b] # NoRun => orch'[b] \in turnRuns'[b] /\ ConvOf[orch'[b]] = b
           /\ \A p \in Asks : Answerable(b, p)' => AskedBy[p] \in turnRuns'[b]
  BY DEF TurnIsWhole
<1>4. \A p \in Asks : Answerable(b, p)' => b # c /\ Answerable(b, p)
  BY <1>1, ClearedWaits DEF BeginTurn, c
<1>5. \A r \in Runs : runToConv'[r] = IF r = m THEN c ELSE runToConv[r]
  BY <1>1 DEF BeginTurn, DispatcherTypeOK, c
<1>6. CASE b = c
  <2>1. turnRuns'[c] = {m} /\ orch'[c] = m
    BY <1>1 DEF BeginTurn, DispatcherTypeOK, c
  <2>2. {r \in Runs : runToConv'[r] = c} = {m}
    BY <1>1, <1>2, <1>5
  <2>3. ConvOf[m] = c
    BY DEF c
  <2> QED BY <1>1, <1>4, <1>6, <2>1, <2>2, <2>3
<1>7. CASE b # c
  <2>1. turnRuns'[b] = turnRuns[b] /\ orch'[b] = orch[b]
    BY <1>7 DEF BeginTurn, DispatcherTypeOK, c
  <2>2. \A r \in Runs : runToConv'[r] = b <=> runToConv[r] = b
    BY <1>3, <1>5, <1>7
  <2> QED BY <1>4, <2>1, <2>2 DEF TurnIsWhole
<1> QED BY <1>6, <1>7

\* A sub-agent joins its parent's turn, and no other.
LEMMA SpawnWhole ==
  ASSUME DispatcherTypeOK, TurnIsWhole, NEW d \in Subs, Spawn(d)
  PROVE  TurnIsWhole'
<1> DEFINE m == ParentOf[d]
           c == runToConv[m]
<1>1. d \in Runs /\ TurnOf(d) = m /\ m \in Messages /\ m \in Runs /\ TurnOf(m) = m
  BY OwnTurn
<1>2. UNCHANGED waitVars /\ UNCHANGED orch
  BY DEF Spawn
<1>3. \A b \in Convs, p \in Asks : Answerable(b, p)' <=> Answerable(b, p)
  BY <1>2 DEF waitVars, Answerable
<1>4. CASE c = NoConv
  BY <1>2, <1>3, <1>4, QuietStep DEF Spawn
<1>5. CASE c # NoConv
  <2>1. c \in Convs
    BY <1>1, <1>5 DEF DispatcherTypeOK
  <2>2. turnRuns' = [turnRuns EXCEPT ![c] = @ \cup {d}]
        /\ runToConv' = [runToConv EXCEPT ![d] = c]
    BY <1>5 DEF Spawn
  <2>3. c = ConvOf[m] /\ orch[c] = m
    BY <1>1, <2>1, HomeOnly
  <2>4. \A b \in Convs : runToConv[d] = b => b = c
    BY <1>1, <2>3, HomeOnly
  <2> HIDE DEF c, m
  <2> SUFFICES ASSUME NEW b \in Convs
      PROVE  /\ turnRuns'[b] = {r \in Runs : runToConv'[r] = b}
             /\ \A r \in turnRuns'[b] : TurnOf(r) = orch'[b]
             /\ orch'[b] # NoRun => orch'[b] \in turnRuns'[b] /\ ConvOf[orch'[b]] = b
             /\ \A p \in Asks : Answerable(b, p)' => AskedBy[p] \in turnRuns'[b]
    BY DEF TurnIsWhole
  <2>5. \A r \in Runs : runToConv'[r] = IF r = d THEN c ELSE runToConv[r]
    BY <1>1, <2>2 DEF DispatcherTypeOK
  <2>6. CASE b = c
    <3>1. turnRuns'[c] = turnRuns[c] \cup {d}
      BY <2>1, <2>2 DEF DispatcherTypeOK
    <3>2. turnRuns[c] = {r \in Runs : runToConv[r] = c}
      BY <2>1 DEF TurnIsWhole
    <3>3. turnRuns'[c] = {r \in Runs : runToConv'[r] = c}
      BY <1>1, <2>5, <3>1, <3>2
    <3>4. \A r \in turnRuns'[c] : TurnOf(r) = orch'[c]
      BY <1>1, <1>2, <2>1, <2>3, <3>1 DEF TurnIsWhole
    <3> QED BY <1>2, <1>3, <2>1, <2>6, <3>1, <3>3, <3>4 DEF TurnIsWhole
  <2>7. CASE b # c
    <3>1. turnRuns'[b] = turnRuns[b]
      BY <2>2, <2>7 DEF DispatcherTypeOK
    <3>2. \A r \in Runs : runToConv'[r] = b <=> runToConv[r] = b
      BY <2>4, <2>5, <2>7
    <3> QED BY <1>2, <1>3, <3>1, <3>2 DEF TurnIsWhole
  <2> QED BY <2>6, <2>7
<1> QED BY <1>4, <1>5

\* A prompt shows in the conversation its run is registered in.
LEMMA RaiseWhole ==
  ASSUME DispatcherTypeOK, TurnIsWhole, NEW q \in Asks, Raise(q)
  PROVE  TurnIsWhole'
<1> DEFINE c == runToConv[AskedBy[q]]
<1>1. AskedBy[q] \in Runs
  BY DispatcherAssumption
<1>2. UNCHANGED <<orch, turnRuns, runToConv>>
  BY DEF Raise
<1>3. CASE c = NoConv
  <2>1. UNCHANGED waitVars
    BY <1>3 DEF Raise
  <2> QED BY <1>2, <2>1, QuietStep DEF waitVars, Answerable
<1>4. CASE c # NoConv
  <2>1. c \in Convs /\ Shows(c, q)
    BY <1>1, <1>4 DEF Raise, DispatcherTypeOK
  <2>2. AskedBy[q] \in turnRuns[c]
    BY <1>1, <2>1 DEF TurnIsWhole
  <2> HIDE DEF c
  <2>3. \A b \in Convs, p \in Asks : Answerable(b, p)' => Answerable(b, p) \/ (b = c /\ p = q)
    <3> TAKE b \in Convs, p \in Asks
    <3>1. p \in tokens'[b] => p \in tokens[b] \/ (b = c /\ p = q)
      BY <2>1 DEF Shows, DispatcherTypeOK
    <3>2. Contains(approvals'[b], p) => Contains(approvals[b], p) \/ (b = c /\ p = q)
      <4>1. CASE b = c /\ approvals'[c] = Append(approvals[c], q)
        <5>1. approvals[c] \in Seq(Asks)
          BY <2>1 DEF DispatcherTypeOK
        <5> QED BY <4>1, <5>1, ContainsAppend
      <4>2. CASE approvals'[b] = approvals[b]
        BY <4>2
      <4> QED BY <2>1, <4>1, <4>2 DEF Shows, DispatcherTypeOK
    <3>3. question'[b] = p => question[b] = p \/ (b = c /\ p = q)
      BY <2>1 DEF Shows, DispatcherTypeOK
    <3>4. plan'[b] = p => plan[b] = p \/ (b = c /\ p = q)
      BY <2>1 DEF Shows, DispatcherTypeOK
    <3> QED BY <3>1, <3>2, <3>3, <3>4 DEF Answerable
  <2> QED BY <1>2, <2>2, <2>3, QuietStep
<1> QED BY <1>3, <1>4

\* A tap or a typed answer only takes prompts away.
LEMMA AnswerWhole ==
  ASSUME DispatcherTypeOK, TurnIsWhole, NEW c \in Convs,
         \/ TypeAnswer(c) \/ TypeVerdict(c)
         \/ \E q \in Asks : Tap(c, q)
  PROVE  TurnIsWhole'
<1>1. UNCHANGED <<orch, turnRuns, runToConv>>
  BY DEF TypeAnswer, TypeVerdict, Tap, Resolve
<1>2. ASSUME NEW b \in Convs, NEW p \in Asks, Answerable(b, p)' PROVE Answerable(b, p)
  <2>1. p # NoAsk
    BY DispatcherAssumption
  <2>2. CASE TypeAnswer(c)
    BY <1>2, <2>1, <2>2 DEF TypeAnswer, Answerable, DispatcherTypeOK
  <2>3. CASE \E q \in Asks : Tap(c, q)
    BY <1>2, <2>1, <2>3 DEF Tap, Answerable, DispatcherTypeOK
  <2>4. CASE TypeVerdict(c)
    <3>1. approvals[c] \in Seq(Asks)
      BY DEF DispatcherTypeOK
    <3>2. CASE b = c /\ approvals[c] # << >> /\ approvals' = [approvals EXCEPT ![c] = Tail(@)]
      <4>1. approvals'[c] = Tail(approvals[c])
        BY <3>2 DEF DispatcherTypeOK
      <4>2. Contains(approvals'[c], p) => Contains(approvals[c], p)
        BY <3>1, <3>2, <4>1, ContainsTail
      <4>3. UNCHANGED <<tokens, question, plan>>
        BY <2>4, <3>2 DEF TypeVerdict
      <4> QED BY <1>2, <3>2, <4>2, <4>3 DEF Answerable
    <3>3. CASE ~(b = c /\ approvals[c] # << >>)
      BY <1>2, <2>1, <2>4, <3>3 DEF TypeVerdict, Answerable, DispatcherTypeOK
    <3> QED BY <2>4, <3>2, <3>3 DEF TypeVerdict
  <2> QED BY <2>2, <2>3, <2>4
<1> QED BY <1>1, <1>2, QuietStep

------------------------------------------------------------------------------
(* The invariant.                                                          *)

\* The claim is given up when the turn begins, fails to, or was never taken.
LEMMA ClaimStep ==
  ASSUME DispatcherTypeOK, ClaimHeld, [Next]_vars
  PROVE  ClaimHeld'
<1>1. ASSUME UNCHANGED <<orch, stage>> PROVE ClaimHeld'
  BY <1>1 DEF ClaimHeld
<1>2. ASSUME \A m \in Messages : stage'[m] \in {"composing", "opening"} =>
                                   stage[m] \in {"composing", "opening"},
             \A c \in Convs : orch'[c] = orch[c] \/ orch'[c] = NoRun
      PROVE  ClaimHeld'
  BY <1>2, OwnTurn DEF ClaimHeld
<1>3. ASSUME NEW c \in Convs, EndTurn(c)
      PROVE  \A b \in Convs : orch'[b] = orch[b] \/ orch'[b] = NoRun
  BY <1>3 DEF EndTurn, DispatcherTypeOK
<1>4. ASSUME NEW m \in Messages, Accept(m) PROVE ClaimHeld'
  <2>1. /\ stage' = [stage EXCEPT ![m] = "composing"] /\ orch' = orch
        /\ orch[ConvOf[m]] = NoRun
        /\ \A n \in Messages : ConvOf[n] = ConvOf[m] => stage[n] \notin {"composing", "opening"}
    BY <1>4 DEF Accept, Preparing, OfConv, convVars
  <2> QED BY <2>1 DEF ClaimHeld, DispatcherTypeOK
<1>5. ASSUME NEW m \in Messages, Sent(m) PROVE ClaimHeld'
  <2>1. /\ stage[m] = "opening" /\ stage' = [stage EXCEPT ![m] = "queued"]
        /\ orch' = [orch EXCEPT ![ConvOf[m]] = m]
    BY <1>5 DEF Sent, BeginTurn
  <2> QED BY <2>1, OwnTurn DEF ClaimHeld, DispatcherTypeOK
<1>6. ASSUME NEW m \in Messages,
             Composed(m) \/ PrepareFails(m) \/ Drives(m) \/ EndsUnheard(m)
      PROVE  ClaimHeld'
  <2>1. orch' = orch
    BY <1>6 DEF Composed, PrepareFails, Drives, EndsUnheard, convVars
  <2>2. \A n \in Messages : stage'[n] \in {"composing", "opening"} =>
                               stage[n] \in {"composing", "opening"}
    BY <1>6 DEF Composed, PrepareFails, Drives, EndsUnheard, DispatcherTypeOK
  <2> QED BY <1>2, <2>1, <2>2
<1>7. ASSUME NEW m \in Messages, Errs(m) \/ Finishes(m) PROVE ClaimHeld'
  <2>1. \A n \in Messages : stage'[n] \in {"composing", "opening"} =>
                               stage[n] \in {"composing", "opening"}
    BY <1>7 DEF Errs, Finishes, DispatcherTypeOK
  <2>2. EndTurn(ConvOf[m]) \/ orch' = orch
    BY <1>7 DEF Errs, Finishes, LastWords, convVars
  <2> QED BY <1>2, <1>3, <2>1, <2>2, OwnTurn
<1>8. ASSUME NEW m \in Messages, Flushed(m) PROVE ClaimHeld'
  <2>1. EndTurn(ConvOf[m]) /\ stage' = stage
    BY <1>8 DEF Flushed, hostVars
  <2> QED BY <1>2, <1>3, <2>1, OwnTurn
<1>9. ASSUME NEW c \in Convs, New(c) \/ Stop(c) PROVE ClaimHeld'
  <2>1. \A n \in Messages : stage'[n] \in {"composing", "opening"} =>
                               stage[n] \in {"composing", "opening"}
    BY <1>9 DEF New, Stop, HostAbort, hostVars, DispatcherTypeOK
  <2>2. EndTurn(c) \/ orch' = orch
    BY <1>9 DEF New, Stop, convVars
  <2> QED BY <1>2, <1>3, <2>1, <2>2
<1> QED
  <2>1. ASSUME \/ \E c \in Convs : TypeAnswer(c) \/ TypeVerdict(c)
               \/ \E c \in Convs, p \in Asks : Tap(c, p)
               \/ \E d \in Subs : Spawn(d)
               \/ \E p \in Asks : Raise(p)
               \/ UNCHANGED vars
        PROVE  ClaimHeld'
    <3>1. UNCHANGED <<orch, stage>>
      BY <2>1 DEF TypeAnswer, TypeVerdict, Tap, Resolve, Spawn, Raise, vars, hostVars, convVars
    <3> QED BY <1>1, <3>1
  <2> QED BY <1>4, <1>5, <1>6, <1>7, <1>8, <1>9, <2>1 DEF Next

\* The registered turn stays whole.
LEMMA TurnStep ==
  ASSUME TurnInvariant, [Next]_vars
  PROVE  TurnIsWhole'
<1> USE DEF TurnInvariant
<1>1. ASSUME UNCHANGED convVars PROVE TurnIsWhole'
  BY <1>1 DEF TurnIsWhole, Answerable, convVars, waitVars
<1>2. ASSUME NEW m \in Messages,
             Accept(m) \/ Composed(m) \/ PrepareFails(m) \/ Drives(m) \/ EndsUnheard(m)
      PROVE  TurnIsWhole'
  BY <1>1, <1>2 DEF Accept, Composed, PrepareFails, Drives, EndsUnheard
<1>3. ASSUME NEW m \in Messages, Sent(m) PROVE TurnIsWhole'
  <2>1. orch[ConvOf[m]] = NoRun /\ BeginTurn(ConvOf[m], m)
    BY <1>3 DEF Sent, ClaimHeld
  <2> QED BY <2>1, BeginTurnWhole
<1>4. ASSUME NEW m \in Messages, Errs(m) \/ Finishes(m) \/ Flushed(m) PROVE TurnIsWhole'
  <2>1. EndTurn(ConvOf[m]) \/ UNCHANGED convVars
    BY <1>4 DEF Errs, Finishes, Flushed, LastWords
  <2> QED BY <1>1, <2>1, EndTurnWhole, OwnTurn
<1>5. ASSUME NEW c \in Convs, New(c) \/ Stop(c) PROVE TurnIsWhole'
  <2>1. EndTurn(c) \/ UNCHANGED convVars
    BY <1>5 DEF New, Stop
  <2> QED BY <1>1, <2>1, EndTurnWhole
<1>6. ASSUME NEW c \in Convs,
             TypeAnswer(c) \/ TypeVerdict(c) \/ \E p \in Asks : Tap(c, p)
      PROVE  TurnIsWhole'
  BY <1>6, AnswerWhole
<1>7. CASE UNCHANGED vars
  BY <1>1, <1>7 DEF vars
<1> QED
  BY <1>2, <1>3, <1>4, <1>5, <1>6, <1>7, SpawnWhole, RaiseWhole DEF Next

\* No message has been sent, and nothing is registered.
LEMMA TurnBegins == Init => TurnInvariant
<1> SUFFICES ASSUME Init PROVE TurnInvariant
  OBVIOUS
<1>1. << >> \in Seq(Asks)
  OBVIOUS
<1>2. DispatcherTypeOK
  BY <1>1 DEF Init, DispatcherTypeOK, Stages
<1>3. ClaimHeld
  BY DEF Init, ClaimHeld
<1>4. TurnIsWhole
  <2> SUFFICES ASSUME NEW c \in Convs
      PROVE  /\ turnRuns[c] = {r \in Runs : runToConv[r] = c}
             /\ \A r \in turnRuns[c] : TurnOf(r) = orch[c]
             /\ orch[c] # NoRun => orch[c] \in turnRuns[c] /\ ConvOf[orch[c]] = c
             /\ \A p \in Asks : Answerable(c, p) => AskedBy[p] \in turnRuns[c]
    BY DEF TurnIsWhole
  <2>1. turnRuns[c] = {} /\ orch[c] = NoRun /\ \A r \in Runs : runToConv[r] # c
    BY DispatcherAssumption DEF Init
  <2>2. \A p \in Asks : ~Answerable(c, p)
    BY DispatcherAssumption, ContainsNone DEF Init, Answerable
  <2> QED BY <2>1, <2>2
<1> QED BY <1>2, <1>3, <1>4 DEF TurnInvariant

\* A step of the dispatcher, or of none, keeps the invariant.
LEMMA TurnKept == TurnInvariant /\ [Next]_vars => TurnInvariant'
BY TypeStep, ClaimStep, TurnStep DEF TurnInvariant

------------------------------------------------------------------------------
(* The theorems.                                                           *)

\* Of the whole gateway: whatever messages, commands, taps and events come, and
\* whatever channels do, the dispatcher's state is what its invariant says.
LEMMA TurnAlways == GatewaySpec => []TurnInvariant
<1>1. GatewayInit => TurnInvariant
  BY TurnBegins DEF GatewayInit, ConversationsInit, InboundInit, AnswerInit, AccessInit, LoginInit
<1>2. TurnInvariant /\ [GatewayNext]_gatewayVars => TurnInvariant'
  BY PartSteps, TurnKept
<1> QED BY <1>1, <1>2, PTL DEF GatewaySpec, gatewayVars

\* The dispatcher's variables keep their types.
THEOREM DispatcherTypeCorrect == GatewaySpec => []DispatcherTypeOK
<1>1. TurnInvariant => DispatcherTypeOK
  BY DEF TurnInvariant
<1> QED BY <1>1, TurnAlways, PTL

\* A conversation never holds a run or a prompt of any other turn than the one it
\* has registered (beginTurn, endTurn, handleEvent).
THEOREM TurnStaysWhole == GatewaySpec => []TurnIsWhole
<1>1. TurnInvariant => TurnIsWhole
  BY DEF TurnInvariant
<1> QED BY <1>1, TurnAlways, PTL

\* Two messages are never prepared for one conversation at once, nor one while a
\* turn is registered (handleInbound's guards and prepareTurn's claim, which is
\* taken before attachments are awaited).
THEOREM OneClaimEach == GatewaySpec => []ClaimHeld
<1>1. TurnInvariant => ClaimHeld
  BY DEF TurnInvariant
<1> QED BY <1>1, TurnAlways, PTL

------------------------------------------------------------------------------
(* Prompts stay answerable.                                                *)

\* A prompt in the queue stays there when one is added, and when another is taken.
LEMMA ContainsStill ==
  ASSUME NEW S, NEW s \in Seq(S), NEW x, Contains(s, x)
  PROVE  /\ \A e \in S : Contains(Append(s, e), x)
         /\ s # <<>> /\ x # Head(s) => Contains(Tail(s), x)
<1>1. PICK i \in 1..Len(s) : s[i] = x
  BY DEF Contains
<1>2. ASSUME NEW e \in S PROVE Contains(Append(s, e), x)
  <2>1. i \in 1..Len(Append(s, e)) /\ Append(s, e)[i] = x
    BY <1>1
  <2> QED BY <2>1 DEF Contains
<1>3. ASSUME s # <<>>, x # Head(s) PROVE Contains(Tail(s), x)
  <2>1. i # 1
    BY <1>1, <1>3
  <2>2. i - 1 \in 1..Len(Tail(s)) /\ Tail(s)[i - 1] = x
    BY <1>1, <1>3, <2>1
  <2> QED BY <2>2 DEF Contains
<1> QED BY <1>2, <1>3

\* The conversation's question or plan is settled or replaced.
Replaced(c, p) == question'[c] # question[c] \/ plan'[c] # plan[c]

\* What a step may do to a prompt that was answerable.
StaysAnswerable ==
  \A c \in Convs, p \in Asks :
     /\ Answerable(c, p) /\ ~Answerable(c, p)'
     /\ p \in pending' /\ orch'[c] = orch[c]
     => Replaced(c, p)

\* A conversation with no turn has nothing to answer.
LEMMA NothingAsked ==
  ASSUME TurnInvariant, NEW c \in Convs, orch[c] = NoRun, NEW p \in Asks
  PROVE  ~Answerable(c, p)
BY NothingHeld DEF TurnInvariant, TurnIsWhole

\* Taking a turn down, or beginning one, changes which one is registered.
LEMMA TurnDown ==
  ASSUME TurnInvariant, NEW c \in Convs, EndTurn(c) \/ \E m \in Messages : orch[c] = NoRun /\ BeginTurn(c, m)
  PROVE  StaysAnswerable
<1> SUFFICES ASSUME NEW d \in Convs, NEW p \in Asks, Answerable(d, p), ~Answerable(d, p)', orch'[d] = orch[d]
    PROVE  FALSE
  BY DEF StaysAnswerable
<1> USE DEF TurnInvariant, DispatcherTypeOK
<1>1. CASE d # c
  BY <1>1 DEF EndTurn, BeginTurn, ClearWaits, Answerable
<1>2. CASE d = c
  <2>1. orch[c] = NoRun
    BY <1>2, DispatcherAssumption DEF EndTurn, BeginTurn, Runs
  <2> QED BY <2>1, <1>2, NothingAsked
<1> QED BY <1>1, <1>2

\* Every step of the dispatcher, by the action it takes.
LEMMA AnswerStays ==
  ASSUME TurnInvariant, [Next]_vars
  PROVE  StaysAnswerable
<1> USE DEF TurnInvariant, DispatcherTypeOK
<1>1. ASSUME UNCHANGED waitVars PROVE StaysAnswerable
  BY <1>1 DEF StaysAnswerable, Answerable, waitVars
<1>2. ASSUME NEW m \in Messages,
             Accept(m) \/ Composed(m) \/ PrepareFails(m) \/ Drives(m) \/ EndsUnheard(m)
      PROVE  StaysAnswerable
  BY <1>1, <1>2 DEF Accept, Composed, PrepareFails, Drives, EndsUnheard, convVars
<1>3. ASSUME NEW m \in Messages, Sent(m) PROVE StaysAnswerable
  <2>1. orch[ConvOf[m]] = NoRun /\ BeginTurn(ConvOf[m], m)
    BY <1>3 DEF Sent, ClaimHeld
  <2> QED BY <2>1, TurnDown, OwnTurn
<1>4. ASSUME NEW m \in Messages, Errs(m) \/ Finishes(m) \/ Flushed(m) PROVE StaysAnswerable
  <2>1. EndTurn(ConvOf[m]) \/ UNCHANGED convVars
    BY <1>4 DEF Errs, Finishes, Flushed, LastWords
  <2> QED BY <1>1, <2>1, TurnDown, OwnTurn DEF convVars
<1>5. ASSUME NEW c \in Convs, New(c) \/ Stop(c) PROVE StaysAnswerable
  <2>1. EndTurn(c) \/ UNCHANGED convVars
    BY <1>5 DEF New, Stop
  <2> QED BY <1>1, <2>1, TurnDown DEF convVars
<1>6. ASSUME NEW c \in Convs, TypeAnswer(c) PROVE StaysAnswerable
  <2>1. \A d \in Convs : d # c => tokens'[d] = tokens[d] /\ question'[d] = question[d]
    BY <1>6 DEF TypeAnswer
  <2>2. question'[c] # question[c] /\ approvals' = approvals /\ plan' = plan
    BY <1>6 DEF TypeAnswer
  <2> QED BY <2>1, <2>2 DEF StaysAnswerable, Answerable, Replaced
<1>7. ASSUME NEW c \in Convs, TypeVerdict(c) PROVE StaysAnswerable
  <2> SUFFICES ASSUME NEW d \in Convs, NEW p \in Asks,
                      Answerable(d, p), ~Answerable(d, p)', p \in pending'
      PROVE  Replaced(d, p)
    BY DEF StaysAnswerable
  <2>1. CASE /\ approvals[c] # <<>>
             /\ approvals' = [approvals EXCEPT ![c] = Tail(@)]
             /\ Resolve(Head(approvals[c]))
             /\ UNCHANGED <<tokens, question, plan>>
    <3>1. p # Head(approvals[c])
      BY <2>1 DEF Resolve
    <3>2. Contains(approvals[d], p) => Contains(approvals'[d], p)
      BY <2>1, <3>1, ContainsStill
    <3> QED BY <3>2, <2>1 DEF Answerable
  <2>2. CASE /\ approvals[c] = <<>> /\ plan[c] # NoAsk
             /\ plan' = [plan EXCEPT ![c] = NoAsk]
             /\ Resolve(plan[c])
             /\ UNCHANGED <<tokens, question, approvals>>
    BY <2>2 DEF Answerable, Replaced
  <2> QED BY <1>7, <2>1, <2>2 DEF TypeVerdict
<1>8. ASSUME NEW c \in Convs, NEW q \in Asks, Tap(c, q) PROVE StaysAnswerable
  <2> SUFFICES ASSUME NEW d \in Convs, NEW p \in Asks,
                      Answerable(d, p), ~Answerable(d, p)', p \in pending'
      PROVE  Replaced(d, p)
    BY DEF StaysAnswerable
  <2>1. p # q
    BY <1>8 DEF Tap, Resolve
  <2>2. p \in tokens[d] => p \in tokens'[d]
    BY <1>8, <2>1 DEF Tap
  <2> QED BY <1>8, <2>2 DEF Tap, Answerable, Replaced
<1>9. ASSUME NEW d \in Subs, Spawn(d) PROVE StaysAnswerable
  BY <1>1, <1>9 DEF Spawn
<1>10. ASSUME NEW q \in Asks, Raise(q) PROVE StaysAnswerable
  <2>1. CASE UNCHANGED waitVars
    BY <1>1, <2>1
  <2>2. ASSUME NEW c \in Convs, Shows(c, q) PROVE StaysAnswerable
    <3> SUFFICES ASSUME NEW d \in Convs, NEW p \in Asks, Answerable(d, p), ~Answerable(d, p)'
        PROVE  Replaced(d, p)
      BY DEF StaysAnswerable
    <3>1. Contains(approvals[d], p) => Contains(approvals'[d], p)
      BY <2>2, ContainsStill DEF Shows
    <3>2. p \in tokens[d] => p \in tokens'[d]
      BY <2>2 DEF Shows
    <3> QED BY <2>2, <3>1, <3>2 DEF Shows, Answerable, Replaced
  <2>3. runToConv[AskedBy[q]] # NoConv => runToConv[AskedBy[q]] \in Convs
    BY DispatcherAssumption DEF Runs
  <2> QED BY <1>10, <2>1, <2>2, <2>3 DEF Raise
<1>11. CASE UNCHANGED vars
  BY <1>1, <1>11 DEF vars, convVars
<1> QED
  BY <1>2, <1>3, <1>4, <1>5, <1>6, <1>7, <1>8, <1>9, <1>10, <1>11 DEF Next

\* While a conversation's turn stays registered, a prompt the host waits on stays
\* answerable, whatever is tapped, typed and raised beside it; only a question or a
\* plan can be answered or replaced by another (Tap, TypeAnswer, TypeVerdict, Raise).
THEOREM PromptsAreKept == GatewaySpec => PromptsStayAnswerable
<1>1. TurnInvariant /\ [GatewayNext]_gatewayVars => [StaysAnswerable]_vars
  BY PartSteps, AnswerStays
<1> QED
  BY <1>1, TurnAlways, PTL DEF GatewaySpec, gatewayVars, PromptsStayAnswerable, StaysAnswerable, Replaced

------------------------------------------------------------------------------
(* Stopping a turn.                                                        *)

\* What frees a conversation of an aborted turn: the turn drives yet and waits for
\* nothing, so that it may end, or its last words are being sent.  Of a turn that
\* is registered the last words are being sent as soon as it has failed or ended.
StopIsHeld ==
  /\ \A m \in Messages : stage[m] \in {"erred", "ended"} /\ orch[ConvOf[m]] = m => m \in flushing
  /\ \A m \in aborted : stage[m] \in {"driving", "erred", "ended"} /\ (Live(m) => pending \cap Tree(m) = {})

\* A stop is only remembered of a turn that drives, and its prompts are settled then.
LEMMA StopAborts ==
  ASSUME DispatcherTypeOK, StopIsHeld, NEW n \in Messages, HostAbort(n)
  PROVE  /\ \A m \in Messages : stage'[m] \in {"erred", "ended"} => stage[m] = stage'[m]
         /\ \A m \in aborted' : /\ stage'[m] \in {"driving", "erred", "ended"}
                                /\ stage'[m] \in {"driving", "erred"} => pending' \cap Tree(m) = {}
<1>1. ASSUME NEW m \in Messages
      PROVE  stage'[m] = IF m = n /\ stage[m] = "queued" THEN "skipped" ELSE stage[m]
  BY DEF HostAbort, DispatcherTypeOK
<1>2. aborted' \subseteq Messages /\ pending' \subseteq pending
  BY DEF HostAbort, DispatcherTypeOK
<1>3. ASSUME NEW m \in aborted'
      PROVE  /\ stage'[m] \in {"driving", "erred", "ended"}
             /\ stage'[m] \in {"driving", "erred"} => pending' \cap Tree(m) = {}
  <2>1. CASE m \in aborted
    BY <1>1, <1>2, <2>1 DEF StopIsHeld, Live, DispatcherTypeOK
  <2>2. CASE m \notin aborted
    <3>1. m = n /\ Live(n) /\ pending' = pending \ Tree(n)
      BY <2>2 DEF HostAbort
    <3> QED BY <1>1, <3>1 DEF Live
  <2> QED BY <2>1, <2>2
<1> QED BY <1>1, <1>3

\* Taking a turn down leaves no turn of the conversation registered.
LEMMA DownFrees ==
  ASSUME DispatcherTypeOK, NEW c \in Convs, EndTurn(c)
  PROVE  orch'[c] = NoRun /\ \A d \in Convs : d # c => orch'[d] = orch[d]
BY DEF EndTurn, DispatcherTypeOK

\* Every step keeps what frees a conversation of its turn.
LEMMA StopStep ==
  ASSUME TurnInvariant, StopIsHeld, [Next]_vars
  PROVE  StopIsHeld'
<1> USE DEF TurnInvariant
<1> DEFINE Spoken(m) == stage[m] \in {"erred", "ended"} /\ orch[ConvOf[m]] = m => m \in flushing
           Freed(m) == stage[m] \in {"driving", "erred", "ended"}
                         /\ (stage[m] \in {"driving", "erred"} => pending \cap Tree(m) = {})
<1>h. (\A m \in Messages : Spoken(m)) /\ (\A m \in aborted : Freed(m)) /\ NoRun \notin Messages
  BY DispatcherAssumption DEF StopIsHeld, Live, Runs
<1>s. SUFFICES (\A m \in Messages : Spoken(m)') /\ (\A m \in aborted' : Freed(m)')
  BY DEF StopIsHeld, Live, Tree
<1>t. aborted \subseteq Messages /\ stage \in [Messages -> Stages] /\ pending \subseteq Asks
      /\ orch \in [Convs -> Messages \cup {NoRun}] /\ flushing \subseteq Messages
      /\ \A m \in Messages : ConvOf[m] \in Convs
  BY DispatcherAssumption DEF DispatcherTypeOK
<1>m. ASSUME NEW n \in Messages,
             Accept(n) \/ Composed(n) \/ PrepareFails(n) \/ Drives(n) \/ EndsUnheard(n) \/ Sent(n)
      PROVE  (\A m \in Messages : Spoken(m)') /\ (\A m \in aborted' : Freed(m)')
  <2>1. /\ \A m \in Messages : m # n => stage'[m] = stage[m]
        /\ stage'[n] \notin {"erred", "ended"} /\ flushing' = flushing
        /\ pending' = pending /\ aborted' = aborted
    BY <1>m, <1>t DEF Accept, Composed, PrepareFails, Drives, EndsUnheard, Sent, vars, hostVars
  <2>2. ASSUME NEW m \in Messages, m # n PROVE orch'[ConvOf[m]] = m => orch[ConvOf[m]] = m
    <3>1. CASE Sent(n)
      BY <1>t, <2>2, <3>1 DEF Sent, BeginTurn
    <3>2. CASE ~Sent(n)
      BY <1>m, <3>2 DEF Accept, Composed, PrepareFails, Drives, EndsUnheard, convVars
    <3> QED BY <3>1, <3>2
  <2>3. n \in aborted => stage'[n] = "driving" /\ stage[n] = "driving"
    BY <1>m, <1>h, <1>t DEF Accept, Composed, PrepareFails, Drives, EndsUnheard, Sent
  <2> QED BY <1>h, <1>t, <2>1, <2>2, <2>3
<1>w. ASSUME NEW n \in Messages, NEW calls, LastWords(n, calls),
             \A m \in Messages : m # n => stage'[m] = stage[m],
             stage[n] \in {"driving", "erred"}, stage'[n] \in {"erred", "ended"},
             pending' = pending, aborted' = aborted
      PROVE  (\A m \in Messages : Spoken(m)') /\ (\A m \in aborted' : Freed(m)')
  <2>1. ASSUME NEW m \in Messages
        PROVE  (m \in flushing => m \in flushing') /\ (orch'[ConvOf[m]] = m => orch[ConvOf[m]] = m)
    <3>1. CASE UNCHANGED convVars
      BY <1>w, <3>1 DEF LastWords, convVars
    <3>2. CASE EndTurn(ConvOf[n])
      BY <1>w, <1>t, <1>h, <3>2, DownFrees DEF LastWords
    <3> QED BY <1>w, <3>1, <3>2 DEF LastWords
  <2>2. Spoken(n)'
    <3>1. CASE orch[ConvOf[n]] = n
      BY <1>w, <3>1 DEF LastWords
    <3>2. CASE orch[ConvOf[n]] # n
      BY <2>1, <3>2
    <3> QED BY <3>1, <3>2
  <2> QED BY <1>h, <1>t, <1>w, <2>1, <2>2
<1>1. ASSUME NEW n \in Messages, Errs(n)
      PROVE  (\A m \in Messages : Spoken(m)') /\ (\A m \in aborted' : Freed(m)')
  <2>1. LastWords(n, 1) /\ stage[n] = "driving" /\ pending' = pending /\ aborted' = aborted
    BY <1>1 DEF Errs
  <2>2. stage'[n] = "erred" /\ \A m \in Messages : m # n => stage'[m] = stage[m]
    BY <1>1, <1>t DEF Errs
  <2> QED BY <1>w, <2>1, <2>2
<1>2. ASSUME NEW n \in Messages, Finishes(n)
      PROVE  (\A m \in Messages : Spoken(m)') /\ (\A m \in aborted' : Freed(m)')
  <2>1. PICK calls \in {1, 2} : LastWords(n, calls)
    BY <1>2 DEF Finishes
  <2>2. stage[n] \in {"driving", "erred"} /\ pending' = pending /\ aborted' = aborted
    BY <1>2 DEF Finishes, Live
  <2>3. stage'[n] = "ended" /\ \A m \in Messages : m # n => stage'[m] = stage[m]
    BY <1>2, <1>t DEF Finishes
  <2> QED BY <1>w, <2>1, <2>2, <2>3
<1>3. ASSUME NEW n \in Messages, Flushed(n)
      PROVE  (\A m \in Messages : Spoken(m)') /\ (\A m \in aborted' : Freed(m)')
  <2>1. flushing' = flushing \ {n} /\ EndTurn(ConvOf[n]) /\ UNCHANGED hostVars
    BY <1>3 DEF Flushed
  <2>2. orch'[ConvOf[n]] = NoRun /\ \A d \in Convs : d # ConvOf[n] => orch'[d] = orch[d]
    BY <1>t, <2>1, DownFrees
  <2>3. ASSUME NEW m \in Messages PROVE Spoken(m)'
    <3>1. CASE ConvOf[m] = ConvOf[n]
      BY <1>h, <2>2, <3>1
    <3>2. CASE ConvOf[m] # ConvOf[n]
      BY <1>h, <1>t, <2>1, <2>2, <3>2 DEF hostVars
    <3> QED BY <3>1, <3>2
  <2>4. ASSUME NEW m \in aborted' PROVE Freed(m)'
    BY <1>h, <2>1, <2>4 DEF hostVars
  <2> QED BY <2>3, <2>4
<1>4. ASSUME NEW c \in Convs, New(c) \/ Stop(c)
      PROVE  (\A m \in Messages : Spoken(m)') /\ (\A m \in aborted' : Freed(m)')
  <2>1. /\ \A m \in Messages : stage'[m] \in {"erred", "ended"} => stage[m] = stage'[m]
        /\ \A m \in aborted' : Freed(m)'
    <3>1. CASE UNCHANGED hostVars
      BY <1>h, <3>1 DEF hostVars
    <3>2. CASE orch[c] # NoRun /\ HostAbort(orch[c])
      <4>1. orch[c] \in Messages
        BY <1>t, <3>2
      <4> QED BY <3>2, <4>1, StopAborts
    <3> QED BY <1>4, <3>1, <3>2 DEF New, Stop
  <2>2. flushing' = flushing
    BY <1>4 DEF New, Stop
  <2>3. ASSUME NEW m \in Messages PROVE orch'[ConvOf[m]] = m => orch[ConvOf[m]] = m
    <3>1. CASE New(c)
      <4>1. EndTurn(c)
        BY <3>1 DEF New
      <4> QED BY <1>h, <1>t, <4>1, DownFrees
    <3>2. CASE Stop(c)
      BY <3>2 DEF Stop, convVars
    <3> QED BY <1>4, <3>1, <3>2
  <2> QED BY <1>h, <2>1, <2>2, <2>3
<1>q. ASSUME UNCHANGED <<stage, aborted, orch, flushing>>, pending' \subseteq pending
      PROVE  (\A m \in Messages : Spoken(m)') /\ (\A m \in aborted' : Freed(m)')
  BY <1>h, <1>q
<1>5. ASSUME NEW c \in Convs, TypeAnswer(c) \/ TypeVerdict(c)
      PROVE  (\A m \in Messages : Spoken(m)') /\ (\A m \in aborted' : Freed(m)')
  BY <1>5, <1>q DEF TypeAnswer, TypeVerdict, Resolve
<1>6. ASSUME NEW c \in Convs, NEW p \in Asks, Tap(c, p)
      PROVE  (\A m \in Messages : Spoken(m)') /\ (\A m \in aborted' : Freed(m)')
  BY <1>6, <1>q DEF Tap, Resolve
<1>7. ASSUME NEW d \in Subs, Spawn(d)
      PROVE  (\A m \in Messages : Spoken(m)') /\ (\A m \in aborted' : Freed(m)')
  BY <1>7, <1>q DEF Spawn
<1>8. ASSUME NEW p \in Asks, Raise(p)
      PROVE  (\A m \in Messages : Spoken(m)') /\ (\A m \in aborted' : Freed(m)')
  <2>1. UNCHANGED <<stage, aborted, orch, flushing>> /\ pending' = pending \cup {p}
        /\ TurnOf(AskedBy[p]) \notin aborted
    BY <1>8 DEF Raise
  <2>2. ASSUME NEW m \in aborted' PROVE pending' \cap Tree(m) = pending \cap Tree(m)
    BY <2>1, <2>2 DEF Tree
  <2> QED BY <1>h, <2>1, <2>2
<1>9. CASE UNCHANGED vars
  BY <1>9, <1>q DEF vars, hostVars, convVars
<1> QED
  <2> HIDE DEF Spoken, Freed, TurnInvariant
  <2> QED BY <1>m, <1>1, <1>2, <1>3, <1>4, <1>5, <1>6, <1>7, <1>8, <1>9 DEF Next

\* What frees a conversation of a turn that was stopped is always there.  An aborted
\* turn whose conversation still has it either drives and waits for no prompt, so
\* that its run may end, or has its last words on their way, after which it is taken
\* down (Session.abort, finishTurn and failTurn, flush).  That one of the two steps
\* is taken is what is left of StopFrees.
THEOREM StoppedIsFreed ==
  GatewaySpec => [](\A m \in aborted : orch[ConvOf[m]] = m =>
                      (Live(m) /\ pending \cap Tree(m) = {}) \/ m \in flushing)
<1>1. GatewayInit => StopIsHeld
  <2>1. Init => StopIsHeld
    BY DEF Init, StopIsHeld
  <2> QED BY <2>1 DEF GatewayInit, ConversationsInit, InboundInit, AnswerInit, AccessInit, LoginInit
<1>2. TurnInvariant /\ StopIsHeld /\ [GatewayNext]_gatewayVars => StopIsHeld'
  BY PartSteps, StopStep
<1>3. DispatcherTypeOK /\ StopIsHeld
        => \A m \in aborted : orch[ConvOf[m]] = m =>
             (Live(m) /\ pending \cap Tree(m) = {}) \/ m \in flushing
  BY DEF StopIsHeld, Live, DispatcherTypeOK
<1>4. TurnInvariant => DispatcherTypeOK
  BY DEF TurnInvariant
<1> QED BY <1>1, <1>2, <1>3, <1>4, TurnAlways, PTL DEF GatewaySpec, gatewayVars

------------------------------------------------------------------------------
(* Channels.                                                               *)

\* The larger of two numbers, as the community module defines it.
LEMMA TheLarger ==
  ASSUME NEW a \in Nat, NEW b \in Nat
  PROVE  Max({a, b}) = IF a >= b THEN a ELSE b
<1> DEFINE m == IF a >= b THEN a ELSE b
<1>1. m \in {a, b} /\ \A y \in {a, b} : m >= y
  OBVIOUS
<1>2. \A x \in {a, b} : (\A y \in {a, b} : x >= y) => x = m
  OBVIOUS
<1> QED BY <1>1, <1>2 DEF Max

\* Where a loop can be.
Places == {"none", "top", "asking", "answered", "batch", "fetching", "fetched"}

\* Where the loops are, and how far what they carry reaches.
LoopsFit ==
  /\ loop \in [Loops -> [at : Places, next : Nat, last : 0..posted]]
  /\ \A l \in Loops :
       /\ loop[l].at \notin {"none", "top"} => loop[l].next > 0
       /\ loop[l].at \in {"fetching", "fetched"} => loop[l].next <= loop[l].last

\* The types, and that a running channel is below the breaker's threshold.
ChannelShape ==
  /\ ChannelsTypeOK
  /\ state = "running" => failures < FailThreshold
  /\ LoopsFit

\* One loop polls, unless two have crossed.
OneLoop == ~crossed => \A k, l \in Loops : {k, l} \subseteq LiveLoops => k = l

\* A message the channel has done with: handed on, or dropped for want of content.
Past(m) == handed[m] > 0 \/ m \in lost

\* What is dropped had nothing but media.
LostBare == \A m \in lost : NothingLeft(m)

\* Telegram: all a loop has passed over is done with, but the message in its hands.
TelegramKept ==
  ~crossed /\ Telegram =>
    /\ \A m \in 1..forgotten : Past(m)
    /\ \A m \in 1..mark : Past(m) \/ \E l \in Loops : loop[l].at \in {"fetching", "fetched"} /\ loop[l].next = m
    /\ \A l \in Loops : loop[l].at \in {"asking", "answered", "batch", "fetching", "fetched"} =>
         \A m \in 1..(loop[l].next - 1) : Past(m)

\* WeChat: nothing past the cursor was handed on, nor what the loop has still to look at.
WeixinKept ==
  ~crossed /\ ~Telegram /\ ~torn =>
    /\ \A m \in Inbound : handed[m] <= 1 /\ (m > mark => handed[m] = 0)
    /\ \A l \in Loops :
         /\ loop[l].at \in {"asking", "answered"} => loop[l].next = mark + 1
         /\ loop[l].at = "answered" => mark <= loop[l].last
         /\ loop[l].at \in {"batch", "fetching", "fetched"} =>
              /\ mark = loop[l].last
              /\ \A m \in Inbound : m >= loop[l].next => handed[m] = 0

\* All of it: inductive.
ChannelInvariant == ChannelShape /\ OneLoop /\ LostBare /\ TelegramKept /\ WeixinKept

\* Where a step leaves the loop that takes it; the others stay.
Moved(l, a, n, e) == loop' = [loop EXCEPT ![l] = [at |-> a, next |-> n, last |-> e]]

\* What a loop carries.
LEMMA LoopFacts ==
  ASSUME ChannelShape, NEW l \in Loops
  PROVE  /\ loop[l].at \in Places /\ loop[l].next \in Nat /\ loop[l].last \in 0..posted
         /\ posted \in 0..MaxMessages /\ mark \in 0..posted /\ forgotten \in 0..posted
         /\ loop[l].at \notin {"none", "top"} => loop[l].next > 0
         /\ loop[l].at \in {"fetching", "fetched"} => loop[l].next <= loop[l].last
BY DEF ChannelShape, ChannelsTypeOK, LoopsFit

\* A loop is its three fields.
LEMMA LoopRecord ==
  ASSUME ChannelShape, NEW l \in Loops
  PROVE  loop[l] = [at |-> loop[l].at, next |-> loop[l].next, last |-> loop[l].last]
BY DEF ChannelShape, LoopsFit

\* What each step of a loop leaves it with.
LEMMA LoopMoves ==
  ASSUME ChannelShape, NEW l \in Loops
  PROVE  /\ Ask(l) => IF running THEN Moved(l, "asking", mark + 1, 0) ELSE Moved(l, "none", 0, 0)
         /\ Answer(l) => Moved(l, "answered",
                               IF Telegram THEN Max({loop[l].next, forgotten + 1}) ELSE loop[l].next,
                               posted)
         /\ Arrive(l) => Moved(l, "batch", loop[l].next, loop[l].last)
         /\ Take(l) => IF Duplicate(loop[l].next)
                       THEN Moved(l, "batch", loop[l].next + 1, loop[l].last)
                       ELSE Moved(l, "fetching", loop[l].next, loop[l].last)
         /\ FetchFails(l) => Moved(l, "fetched", loop[l].next, loop[l].last)
         /\ Hand(l) \/ Drop(l) => Moved(l, "batch", loop[l].next + 1, loop[l].last)
         /\ BatchDone(l) => Moved(l, "top", 0, 0)
         /\ PollFails(l) => IF running THEN Moved(l, "top", 0, 0) ELSE Moved(l, "none", 0, 0)
<1> USE DEF ChannelShape, LoopsFit, Moved, NoLoop, AtTop
<1>1. Ask(l) => IF running THEN Moved(l, "asking", mark + 1, 0) ELSE Moved(l, "none", 0, 0)
  BY DEF Ask
<1>2. Answer(l) => Moved(l, "answered",
                               IF Telegram THEN Max({loop[l].next, forgotten + 1}) ELSE loop[l].next,
                               posted)
  <2> SUFFICES ASSUME Answer(l)
      PROVE  Moved(l, "answered",
                   IF Telegram THEN Max({loop[l].next, forgotten + 1}) ELSE loop[l].next, posted)
    OBVIOUS
  <2> DEFINE n == IF Telegram THEN Max({loop[l].next, forgotten + 1}) ELSE loop[l].next
  <2>1. loop' = [loop EXCEPT ![l] = [loop[l] EXCEPT !.at = "answered", !.last = posted, !.next = n]]
    BY DEF Answer
  <2> HIDE DEF n
  <2>2. [loop[l] EXCEPT !.at = "answered", !.last = posted, !.next = n]
          = [at |-> "answered", next |-> n, last |-> posted]
    <3>1. loop[l] = [at |-> loop[l].at, next |-> loop[l].next, last |-> loop[l].last]
      BY LoopRecord
    <3>2. [loop[l] EXCEPT !.at = "answered", !.last = posted, !.next = n]
            = [[[loop[l] EXCEPT !.at = "answered"] EXCEPT !.last = posted] EXCEPT !.next = n]
      OBVIOUS
    <3>3. [loop[l] EXCEPT !.at = "answered"]
            = [at |-> "answered", next |-> loop[l].next, last |-> loop[l].last]
      BY <3>1
    <3>4. [[at |-> "answered", next |-> loop[l].next, last |-> loop[l].last] EXCEPT !.last = posted]
            = [at |-> "answered", next |-> loop[l].next, last |-> posted]
      OBVIOUS
    <3>5. [[at |-> "answered", next |-> loop[l].next, last |-> posted] EXCEPT !.next = n]
            = [at |-> "answered", next |-> n, last |-> posted]
      OBVIOUS
    <3> QED BY <3>2, <3>3, <3>4, <3>5
  <2>3. Moved(l, "answered", n, posted)
    BY <2>1, <2>2 DEF Moved
  <2> QED BY <2>3 DEF n
<1>3. Arrive(l) => Moved(l, "batch", loop[l].next, loop[l].last)
  BY DEF Arrive
<1>4. Take(l) => IF Duplicate(loop[l].next)
                       THEN Moved(l, "batch", loop[l].next + 1, loop[l].last)
                       ELSE Moved(l, "fetching", loop[l].next, loop[l].last)
  BY ZenonT(40) DEF Take
<1>5. FetchFails(l) => Moved(l, "fetched", loop[l].next, loop[l].last)
  BY DEF FetchFails
<1>6. Hand(l) \/ Drop(l) => Moved(l, "batch", loop[l].next + 1, loop[l].last)
  BY DEF Hand, Drop
<1>7. BatchDone(l) => Moved(l, "top", 0, 0)
  BY DEF BatchDone
<1>8. PollFails(l) => IF running THEN Moved(l, "top", 0, 0) ELSE Moved(l, "none", 0, 0)
  BY DEF PollFails
<1> QED BY <1>1, <1>2, <1>3, <1>4, <1>5, <1>6, <1>7, <1>8

\* A loop that moves to a fitting place keeps the shape of all.
LEMMA MovedFits ==
  ASSUME ChannelShape, NEW l \in Loops, NEW a \in Places, NEW n \in Nat, NEW e \in 0..posted,
         Moved(l, a, n, e), a \notin {"none", "top"} => n > 0,
         a \in {"fetching", "fetched"} => n <= e, posted' = posted
  PROVE  LoopsFit'
<1> DEFINE r == [at |-> a, next |-> n, last |-> e]
<1> USE DEF ChannelShape
<1>1. r \in [at : Places, next : Nat, last : 0..posted]
  OBVIOUS
<1>2. loop' \in [Loops -> [at : Places, next : Nat, last : 0..posted]]
  BY <1>1 DEF Moved, LoopsFit
<1>3. \A k \in Loops : k # l => loop'[k] = loop[k]
  BY DEF Moved, LoopsFit
<1>4. loop'[l] = r
  BY DEF Moved, LoopsFit
<1> QED BY <1>2, <1>3, <1>4 DEF LoopsFit

\* The breaker's count stays below its threshold while the channel runs.
CountFits ==
  /\ failures \in 0..FailThreshold /\ running \in BOOLEAN
  /\ state \in {"running", "paused", "error"}
  /\ state = "running" => failures < FailThreshold

\* Counting a failure trips the breaker in time.
LEMMA CountedFits ==
  ASSUME CountFits, Counted PROVE CountFits'
<1>1. CASE state # "running"
  BY <1>1 DEF Counted, CountFits
<1>2. CASE state = "running" /\ failures + 1 >= FailThreshold
  <2>1. failures' = failures + 1 /\ state' = "error" /\ running' = FALSE
    BY <1>2 DEF Counted
  <2>2. running' \in BOOLEAN
    BY <2>1
  <2>3. failures' \in 0..FailThreshold
    BY <1>2, <2>1, ChannelsAssumption DEF CountFits
  <2> QED BY <2>1, <2>2, <2>3 DEF CountFits
<1>3. CASE state = "running" /\ ~(failures + 1 >= FailThreshold)
  <2>1. failures' = failures + 1 /\ state' = state /\ running' = running
    BY <1>3 DEF Counted
  <2> QED BY <1>3, <2>1, ChannelsAssumption DEF CountFits
<1> QED BY <1>1, <1>2, <1>3

\* The shape says so.
LEMMA CountFitsNow == ChannelShape => CountFits
BY DEF ChannelShape, ChannelsTypeOK, CountFits

\* Every step keeps the shape.
LEMMA ChannelShapeStep ==
  ASSUME ChannelShape, [ChannelsNext]_channelVars
  PROVE  ChannelShape'
<1>0. ASSUME LoopsFit', CountFits',
             posted' \in 0..MaxMessages, forgotten' \in 0..posted', mark' \in 0..posted',
             UNCHANGED <<kind, crossed, torn>>, seen' \subseteq Inbound,
             handed' \in [Inbound -> Nat], lost' \subseteq Inbound
      PROVE  ChannelShape'
  <2>1. kind' \in {"telegram", "weixin"} /\ {crossed, torn}' \subseteq BOOLEAN
    BY <1>0 DEF ChannelShape, ChannelsTypeOK
  <2>2. \A l \in Loops : loop'[l].at \in Places
    BY <1>0 DEF LoopsFit
  <2> QED BY <1>0, <2>1, <2>2 DEF ChannelShape, ChannelsTypeOK, Places, CountFits
<1>f. /\ kind \in {"telegram", "weixin"} /\ posted \in 0..MaxMessages
      /\ forgotten \in 0..posted /\ mark \in 0..posted
      /\ seen \subseteq Inbound /\ handed \in [Inbound -> Nat] /\ lost \subseteq Inbound
      /\ MaxMessages \in Nat
  BY ChannelsAssumption DEF ChannelShape, ChannelsTypeOK
<1>1. ASSUME NEW l \in Loops, Ask(l) PROVE ChannelShape'
  <2>c. CountFits'
    BY <1>1, CountFitsNow, ChannelsAssumption DEF Ask, CountFits
  <2>1. CASE running
    <3>1. Moved(l, "asking", mark + 1, 0)
      BY <1>1, <2>1, LoopMoves
    <3>2. LoopsFit'
      BY <1>1, <1>f, <3>1, MovedFits DEF Ask, Elsewhere, Places
    <3>3. Max({forgotten, mark}) \in 0..posted
      BY <1>f, TheLarger
    <3> QED BY <1>0, <2>c, <1>1, <1>f, <3>2, <3>3 DEF Ask, Elsewhere
  <2>2. CASE ~running
    <3>1. Moved(l, "none", 0, 0)
      BY <1>1, <2>2, LoopMoves
    <3>2. LoopsFit'
      BY <1>1, <1>f, <3>1, MovedFits DEF Ask, Elsewhere, Places
    <3> QED BY <1>0, <2>c, <1>1, <1>f, <2>2, <3>2 DEF Ask, Elsewhere
  <2> QED BY <2>1, <2>2
<1>2. ASSUME NEW l \in Loops, Answer(l) PROVE ChannelShape'
  <2>c. CountFits'
    BY <1>2, CountFitsNow, ChannelsAssumption DEF Answer, CountFits
  <2> DEFINE n == IF Telegram THEN Max({loop[l].next, forgotten + 1}) ELSE loop[l].next
  <2>1. Moved(l, "answered", n, posted)
    BY <1>2, LoopMoves
  <2>2. n \in Nat /\ n > 0
    <3>1. loop[l].next \in Nat /\ loop[l].next > 0
      BY <1>2, LoopFacts DEF Answer
    <3>2. Max({loop[l].next, forgotten + 1}) \in Nat /\ Max({loop[l].next, forgotten + 1}) > 0
      BY <1>f, <3>1, TheLarger
    <3> QED BY <3>1, <3>2
  <2> HIDE DEF n
  <2>3. LoopsFit'
    BY <1>2, <1>f, <2>1, <2>2, MovedFits DEF Answer, Elsewhere, Places
  <2> QED BY <1>0, <2>c, <1>2, <1>f, <2>3 DEF Answer, Elsewhere
<1>3. ASSUME NEW l \in Loops, Arrive(l) PROVE ChannelShape'
  <2>c. CountFits'
    BY <1>3, CountFitsNow, ChannelsAssumption DEF Arrive, CountFits
  <2>1. Moved(l, "batch", loop[l].next, loop[l].last)
    BY <1>3, LoopMoves
  <2>2. LoopsFit'
    BY <1>3, <1>f, <2>1, MovedFits, LoopFacts DEF Arrive, Elsewhere, Places
  <2> QED BY <1>0, <2>c, <1>3, <1>f, <2>2, LoopFacts DEF Arrive, Elsewhere
<1>4. ASSUME NEW l \in Loops, Take(l) PROVE ChannelShape'
  <2>c. CountFits'
    BY <1>4, CountFitsNow, ChannelsAssumption DEF Take, CountFits
  <2>1. /\ loop[l].next \in Nat /\ loop[l].next > 0 /\ loop[l].next <= loop[l].last
        /\ loop[l].last \in 0..posted
    BY <1>4, LoopFacts DEF Take
  <2>2. LoopsFit'
    <3>1. CASE Duplicate(loop[l].next)
      <4> DEFINE n == loop[l].next + 1
      <4>1. Moved(l, "batch", n, loop[l].last)
        BY <1>4, <3>1, LoopMoves
      <4>2. n \in Nat /\ n > 0
        BY <2>1
      <4> HIDE DEF n
      <4> QED BY <1>4, <1>f, <2>1, <4>1, <4>2, MovedFits DEF Take, Elsewhere, Places
    <3>2. CASE ~Duplicate(loop[l].next)
      <4>1. Moved(l, "fetching", loop[l].next, loop[l].last)
        BY <1>4, <3>2, LoopMoves
      <4> QED BY <1>4, <1>f, <2>1, <4>1, MovedFits DEF Take, Elsewhere, Places
    <3> QED BY <3>1, <3>2
  <2>3. Max({mark, loop[l].next}) \in 0..posted
    BY <1>f, <2>1, TheLarger
  <2>4. loop[l].next \in Inbound
    BY <1>f, <2>1 DEF Inbound
  <2> QED BY <1>0, <2>c, <1>4, <1>f, <2>2, <2>3, <2>4 DEF Take, Elsewhere
<1>5. ASSUME NEW l \in Loops, FetchFails(l) PROVE ChannelShape'
  <2>1. Moved(l, "fetched", loop[l].next, loop[l].last)
    BY <1>5, LoopMoves
  <2>2. LoopsFit'
    BY <1>5, <1>f, <2>1, MovedFits, LoopFacts DEF FetchFails, Elsewhere, Places
  <2>3. /\ UNCHANGED <<kind, posted, forgotten, mark, seen, handed, lost, crossed, torn>>
        /\ Counted \/ UNCHANGED <<state, failures, running>>
    BY <1>5 DEF FetchFails, FetchFailed, Elsewhere
  <2>4. /\ UNCHANGED <<kind, crossed, torn>>
        /\ posted' \in 0..MaxMessages /\ forgotten' \in 0..posted' /\ mark' \in 0..posted'
        /\ seen' \subseteq Inbound /\ handed' \in [Inbound -> Nat] /\ lost' \subseteq Inbound
    BY <1>f, <2>3
  <2>5. CountFits'
    BY <2>3, CountFitsNow, CountedFits DEF CountFits
  <2> QED BY <1>0, <2>2, <2>4, <2>5
<1>14. ASSUME NEW l \in Loops, Drop(l) PROVE ChannelShape'
  <2> DEFINE n == loop[l].next + 1
  <2>1. Moved(l, "batch", n, loop[l].last)
    BY <1>14, LoopMoves
  <2>a. n \in Nat /\ n > 0 /\ loop[l].last \in 0..posted /\ loop[l].next \in Inbound
    BY <1>14, <1>f, LoopFacts, SMTT(20) DEF Drop, Inbound
  <2> HIDE DEF n
  <2>3. /\ UNCHANGED <<kind, posted, forgotten, mark, seen, handed, crossed, torn>>
        /\ lost' = lost \cup {loop[l].next}
        /\ Counted \/ UNCHANGED <<state, failures, running>>
    BY <1>14 DEF Drop, FetchFailed
  <2>2. LoopsFit'
    BY <1>f, <2>1, <2>3, <2>a, MovedFits DEF Places
  <2>4. /\ UNCHANGED <<kind, crossed, torn>>
        /\ posted' \in 0..MaxMessages /\ forgotten' \in 0..posted' /\ mark' \in 0..posted'
        /\ seen' \subseteq Inbound /\ handed' \in [Inbound -> Nat] /\ lost' \subseteq Inbound
    BY <1>f, <2>3, <2>a
  <2>5. CountFits'
    BY <2>3, CountFitsNow, CountedFits DEF CountFits
  <2> QED BY <1>0, <2>2, <2>4, <2>5
<1>6. ASSUME NEW l \in Loops, Hand(l) PROVE ChannelShape'
  <2>c. CountFits'
    BY <1>6, CountFitsNow, ChannelsAssumption DEF Hand, CountFits
  <2> DEFINE n == loop[l].next + 1
  <2>1. Moved(l, "batch", n, loop[l].last)
    BY <1>6, LoopMoves
  <2>a. n \in Nat /\ n > 0 /\ loop[l].last \in 0..posted /\ loop[l].next \in Inbound
    BY <1>6, <1>f, LoopFacts, SMTT(20) DEF Hand, Inbound
  <2>3. handed' \in [Inbound -> Nat]
    BY <1>6, <1>f, <2>a DEF Hand
  <2> HIDE DEF n
  <2>2. LoopsFit'
    BY <1>6, <1>f, <2>1, <2>a, MovedFits DEF Hand, Elsewhere, Places
  <2> QED BY <1>0, <2>c, <1>6, <1>f, <2>2, <2>3 DEF Hand, Elsewhere
<1>7. ASSUME NEW l \in Loops, BatchDone(l) PROVE ChannelShape'
  <2>c. CountFits'
    BY <1>7, CountFitsNow, ChannelsAssumption DEF BatchDone, CountFits
  <2>1. Moved(l, "top", 0, 0)
    BY <1>7, LoopMoves
  <2>2. LoopsFit'
    BY <1>7, <1>f, <2>1, MovedFits DEF BatchDone, Elsewhere, Places
  <2> QED BY <1>0, <2>c, <1>7, <1>f, <2>2 DEF BatchDone, Elsewhere
<1>8. ASSUME NEW l \in Loops, PollFails(l) PROVE ChannelShape'
  <2>1. LoopsFit'
    <3>1. Moved(l, "top", 0, 0) \/ Moved(l, "none", 0, 0)
      BY <1>8, LoopMoves
    <3> QED BY <1>8, <1>f, <3>1, MovedFits DEF PollFails, Elsewhere, Places
  <2>2. /\ UNCHANGED <<kind, posted, forgotten, mark, seen, handed, lost, crossed, torn>>
        /\ Counted \/ UNCHANGED <<state, failures, running>>
    BY <1>8 DEF PollFails, Elsewhere
  <2>3. /\ UNCHANGED <<kind, crossed, torn>>
        /\ posted' \in 0..MaxMessages /\ forgotten' \in 0..posted' /\ mark' \in 0..posted'
        /\ seen' \subseteq Inbound /\ handed' \in [Inbound -> Nat] /\ lost' \subseteq Inbound
    BY <1>f, <2>2
  <2>4. CountFits'
    BY <2>2, CountFitsNow, CountedFits DEF CountFits
  <2> QED BY <1>0, <2>1, <2>3, <2>4
<1>9. CASE Post
  <2>c. CountFits'
    BY <1>9, CountFitsNow DEF Post, CountFits
  <2>1. LoopsFit'
    BY <1>9, <1>f DEF Post, LoopsFit, ChannelShape
  <2> QED BY <1>0, <2>c, <1>9, <1>f, <2>1 DEF Post
<1>10. CASE Pause
  BY <1>10 DEF Pause, LoopsFit, ChannelShape, ChannelsTypeOK
<1>11. CASE Resume
  <2>1. LoopsFit'
    <3>1. CASE UNCHANGED loop
      BY <1>11, <3>1 DEF Resume, LoopsFit, ChannelShape
    <3>2. ASSUME NEW l \in Loops, loop' = [loop EXCEPT ![l] = AtTop] PROVE LoopsFit'
      <4>1. Moved(l, "top", 0, 0)
        <5>1. AtTop = [at |-> "top", next |-> 0, last |-> 0]
          BY DEF AtTop, NoLoop
        <5> QED BY <3>2, <5>1 DEF Moved
      <4> QED BY <1>11, <1>f, <4>1, MovedFits DEF Resume, Places
    <3> QED BY <1>11, <3>1, <3>2 DEF Resume
  <2>2. crossed' \in BOOLEAN
    BY <1>11 DEF Resume, ChannelShape, ChannelsTypeOK
  <2> QED BY <1>11, <1>f, <2>1, <2>2, ChannelsAssumption DEF Resume, ChannelShape, ChannelsTypeOK, LoopsFit, Places
<1>12. CASE Restart
  <2>1. AtTop = [at |-> "top", next |-> 0, last |-> 0] /\ NoLoop = [at |-> "none", next |-> 0, last |-> 0]
    BY DEF AtTop, NoLoop
  <2>2. PICK l \in Loops : loop' = [k \in Loops |-> IF k = l THEN AtTop ELSE NoLoop]
    BY <1>12 DEF Restart
  <2>3. LoopsFit'
    BY <1>12, <1>f, <2>1, <2>2 DEF Restart, LoopsFit, Places
  <2>4. mark' \in 0..posted /\ torn' \in BOOLEAN
    <3>1. torn \in BOOLEAN /\ 0 \in 0..posted
      BY <1>f DEF ChannelShape, ChannelsTypeOK
    <3>2. \/ mark' = (IF Telegram THEN 0 ELSE mark) /\ torn' = torn
          \/ mark' = 0 /\ torn' = TRUE
      BY <1>12 DEF Restart
    <3> QED BY <1>f, <3>1, <3>2
  <2> QED BY <1>12, <1>f, <2>3, <2>4, ChannelsAssumption DEF Restart, ChannelShape, ChannelsTypeOK, LoopsFit, Places
<1>13. CASE UNCHANGED channelVars
  BY <1>13 DEF channelVars, LoopsFit, ChannelShape, ChannelsTypeOK
<1> QED
  BY <1>1, <1>2, <1>3, <1>4, <1>5, <1>6, <1>7, <1>8, <1>9, <1>10, <1>11, <1>12, <1>13, <1>14
     DEF ChannelsNext, Polls

\* The fields of a moved loop; the others are what they were.
LEMMA MovedOnly ==
  ASSUME ChannelShape, NEW l \in Loops, NEW a, NEW n, NEW e, Moved(l, a, n, e)
  PROVE  /\ loop'[l].at = a /\ loop'[l].next = n /\ loop'[l].last = e
         /\ \A k \in Loops : k # l => loop'[k] = loop[k]
BY DEF Moved, ChannelShape, LoopsFit

\* The same, place by place: where the loop is now, and that the others stay.
Goes(l, a, n, e) ==
  /\ loop'[l].at = a /\ loop'[l].next = n /\ loop'[l].last = e
  /\ \A k \in Loops : k # l => loop'[k] = loop[k]

\* What each step of a loop leaves it with, field by field.
LEMMA LoopGoes ==
  ASSUME ChannelShape, NEW l \in Loops
  PROVE  /\ Ask(l) /\ running => Goes(l, "asking", mark + 1, 0)
         /\ Ask(l) /\ ~running => Goes(l, "none", 0, 0)
         /\ Answer(l) => Goes(l, "answered", IF Telegram THEN Max({loop[l].next, forgotten + 1}) ELSE loop[l].next, posted)
         /\ Arrive(l) => Goes(l, "batch", loop[l].next, loop[l].last)
         /\ Take(l) /\ Duplicate(loop[l].next) => Goes(l, "batch", loop[l].next + 1, loop[l].last)
         /\ Take(l) /\ ~Duplicate(loop[l].next) => Goes(l, "fetching", loop[l].next, loop[l].last)
         /\ FetchFails(l) => Goes(l, "fetched", loop[l].next, loop[l].last)
         /\ Hand(l) \/ Drop(l) => Goes(l, "batch", loop[l].next + 1, loop[l].last)
         /\ BatchDone(l) => Goes(l, "top", 0, 0)
         /\ PollFails(l) /\ running => Goes(l, "top", 0, 0)
         /\ PollFails(l) /\ ~running => Goes(l, "none", 0, 0)
<1>1. Ask(l) /\ running => Goes(l, "asking", mark + 1, 0)
  <2>1. Ask(l) /\ running => Moved(l, "asking", mark + 1, 0)
    BY LoopMoves
  <2> QED BY <2>1, MovedOnly DEF Goes
<1>2. Ask(l) /\ ~running => Goes(l, "none", 0, 0)
  <2>1. Ask(l) /\ ~running => Moved(l, "none", 0, 0)
    BY LoopMoves
  <2> QED BY <2>1, MovedOnly DEF Goes
<1>3. Answer(l) => Goes(l, "answered", IF Telegram THEN Max({loop[l].next, forgotten + 1}) ELSE loop[l].next, posted)
  <2>1. Answer(l) => Moved(l, "answered", IF Telegram THEN Max({loop[l].next, forgotten + 1}) ELSE loop[l].next, posted)
    BY LoopMoves
  <2> QED BY <2>1, MovedOnly DEF Goes
<1>4. Arrive(l) => Goes(l, "batch", loop[l].next, loop[l].last)
  <2>1. Arrive(l) => Moved(l, "batch", loop[l].next, loop[l].last)
    BY LoopMoves
  <2> QED BY <2>1, MovedOnly DEF Goes
<1>5. Take(l) /\ Duplicate(loop[l].next) => Goes(l, "batch", loop[l].next + 1, loop[l].last)
  <2>1. Take(l) /\ Duplicate(loop[l].next) => Moved(l, "batch", loop[l].next + 1, loop[l].last)
    BY LoopMoves
  <2> QED BY <2>1, MovedOnly DEF Goes
<1>6. Take(l) /\ ~Duplicate(loop[l].next) => Goes(l, "fetching", loop[l].next, loop[l].last)
  <2>1. Take(l) /\ ~Duplicate(loop[l].next) => Moved(l, "fetching", loop[l].next, loop[l].last)
    BY LoopMoves
  <2> QED BY <2>1, MovedOnly DEF Goes
<1>7. FetchFails(l) => Goes(l, "fetched", loop[l].next, loop[l].last)
  <2>1. FetchFails(l) => Moved(l, "fetched", loop[l].next, loop[l].last)
    BY LoopMoves
  <2> QED BY <2>1, MovedOnly DEF Goes
<1>8. Hand(l) \/ Drop(l) => Goes(l, "batch", loop[l].next + 1, loop[l].last)
  <2>1. Hand(l) \/ Drop(l) => Moved(l, "batch", loop[l].next + 1, loop[l].last)
    BY LoopMoves
  <2> QED BY <2>1, MovedOnly DEF Goes
<1>9. BatchDone(l) => Goes(l, "top", 0, 0)
  <2>1. BatchDone(l) => Moved(l, "top", 0, 0)
    BY LoopMoves
  <2> QED BY <2>1, MovedOnly DEF Goes
<1>10. PollFails(l) /\ running => Goes(l, "top", 0, 0)
  <2>1. PollFails(l) /\ running => Moved(l, "top", 0, 0)
    BY LoopMoves
  <2> QED BY <2>1, MovedOnly DEF Goes
<1>11. PollFails(l) /\ ~running => Goes(l, "none", 0, 0)
  <2>1. PollFails(l) /\ ~running => Moved(l, "none", 0, 0)
    BY LoopMoves
  <2> QED BY <2>1, MovedOnly DEF Goes
<1> QED BY <1>1, <1>2, <1>3, <1>4, <1>5, <1>6, <1>7, <1>8, <1>9, <1>10, <1>11

\* A loop that polls is the only one there is, while none have crossed.
LEMMA Alone ==
  ASSUME OneLoop, ~crossed, NEW l \in Loops, loop[l].at # "none"
  PROVE  \A k \in Loops : k # l => loop[k].at = "none"
BY DEF OneLoop, LiveLoops

\* Only a resume starts a loop, and it sees the ones that still poll.
LEMMA OneLoopStep ==
  ASSUME ChannelShape, OneLoop, [ChannelsNext]_channelVars
  PROVE  OneLoop'
<1> SUFFICES ASSUME ~crossed' PROVE \A k, l \in Loops : {k, l} \subseteq LiveLoops' => k = l
  BY DEF OneLoop
<1>1. ASSUME NEW l \in Loops, Polls(l) PROVE \A k, m \in Loops : {k, m} \subseteq LiveLoops' => k = m
  <2>1. ~crossed /\ loop[l].at # "none"
    BY <1>1 DEF Polls, Ask, Answer, Arrive, Take, FetchFails, Drop, Hand, BatchDone, PollFails
  <2>2. \A k \in Loops : k # l => loop'[k] = loop[k]
    BY <1>1, LoopGoes DEF Goes, Polls
  <2> QED BY <2>1, <2>2, Alone DEF LiveLoops
<1>2. CASE Post \/ Pause
  BY <1>2 DEF Post, Pause, OneLoop, LiveLoops
<1>3. CASE Resume
  <2>1. CASE UNCHANGED <<loop, crossed>>
    BY <1>3, <2>1 DEF OneLoop, LiveLoops
  <2>2. ASSUME NEW l \in Loops, loop' = [loop EXCEPT ![l] = AtTop], crossed' = (crossed \/ LiveLoops # {})
        PROVE  \A k, m \in Loops : {k, m} \subseteq LiveLoops' => k = m
    <3>1. LiveLoops = {}
      BY <2>2
    <3>2. \A k \in Loops : k # l => loop'[k] = loop[k] /\ loop[k].at = "none"
      BY <2>2, <3>1 DEF LiveLoops, ChannelShape, LoopsFit
    <3> QED BY <3>2 DEF LiveLoops
  <2> QED BY <1>3, <2>1, <2>2 DEF Resume
<1>4. CASE Restart
  <2>1. PICK l \in Loops : loop' = [k \in Loops |-> IF k = l THEN AtTop ELSE NoLoop]
    BY <1>4 DEF Restart
  <2>2. \A k \in Loops : k # l => loop'[k].at = "none"
    BY <2>1 DEF NoLoop
  <2> QED BY <2>2 DEF LiveLoops
<1>5. CASE UNCHANGED channelVars
  BY <1>5 DEF channelVars, OneLoop, LiveLoops
<1> QED BY <1>1, <1>2, <1>3, <1>4, <1>5 DEF ChannelsNext

\* The kind of channel stays; crossed loops and a torn cursor are not forgotten.
LEMMA HistoryStep ==
  ASSUME [ChannelsNext]_channelVars
  PROVE  kind' = kind /\ (~crossed' => ~crossed) /\ (~torn' => ~torn)
<1>1. ASSUME NEW l \in Loops, Polls(l) PROVE UNCHANGED <<kind, crossed, torn>>
  <2>1. CASE Ask(l) \/ Answer(l) \/ Arrive(l) \/ Take(l)
    BY <2>1 DEF Ask, Answer, Arrive, Take, Elsewhere
  <2>2. CASE FetchFails(l) \/ Drop(l) \/ Hand(l) \/ BatchDone(l) \/ PollFails(l)
    BY <2>2 DEF FetchFails, Drop, Hand, BatchDone, PollFails, Elsewhere
  <2> QED BY <1>1, <2>1, <2>2 DEF Polls
<1>2. CASE Post \/ Pause
  BY <1>2 DEF Post, Pause
<1>3. CASE Resume
  <2>1. crossed' = crossed \/ crossed' = (crossed \/ LiveLoops # {})
    BY <1>3 DEF Resume
  <2>2. ~crossed' => ~crossed
    BY <2>1
  <2> QED BY <1>3, <2>2 DEF Resume
<1>4. CASE Restart
  <2>1. torn' = torn \/ torn' = TRUE
    BY <1>4 DEF Restart
  <2>2. ~torn' => ~torn
    BY <2>1
  <2> QED BY <1>4, <2>2 DEF Restart
<1> QED BY <1>1, <1>2, <1>3, <1>4 DEF ChannelsNext, channelVars

\* Only media without text is dropped, and only by Telegram.
LEMMA LostStep ==
  ASSUME LostBare, [ChannelsNext]_channelVars
  PROVE  LostBare' /\ lost \subseteq lost'
<1>1. kind' = kind
  BY HistoryStep
<1>2. \/ lost' = lost
      \/ \E l \in Loops : NothingLeft(loop[l].next) /\ lost' = lost \cup {loop[l].next}
  <2>1. ASSUME NEW l \in Loops, Polls(l), ~Drop(l) PROVE lost' = lost
    BY <2>1 DEF Polls, Ask, Answer, Arrive, Take, FetchFails, Hand, BatchDone, PollFails, Elsewhere
  <2>2. ASSUME NEW l \in Loops, Drop(l)
        PROVE  NothingLeft(loop[l].next) /\ lost' = lost \cup {loop[l].next}
    BY <2>2 DEF Drop
  <2>3. CASE Post \/ Pause \/ Resume \/ Restart \/ UNCHANGED channelVars
    BY <2>3 DEF Post, Pause, Resume, Restart, channelVars
  <2> QED BY <2>1, <2>2, <2>3 DEF ChannelsNext
<1> QED BY <1>1, <1>2 DEF LostBare, NothingLeft, Telegram

\* Telegram's offset passes over nothing that is not handed on or in a loop's hands.
LEMMA TelegramStep ==
  ASSUME ChannelInvariant, [ChannelsNext]_channelVars
  PROVE  TelegramKept'
<1> SUFFICES ASSUME ~crossed', Telegram' PROVE TelegramKept'
  BY DEF TelegramKept, Past
<1>0. ~crossed /\ Telegram /\ ChannelShape /\ OneLoop
  BY HistoryStep DEF ChannelInvariant, Telegram
<1>f. /\ posted \in Nat /\ MaxMessages \in Nat /\ posted <= MaxMessages
      /\ forgotten \in 0..posted /\ mark \in 0..posted /\ handed \in [Inbound -> Nat]
  BY <1>0, ChannelsAssumption DEF ChannelShape, ChannelsTypeOK
<1>k. /\ \A m \in 1..forgotten : Past(m)
      /\ \A m \in 1..mark : \/ Past(m)
                            \/ \E l \in Loops : loop[l].at \in {"fetching", "fetched"} /\ loop[l].next = m
      /\ \A l \in Loops : loop[l].at \in {"asking", "answered", "batch", "fetching", "fetched"} =>
           \A m \in 1..(loop[l].next - 1) : Past(m)
  BY <1>0 DEF ChannelInvariant, TelegramKept
<1>1. ASSUME NEW l \in Loops, Ask(l) PROVE TelegramKept'
  <2>1. \A k \in Loops : k # l => loop[k].at = "none"
    BY <1>0, <1>1, Alone DEF Ask
  <2>2. \A m \in 1..mark : Past(m)
    BY <1>1, <1>k, <2>1 DEF Ask, Elsewhere
  <2>3. UNCHANGED <<handed, lost, mark>>
    BY <1>1 DEF Ask, Elsewhere
  <2>4. \A m \in 1..forgotten' : Past(m)
    <3>1. CASE running
      <4>1. forgotten' = Max({forgotten, mark})
        BY <1>0, <1>1, <3>1 DEF Ask
      <4>2. forgotten' = forgotten \/ forgotten' = mark
        BY <1>f, <4>1, TheLarger
      <4> QED BY <1>k, <2>2, <4>2
    <3>2. CASE ~running
      BY <1>1, <1>k, <3>2 DEF Ask
    <3> QED BY <3>1, <3>2
  <2>5. \A k \in Loops : loop'[k].at \in {"asking", "answered", "batch", "fetching", "fetched"} =>
           loop'[k].next = mark + 1
    BY <1>0, <1>1, <2>1, LoopGoes DEF Goes
  <2>7. \A k \in Loops : loop'[k].at \in {"asking", "answered", "batch", "fetching", "fetched"} =>
           \A m \in 1..(loop'[k].next - 1) : Past(m)'
    <3> SUFFICES ASSUME NEW k \in Loops,
                        loop'[k].at \in {"asking", "answered", "batch", "fetching", "fetched"},
                        NEW m \in 1..(loop'[k].next - 1)
        PROVE  Past(m)'
      OBVIOUS
    <3>1. loop'[k].next - 1 = mark
      <4>1. loop'[k].next = mark + 1
        BY <2>5
      <4> QED BY <1>f, <4>1
    <3>2. Past(m)
      BY <2>2, <3>1
    <3> QED BY <2>3, <3>2 DEF Past
  <2>8. \A m \in 1..mark' : Past(m)'
    BY <2>2, <2>3 DEF Past
  <2> QED BY <2>3, <2>4, <2>7, <2>8 DEF TelegramKept, Past
<1>2. ASSUME NEW l \in Loops, Answer(l) PROVE TelegramKept'
  <2>1. \A k \in Loops : k # l => loop[k].at = "none"
    BY <1>0, <1>2, Alone DEF Answer
  <2>2. UNCHANGED <<handed, lost, mark, forgotten>>
    BY <1>2 DEF Answer, Elsewhere
  <2> DEFINE n == Max({loop[l].next, forgotten + 1})
  <2>3. loop[l].next \in Nat
    BY <1>0, LoopFacts
  <2>4. n = loop[l].next \/ n = forgotten + 1
    BY <1>f, <2>3, TheLarger
  <2>5. Moved(l, "answered", n, posted)
    BY <1>0, <1>2, LoopMoves
  <2> HIDE DEF n
  <2>6. loop'[l].next = n /\ \A k \in Loops : k # l => loop'[k] = loop[k]
    BY <1>0, <2>5, MovedOnly
  <2>7. \A m \in 1..(n - 1) : Past(m)
    <3>1. CASE n = loop[l].next
      BY <1>2, <1>k, <3>1 DEF Answer
    <3>2. CASE n = forgotten + 1
      <4>1. n - 1 = forgotten
        BY <1>f, <3>2
      <4> QED BY <1>k, <4>1
    <3> QED BY <2>4, <3>1, <3>2
  <2>8. \A m \in 1..mark : Past(m)
    BY <1>2, <1>k, <2>1 DEF Answer, Elsewhere
  <2> QED BY <1>k, <2>1, <2>2, <2>6, <2>7, <2>8 DEF TelegramKept, Past
<1>3. ASSUME NEW l \in Loops, Arrive(l) \/ FetchFails(l) PROVE TelegramKept'
  <2>1. UNCHANGED <<handed, lost, mark, forgotten>>
    BY <1>0, <1>3 DEF Arrive, FetchFails, Elsewhere
  <2>2. /\ loop'[l].next = loop[l].next
        /\ loop[l].at \in {"answered", "fetching"}
        /\ loop[l].at = "fetching" => loop'[l].at = "fetched"
        /\ loop[l].at = "answered" => loop'[l].at = "batch"
        /\ \A k \in Loops : k # l => loop'[k] = loop[k]
    BY <1>0, <1>3, LoopGoes DEF Goes, Arrive, FetchFails
  <2> QED BY <1>k, <2>1, <2>2 DEF TelegramKept, Past
<1>4. ASSUME NEW l \in Loops, Take(l) PROVE TelegramKept'
  <2>1. UNCHANGED <<handed, lost, forgotten>> /\ mark' = Max({mark, loop[l].next})
    BY <1>0, <1>4 DEF Take, Elsewhere
  <2>2. /\ loop[l].at = "batch" /\ loop'[l].at = "fetching" /\ loop'[l].next = loop[l].next
        /\ \A k \in Loops : k # l => loop'[k] = loop[k]
    BY <1>0, <1>4, LoopGoes DEF Goes, Take, Duplicate
  <2>3. loop[l].next \in Nat
    BY <1>0, LoopFacts
  <2>4. \A m \in 1..(loop[l].next - 1) : Past(m)
    BY <1>k, <2>2
  <2>5. \A m \in 1..mark' : m \in 1..mark \/ m = loop[l].next \/ m \in 1..(loop[l].next - 1)
    <3>1. mark' = mark \/ mark' = loop[l].next
      BY <1>f, <2>1, <2>3, TheLarger
    <3> QED BY <1>f, <2>3, <3>1
  <2>6. \A m \in 1..mark' : \/ Past(m)
                            \/ \E k \in Loops : loop'[k].at \in {"fetching", "fetched"} /\ loop'[k].next = m
    BY <1>k, <2>2, <2>4, <2>5
  <2> QED BY <1>k, <2>1, <2>2, <2>4, <2>6 DEF TelegramKept, Past
<1>5. ASSUME NEW l \in Loops, Hand(l) \/ Drop(l) PROVE TelegramKept'
  <2>0. PICK n \in Nat : n = loop[l].next
    BY <1>0, LoopFacts
  <2>1. /\ UNCHANGED <<mark, forgotten>>
        /\ \/ handed' = [handed EXCEPT ![n] = @ + 1] /\ lost' = lost
           \/ handed' = handed /\ lost' = lost \cup {n}
    BY <1>5, <2>0 DEF Hand, Drop, Elsewhere
  <2>2. /\ loop[l].at \in {"fetching", "fetched"} /\ loop'[l].at = "batch" /\ loop'[l].next = n + 1
        /\ \A k \in Loops : k # l => loop'[k] = loop[k]
    BY <1>0, <1>5, LoopGoes, <2>0 DEF Goes, Hand, Drop
  <2>3. \A k \in Loops : k # l => loop[k].at = "none"
    BY <1>0, <2>2, Alone
  <2>4. n \in Inbound /\ n \in Nat
    BY <1>0, <1>f, <2>2, LoopFacts, <2>0 DEF Inbound
  <2>5. Past(n)' /\ \A m \in Inbound : Past(m) => Past(m)'
    <3>1. CASE handed' = [handed EXCEPT ![n] = @ + 1] /\ lost' = lost
      <4>1. handed'[n] > 0 /\ \A m \in Inbound : handed[m] > 0 => handed'[m] > 0
        BY <1>f, <2>4, <3>1
      <4> QED BY <3>1, <4>1 DEF Past
    <3>2. CASE handed' = handed /\ lost' = lost \cup {n}
      BY <3>2 DEF Past
    <3> QED BY <2>1, <3>1, <3>2
  <2>6. \A m \in 1..mark : m \in Inbound /\ (Past(m) \/ m = n)
    BY <1>f, <1>k, <2>2, <2>3, <2>0 DEF Inbound
  <2>7. \A m \in 1..forgotten : m \in Inbound
    BY <1>f DEF Inbound
  <2>8. ASSUME NEW m \in 1..n PROVE Past(m)'
    <3>1. CASE m = n
      BY <2>5, <3>1 DEF Past
    <3>2. CASE m # n
      <4>1. m \in 1..(n - 1) /\ m \in Inbound
        BY <2>4, <1>f, <3>2 DEF Inbound
      <4>2. Past(m)
        BY <1>k, <2>2, <4>1, <2>0
      <4> QED BY <2>5, <4>1, <4>2
    <3> QED BY <3>1, <3>2
  <2>10. \A k \in Loops : loop'[k].at \in {"asking", "answered", "batch", "fetching", "fetched"} =>
           \A m \in 1..(loop'[k].next - 1) : Past(m)'
    <3> SUFFICES ASSUME NEW k \in Loops,
                        loop'[k].at \in {"asking", "answered", "batch", "fetching", "fetched"},
                        NEW m \in 1..(loop'[k].next - 1)
        PROVE  Past(m)'
      OBVIOUS
    <3>1. loop'[k].next - 1 = n
      <4>1. loop'[k].next = n + 1
        BY <2>2, <2>3
      <4> QED BY <2>4, <4>1
    <3> QED BY <2>8, <3>1
  <2>11. \A m \in 1..mark' : Past(m)'
    BY <2>1, <2>5, <2>6 DEF Past
  <2>12. \A m \in 1..forgotten' : Past(m)'
    BY <1>k, <2>1, <2>5, <2>7
  <2> QED BY <2>10, <2>11, <2>12 DEF TelegramKept, Past
<1>6. ASSUME NEW l \in Loops, BatchDone(l) \/ PollFails(l) PROVE TelegramKept'
  <2>1. UNCHANGED <<handed, lost, mark, forgotten>>
    BY <1>6 DEF BatchDone, PollFails, Elsewhere
  <2>2. /\ loop[l].at \in {"batch", "asking"} /\ loop'[l].at \in {"top", "none"}
        /\ \A k \in Loops : k # l => loop'[k] = loop[k]
    BY <1>0, <1>6, LoopGoes DEF Goes, BatchDone, PollFails
  <2> QED BY <1>k, <2>1, <2>2 DEF TelegramKept, Past
<1>7. CASE Post \/ Pause \/ UNCHANGED channelVars
  BY <1>7, <1>k DEF Past, Post, Pause, channelVars, TelegramKept
<1>8. CASE Resume
  <2>1. UNCHANGED <<handed, lost, mark, forgotten>>
    BY <1>8 DEF Resume, Elsewhere
  <2>2. CASE UNCHANGED loop
    BY <1>k, <2>1, <2>2 DEF TelegramKept, Past
  <2>3. ASSUME NEW l \in Loops \ LiveLoops, loop' = [loop EXCEPT ![l] = AtTop] PROVE TelegramKept'
    <3>1. loop[l].at = "none" /\ loop'[l].at = "top"
      BY <1>0, <2>3 DEF LiveLoops, AtTop, NoLoop, ChannelShape, LoopsFit
    <3>2. \A k \in Loops : k # l => loop'[k] = loop[k]
      BY <1>0, <2>3 DEF ChannelShape, LoopsFit
    <3> QED BY <1>k, <2>1, <3>1, <3>2 DEF TelegramKept, Past
  <2> QED BY <1>8, <2>2, <2>3 DEF Resume
<1>9. CASE Restart
  <2>1. UNCHANGED <<handed, lost, forgotten>> /\ mark' = 0
    BY <1>0, <1>9 DEF Restart, Elsewhere
  <2>2. \A k \in Loops : loop'[k].at \in {"top", "none"}
    BY <1>9 DEF Restart, AtTop, NoLoop
  <2> QED BY <1>k, <2>1, <2>2 DEF TelegramKept, Past
<1> QED BY <1>1, <1>2, <1>3, <1>4, <1>5, <1>6, <1>7, <1>8, <1>9 DEF ChannelsNext, Polls

\* WeChat's cursor is past all that was ever handed on.
LEMMA WeixinStep ==
  ASSUME ChannelInvariant, [ChannelsNext]_channelVars
  PROVE  WeixinKept'
<1> SUFFICES ASSUME ~crossed', ~Telegram', ~torn' PROVE WeixinKept'
  BY DEF WeixinKept
<1>0. ~crossed /\ ~Telegram /\ ~torn /\ ChannelShape /\ OneLoop
  BY HistoryStep DEF ChannelInvariant, Telegram
<1>f. /\ posted \in Nat /\ MaxMessages \in Nat /\ posted <= MaxMessages
      /\ mark \in 0..posted /\ handed \in [Inbound -> Nat]
  BY <1>0, ChannelsAssumption DEF ChannelShape, ChannelsTypeOK
<1>d. \A l \in Loops : ~Drop(l)
  BY <1>0 DEF Drop, NothingLeft
<1>k. /\ \A m \in Inbound : handed[m] <= 1 /\ (m > mark => handed[m] = 0)
      /\ \A l \in Loops :
           /\ loop[l].at \in {"asking", "answered"} => loop[l].next = mark + 1
           /\ loop[l].at = "answered" => mark <= loop[l].last
           /\ loop[l].at \in {"batch", "fetching", "fetched"} =>
                /\ mark = loop[l].last
                /\ \A m \in Inbound : m >= loop[l].next => handed[m] = 0
  BY <1>0 DEF ChannelInvariant, WeixinKept
<1>1. ASSUME NEW l \in Loops, Ask(l) PROVE WeixinKept'
  <2>1. UNCHANGED <<handed, mark>>
    BY <1>1 DEF Ask
  <2>2. /\ (loop'[l].at = "asking" /\ loop'[l].next = mark + 1) \/ loop'[l].at = "none"
        /\ \A k \in Loops : k # l => loop'[k] = loop[k]
    BY <1>0, <1>1, LoopGoes DEF Goes
  <2> QED BY <1>k, <2>1, <2>2 DEF WeixinKept
<1>2. ASSUME NEW l \in Loops, Answer(l) PROVE WeixinKept'
  <2>1. UNCHANGED <<handed, mark>> /\ loop[l].at = "asking"
    BY <1>2 DEF Answer
  <2>2. /\ loop'[l].at = "answered" /\ loop'[l].next = loop[l].next /\ loop'[l].last = posted
        /\ \A k \in Loops : k # l => loop'[k] = loop[k]
    BY <1>0, <1>2, LoopGoes DEF Goes
  <2> QED BY <1>f, <1>k, <2>1, <2>2 DEF WeixinKept
<1>3. ASSUME NEW l \in Loops, Arrive(l) PROVE WeixinKept'
  <2>1. UNCHANGED handed /\ mark' = loop[l].last /\ loop[l].at = "answered"
    BY <1>0, <1>3 DEF Arrive
  <2>2. /\ loop'[l].at = "batch" /\ loop'[l].next = loop[l].next /\ loop'[l].last = loop[l].last
        /\ \A k \in Loops : k # l => loop'[k] = loop[k]
    BY <1>0, <1>3, LoopGoes DEF Goes
  <2>3. \A k \in Loops : k # l => loop'[k].at = "none"
    BY <1>0, <2>1, <2>2, Alone
  <2>4. mark <= mark' /\ mark' \in Nat /\ loop[l].next = mark + 1
    BY <1>0, <1>k, <2>1, LoopFacts
  <2>5. \A m \in Inbound : m > mark' => handed[m] = 0
    BY <1>f, <1>k, <2>4 DEF Inbound
  <2>6. \A m \in Inbound : m >= loop[l].next => handed[m] = 0
    BY <1>f, <1>k, <2>4 DEF Inbound
  <2> QED BY <1>k, <2>1, <2>2, <2>3, <2>5, <2>6 DEF WeixinKept
<1>4. ASSUME NEW l \in Loops, Take(l) PROVE WeixinKept'
  <2>1. UNCHANGED <<handed, mark>> /\ loop[l].at = "batch" /\ loop[l].next \in Nat
    BY <1>0, <1>4, LoopFacts DEF Take
  <2>2. /\ \/ loop'[l].at = "batch" /\ loop'[l].next = loop[l].next + 1
           \/ loop'[l].at = "fetching" /\ loop'[l].next = loop[l].next
        /\ loop'[l].last = loop[l].last
        /\ \A k \in Loops : k # l => loop'[k] = loop[k]
    BY <1>0, <1>4, LoopGoes DEF Goes
  <2>3. \A m \in Inbound : m >= loop'[l].next => handed[m] = 0
    BY <1>f, <1>k, <2>1, <2>2 DEF Inbound
  <2> QED BY <1>k, <2>1, <2>2, <2>3 DEF WeixinKept
<1>5. ASSUME NEW l \in Loops, FetchFails(l) \/ BatchDone(l) \/ PollFails(l) PROVE WeixinKept'
  <2>1. UNCHANGED <<handed, mark>>
    BY <1>5 DEF FetchFails, BatchDone, PollFails
  <2>2. /\ \/ /\ loop[l].at = "fetching" /\ loop'[l].at = "fetched"
              /\ loop'[l].next = loop[l].next /\ loop'[l].last = loop[l].last
           \/ loop'[l].at \in {"top", "none"}
        /\ \A k \in Loops : k # l => loop'[k] = loop[k]
    BY <1>0, <1>5, LoopGoes DEF Goes, FetchFails
  <2> QED BY <1>k, <2>1, <2>2 DEF WeixinKept
<1>6. ASSUME NEW l \in Loops, Hand(l) PROVE WeixinKept'
  <2> DEFINE n == loop[l].next
  <2>1. UNCHANGED mark /\ handed' = [handed EXCEPT ![n] = @ + 1]
    BY <1>6 DEF Hand
  <2>2. /\ loop[l].at \in {"fetching", "fetched"} /\ loop'[l].at = "batch" /\ loop'[l].next = n + 1
        /\ loop'[l].last = loop[l].last
        /\ \A k \in Loops : k # l => loop'[k] = loop[k]
    BY <1>0, <1>6, LoopGoes DEF Goes, Hand
  <2>3. \A k \in Loops : k # l => loop'[k].at = "none"
    BY <1>0, <2>2, Alone
  <2>4. n \in Inbound /\ n \in Nat /\ n <= mark
    BY <1>0, <1>f, <1>k, <2>2, LoopFacts DEF Inbound
  <2>5. handed[n] = 0 /\ \A m \in Inbound : m >= n => handed[m] = 0
    BY <1>k, <2>2, <2>4
  <2> HIDE DEF n
  <2>6. handed'[n] = 1 /\ \A m \in Inbound : m # n => handed'[m] = handed[m]
    BY <1>f, <2>1, <2>4, <2>5
  <2>7. \A m \in Inbound : handed'[m] <= 1 /\ (m > mark => handed'[m] = 0)
    BY <1>f, <1>k, <2>4, <2>6 DEF Inbound
  <2>8. \A m \in Inbound : m >= n + 1 => handed'[m] = 0
    BY <1>f, <2>4, <2>5, <2>6 DEF Inbound
  <2>9. mark = loop[l].last
    BY <1>k, <2>2
  <2> QED BY <2>1, <2>2, <2>3, <2>7, <2>8, <2>9 DEF WeixinKept
<1>7. CASE Post \/ Pause \/ UNCHANGED channelVars
  BY <1>7, <1>k DEF Post, Pause, channelVars, WeixinKept
<1>8. CASE Resume
  <2>1. UNCHANGED <<handed, mark>>
    BY <1>8 DEF Resume
  <2>2. CASE UNCHANGED loop
    BY <1>k, <2>1, <2>2 DEF WeixinKept
  <2>3. ASSUME NEW l \in Loops \ LiveLoops, loop' = [loop EXCEPT ![l] = AtTop] PROVE WeixinKept'
    <3>1. loop'[l].at = "top"
      BY <1>0, <2>3 DEF AtTop, NoLoop, ChannelShape, LoopsFit
    <3>2. \A k \in Loops : k # l => loop'[k] = loop[k]
      BY <1>0, <2>3 DEF ChannelShape, LoopsFit
    <3> QED BY <1>k, <2>1, <3>1, <3>2 DEF WeixinKept
  <2> QED BY <1>8, <2>2, <2>3 DEF Resume
<1>9. CASE Restart
  <2>1. UNCHANGED <<handed, mark>>
    BY <1>0, <1>9 DEF Restart
  <2>2. \A k \in Loops : loop'[k].at \in {"top", "none"}
    BY <1>9 DEF Restart, AtTop, NoLoop
  <2> QED BY <1>k, <2>1, <2>2 DEF WeixinKept
<1> QED BY <1>1, <1>2, <1>3, <1>4, <1>5, <1>6, <1>7, <1>8, <1>9, <1>d DEF ChannelsNext, Polls

\* A channel that has seen no message, started or not.
LEMMA ChannelsBegin ==
  ASSUME ChannelsIdle, running \in BOOLEAN,
         \/ loop = [l \in Loops |-> NoLoop]
         \/ \E l \in Loops : loop = [k \in Loops |-> IF k = l THEN AtTop ELSE NoLoop]
  PROVE  ChannelInvariant
<1>1. AtTop = [at |-> "top", next |-> 0, last |-> 0] /\ NoLoop = [at |-> "none", next |-> 0, last |-> 0]
  BY DEF AtTop, NoLoop
<1>2. LoopsFit /\ \A l \in Loops : loop[l].at \in {"top", "none"}
  BY <1>1 DEF ChannelsIdle, LoopsFit, Places
<1>3. ChannelShape
  <2>1. handed \in [Inbound -> Nat] /\ 0 \in 0..posted /\ posted \in 0..MaxMessages /\ failures \in 0..FailThreshold
    BY ChannelsAssumption DEF ChannelsIdle, Inbound
  <2>2. \A l \in Loops : loop[l].at \in {"none", "top", "asking", "answered", "batch", "fetching", "fetched"}
    BY <1>2
  <2>3. {running, crossed, torn} \subseteq BOOLEAN
    BY DEF ChannelsIdle
  <2>4. ChannelsTypeOK
    BY <2>1, <2>2, <2>3 DEF ChannelsIdle, ChannelsTypeOK
  <2> QED BY <1>2, <2>4, ChannelsAssumption DEF ChannelsIdle, ChannelShape
<1>4. OneLoop
  BY <1>1 DEF OneLoop, LiveLoops
<1>5. TelegramKept /\ LostBare
  BY <1>2 DEF ChannelsIdle, TelegramKept, LostBare
<1>6. WeixinKept
  BY <1>2 DEF ChannelsIdle, WeixinKept
<1> QED BY <1>3, <1>4, <1>5, <1>6 DEF ChannelInvariant

\* A step of a channel, or of none, keeps the invariant.
LEMMA ChannelsKept == ChannelInvariant /\ [ChannelsNext]_channelVars => ChannelInvariant'
BY ChannelShapeStep, OneLoopStep, LostStep, TelegramStep, WeixinStep DEF ChannelInvariant

\* Of the whole gateway.
LEMMA ChannelsAlways == GatewaySpec => []ChannelInvariant
<1>1. GatewayInit => ChannelInvariant
  BY ChannelsBegin DEF GatewayInit, ConversationsInit, InboundInit, AnswerInit, AccessInit, LoginInit,
     ChannelsOff, ChannelsInit
<1>2. ChannelInvariant /\ [GatewayNext]_gatewayVars => ChannelInvariant'
  BY PartSteps, ChannelsKept
<1> QED BY <1>1, <1>2, PTL DEF GatewaySpec, gatewayVars

\* As long as one loop polls at a time, through every crash, pause, failed download
\* and trip of the breaker, Telegram forgets no message that was not handed on, but media
\* without text whose download failed, and WeChat's are handed on at most once unless the
\* crash tore the cursor's file.  Nothing else is ever dropped.
THEOREM InboundIsKept == GatewaySpec => []InboundKept
<1>1. ChannelInvariant => InboundKept
  BY DEF ChannelInvariant, InboundKept, LostBare, TelegramKept, WeixinKept, Past
<1> QED BY <1>1, ChannelsAlways, PTL

------------------------------------------------------------------------------
(* What a channel carries.                                                 *)

\* What InboundArrives rests on: a channel that calls itself running polls, and what it has
\* passed over was handed on or is in a loop's hands, or was dropped for want of content.

\* A message that a loop has still to hand on.
InHand(l, m) ==
  loop[l].at \in {"batch", "fetching", "fetched"} /\ loop[l].next <= m /\ m <= loop[l].last
Carried(m) == Past(m) \/ \E l \in Loops : InHand(l, m)

\* While no crash has taken a batch away; or with Telegram, which sends it again to the one
\* loop that polls.
Unbroken == crashes = 0 \/ (Telegram /\ ~crossed)

\* No message behind the offset or the cursor is without a loop that hands it on: also with
\* crossed loops, where one passes over what another holds or has seen.
NothingDropped == Unbroken => \A m \in Inbound : m <= mark => Carried(m)

\* A channel that calls itself running has its flag up and a loop that polls.
NeverDeaf == state = "running" => running /\ LiveLoops # {}

\* What a loop has behind it, and what it takes for a duplicate, is carried as well.
CarriedInv ==
  /\ crashes \in Nat
  /\ running => LiveLoops # {}
  /\ Unbroken =>
       /\ \A m \in Inbound : m <= mark => Carried(m)
       /\ \A m \in Inbound : Telegram /\ m <= forgotten => Carried(m)
       /\ \A l \in Loops, m \in Inbound : loop[l].at \notin {"none", "top"} /\ m < loop[l].next => Carried(m)
       /\ \A m \in seen : \/ Past(m)
                          \/ \E l \in Loops : loop[l].at \in {"fetching", "fetched"} /\ loop[l].next = m

\* Only the loop that moves can let go of a message.
LEMMA CarriedStays ==
  ASSUME NEW l \in Loops, NEW m, \A k \in Loops : k # l => loop'[k] = loop[k],
         Carried(m), Past(m) => Past(m)', InHand(l, m) => Carried(m)'
  PROVE  Carried(m)'
BY DEF Past, Carried, InHand

\* Steps of a loop between which nothing in its hands changes.
LEMMA LoopCarries ==
  ASSUME ChannelShape, CarriedInv, Unbroken, NEW l \in Loops,
         Ask(l) \/ Answer(l) \/ Arrive(l) \/ FetchFails(l) \/ BatchDone(l) \/ PollFails(l)
  PROVE  \A m \in Inbound : Carried(m) => Carried(m)'
<1> SUFFICES ASSUME NEW m \in Inbound, Carried(m) PROVE Carried(m)'
  OBVIOUS
<1>1. handed' = handed /\ lost' = lost
  BY DEF Ask, Answer, Arrive, FetchFails, BatchDone, PollFails, Elsewhere
<1>2. \A k \in Loops : k # l => loop'[k] = loop[k]
  BY LoopGoes DEF Goes
<1>3. InHand(l, m) => FetchFails(l)
  <2>1. loop[l].next \in Nat /\ loop[l].last \in Nat /\ m \in Nat
    BY LoopFacts DEF Inbound, ChannelShape
  <2>2. BatchDone(l) => loop[l].next > loop[l].last
    BY DEF BatchDone
  <2> QED BY <2>1, <2>2 DEF InHand, Ask, Answer, Arrive, PollFails
<1>4. FetchFails(l) /\ InHand(l, m) => InHand(l, m)'
  BY LoopGoes DEF Goes, InHand
<1> QED BY <1>1, <1>2, <1>3, <1>4, CarriedStays DEF Past, Carried

\* Every step keeps it.
LEMMA CarriedStep ==
  ASSUME ChannelInvariant, CarriedInv, [ChannelsNext]_channelVars, Unbroken'
  PROVE  /\ \A m \in Inbound : m <= mark' => Carried(m)'
         /\ \A m \in Inbound : Telegram' /\ m <= forgotten' => Carried(m)'
         /\ \A l \in Loops, m \in Inbound : loop'[l].at \notin {"none", "top"} /\ m < loop'[l].next => Carried(m)'
         /\ \A m \in seen' : \/ Past(m)'
                             \/ \E l \in Loops : loop'[l].at \in {"fetching", "fetched"} /\ loop'[l].next = m
<1> DEFINE Goal ==
         /\ \A m \in Inbound : m <= mark' => Carried(m)'
         /\ \A m \in Inbound : Telegram' /\ m <= forgotten' => Carried(m)'
         /\ \A l \in Loops, m \in Inbound : loop'[l].at \notin {"none", "top"} /\ m < loop'[l].next => Carried(m)'
         /\ \A m \in seen' : \/ Past(m)'
                             \/ \E l \in Loops : loop'[l].at \in {"fetching", "fetched"} /\ loop'[l].next = m
<1>0. /\ ChannelShape /\ TelegramKept /\ crashes \in Nat /\ (Telegram' <=> Telegram)
      /\ posted \in Nat /\ posted <= MaxMessages /\ mark \in 0..posted /\ forgotten \in 0..posted
      /\ handed \in [Inbound -> Nat] /\ seen \subseteq Inbound
      /\ \A m \in Inbound : m \in Nat \ {0}
  BY HistoryStep, ChannelsAssumption
  DEF ChannelInvariant, ChannelShape, ChannelsTypeOK, CarriedInv, Telegram, Inbound
<1>u. crashes' # crashes => Restart
  BY DEF ChannelsNext, Polls, Post, Pause, Resume, Ask, Answer, Arrive, Take, FetchFails, Drop, Hand,
     BatchDone, PollFails, Elsewhere, channelVars
<1>v. Unbroken
  <2>1. crashes' = 0 => crashes = 0
    BY <1>0, <1>u DEF Restart, Elsewhere
  <2> QED BY <1>0, <2>1, HistoryStep DEF Unbroken
<1>k. /\ \A m \in Inbound : m <= mark => Carried(m)
      /\ \A m \in Inbound : Telegram /\ m <= forgotten => Carried(m)
      /\ \A l \in Loops, m \in Inbound : loop[l].at \notin {"none", "top"} /\ m < loop[l].next => Carried(m)
      /\ \A m \in seen : \/ Past(m)
                         \/ \E l \in Loops : loop[l].at \in {"fetching", "fetched"} /\ loop[l].next = m
  BY <1>v DEF Past, CarriedInv
<1>1. ASSUME NEW l \in Loops, Ask(l) PROVE Goal
  <2>1. \A m \in Inbound : Carried(m) => Carried(m)'
    BY <1>0, <1>1, <1>v, LoopCarries
  <2>2. UNCHANGED <<handed, lost, mark, seen>> /\ (forgotten' = forgotten \/ forgotten' = Max({forgotten, mark}))
    BY <1>1 DEF Ask, Elsewhere
  <2>3. forgotten' = forgotten \/ forgotten' = mark
    BY <1>0, <2>2, TheLarger
  <2>4. /\ loop[l].at = "top" /\ (loop'[l].at = "none" \/ loop'[l].next = mark + 1)
        /\ \A k \in Loops : k # l => loop'[k] = loop[k]
    BY <1>0, <1>1, LoopGoes DEF Goes, Ask
  <2>5. \A k \in Loops, m \in Inbound : loop'[k].at \notin {"none", "top"} /\ m < loop'[k].next => Carried(m)'
    BY <1>0, <1>k, <2>1, <2>4
  <2>6. \A m \in seen' : \/ Past(m)'
                         \/ \E k \in Loops : loop'[k].at \in {"fetching", "fetched"} /\ loop'[k].next = m
    BY <1>k, <2>2, <2>4 DEF Past
  <2> QED BY <1>0, <1>k, <2>1, <2>2, <2>3, <2>5, <2>6
<1>2. ASSUME NEW l \in Loops, Answer(l) PROVE Goal
  <2>1. \A m \in Inbound : Carried(m) => Carried(m)'
    BY <1>0, <1>2, <1>v, LoopCarries
  <2>2. UNCHANGED <<handed, lost, mark, seen, forgotten>> /\ loop[l].at = "asking"
    BY <1>2 DEF Answer, Elsewhere
  <2>3. /\ loop'[l].next = (IF Telegram THEN Max({loop[l].next, forgotten + 1}) ELSE loop[l].next)
        /\ \A k \in Loops : k # l => loop'[k] = loop[k]
    BY <1>0, <1>2, LoopGoes DEF Goes
  <2>4. loop[l].next \in Nat
    BY <1>0, LoopFacts
  <2>5. loop'[l].next = loop[l].next \/ (Telegram /\ loop'[l].next = forgotten + 1)
    BY <1>0, <2>3, <2>4, TheLarger
  <2>6. \A m \in Inbound : m < loop'[l].next => Carried(m)
    BY <1>0, <1>k, <2>2, <2>5
  <2>7. \A k \in Loops, m \in Inbound : loop'[k].at \notin {"none", "top"} /\ m < loop'[k].next => Carried(m)'
    BY <1>k, <2>1, <2>3, <2>6
  <2>8. \A m \in seen' : \/ Past(m)'
                         \/ \E k \in Loops : loop'[k].at \in {"fetching", "fetched"} /\ loop'[k].next = m
    BY <1>k, <2>2, <2>3 DEF Past
  <2> QED BY <1>0, <1>k, <2>1, <2>2, <2>7, <2>8
<1>3. ASSUME NEW l \in Loops, Arrive(l) PROVE Goal
  <2>1. \A m \in Inbound : Carried(m) => Carried(m)'
    BY <1>0, <1>3, <1>v, LoopCarries
  <2>2. /\ UNCHANGED <<handed, lost, seen, forgotten>> /\ loop[l].at = "answered"
        /\ mark' = (IF Telegram THEN mark ELSE loop[l].last)
    BY <1>3 DEF Arrive, Elsewhere
  <2>3. /\ loop'[l].next = loop[l].next /\ loop'[l].at = "batch" /\ loop'[l].last = loop[l].last
        /\ \A k \in Loops : k # l => loop'[k] = loop[k]
    BY <1>0, <1>3, LoopGoes DEF Goes
  <2>r. loop[l].next \in Nat /\ loop[l].last \in Nat
    BY <1>0, LoopFacts
  <2>4. \A m \in Inbound : m <= loop[l].last => Carried(m)'
    <3>1. ASSUME NEW m \in Inbound, m <= loop[l].last, ~(m < loop[l].next) PROVE Carried(m)'
      BY <1>0, <2>3, <2>r, <3>1 DEF Past, Carried, InHand
    <3> QED BY <1>k, <2>1, <2>2, <3>1
  <2>5. \A k \in Loops, m \in Inbound : loop'[k].at \notin {"none", "top"} /\ m < loop'[k].next => Carried(m)'
    BY <1>k, <2>1, <2>2, <2>3
  <2>6. \A m \in seen' : \/ Past(m)'
                         \/ \E k \in Loops : loop'[k].at \in {"fetching", "fetched"} /\ loop'[k].next = m
    BY <1>k, <2>2, <2>3 DEF Past
  <2> QED BY <1>0, <1>k, <2>1, <2>2, <2>4, <2>5, <2>6
<1>4. ASSUME NEW l \in Loops, Take(l) PROVE Goal
  <2>0. PICK n \in Nat : n = loop[l].next
    BY <1>0, LoopFacts
  <2>1. /\ UNCHANGED <<handed, lost, forgotten>> /\ loop[l].at = "batch" /\ n <= loop[l].last
        /\ mark' = (IF Telegram THEN Max({mark, n}) ELSE mark)
        /\ seen' = (IF Telegram THEN seen ELSE seen \cup {n})
    BY <1>4, <2>0 DEF Take, Elsewhere
  <2>2. /\ loop'[l].last = loop[l].last /\ \A k \in Loops : k # l => loop'[k] = loop[k]
        /\ \/ Duplicate(n) /\ loop'[l].at = "batch" /\ loop'[l].next = n + 1
           \/ ~Duplicate(n) /\ loop'[l].at = "fetching" /\ loop'[l].next = n
    BY <1>0, <1>4, <2>0, LoopGoes DEF Goes
  <2>3. n \in Nat /\ loop[l].last \in 0..posted /\ n > 0
    BY <1>0, <2>0, <2>1, LoopFacts
  <2>4. n \in Inbound
    BY <1>0, <2>1, <2>3, ChannelsAssumption DEF Inbound
  <2>5. Carried(n)'
    <3>1. CASE Duplicate(n)
      <4>1. CASE Past(n)
        BY <2>1, <4>1 DEF Past, Carried
      <4>2. ASSUME NEW k \in Loops, loop[k].at \in {"fetching", "fetched"}, loop[k].next = n PROVE Carried(n)'
        <5>1. k # l /\ loop[k].next <= loop[k].last
          BY <1>0, <2>1, <4>2, LoopFacts
        <5> QED BY <2>2, <2>3, <4>2, <5>1 DEF Past, Carried, InHand
      <4> QED BY <1>k, <3>1, <4>1, <4>2 DEF Duplicate
    <3>2. CASE ~Duplicate(n)
      BY <2>1, <2>2, <2>3, <3>2 DEF Past, Carried, InHand
    <3> QED BY <3>1, <3>2
  <2>6. ASSUME NEW m \in Inbound, Carried(m) PROVE Carried(m)'
    <3>1. InHand(l, m) /\ m # n => InHand(l, m)'
      BY <1>0, <2>0, <2>2, <2>3 DEF InHand
    <3> QED BY <2>1, <2>2, <2>5, <2>6, <3>1, CarriedStays DEF Past, Carried
  <2>7. \A m \in Inbound : m < n => Carried(m)
    BY <1>k, <2>0, <2>1
  <2>8. \A m \in Inbound : m <= n => Carried(m)'
    BY <1>0, <2>3, <2>5, <2>6, <2>7
  <2>9. \A m \in Inbound : m <= mark' => Carried(m)'
    <3>1. mark' = mark \/ mark' = n
      BY <1>0, <2>1, <2>3, TheLarger
    <3> QED BY <1>k, <2>6, <2>8, <3>1
  <2>10. \A k \in Loops, m \in Inbound : loop'[k].at \notin {"none", "top"} /\ m < loop'[k].next => Carried(m)'
    <3>1. \A m \in Inbound : m < loop'[l].next => m <= n
      BY <1>0, <2>2, <2>3
    <3> QED BY <1>k, <2>2, <2>6, <2>8, <3>1
  <2>11. ASSUME NEW m \in seen'
         PROVE  \/ Past(m)'
                \/ \E k \in Loops : loop'[k].at \in {"fetching", "fetched"} /\ loop'[k].next = m
    <3>1. CASE m \in seen
      <4>1. \/ Past(m)
            \/ \E k \in Loops : k # l /\ loop[k].at \in {"fetching", "fetched"} /\ loop[k].next = m
        BY <1>k, <2>1, <3>1
      <4> QED BY <2>1, <2>2, <4>1 DEF Past
    <3>2. CASE m \notin seen
      <4>1. m = n /\ ~Duplicate(n)
        BY <2>1, <2>11, <3>2 DEF Duplicate
      <4> QED BY <2>2, <4>1
    <3> QED BY <3>1, <3>2
  <2> QED BY <1>0, <1>k, <2>1, <2>6, <2>9, <2>10, <2>11
<1>5. ASSUME NEW l \in Loops, Hand(l) \/ Drop(l) PROVE Goal
  <2>0. PICK n \in Nat : n = loop[l].next
    BY <1>0, LoopFacts
  <2>1. /\ UNCHANGED <<mark, forgotten, seen>> /\ loop[l].at \in {"fetching", "fetched"}
        /\ \/ handed' = [handed EXCEPT ![n] = @ + 1] /\ lost' = lost
           \/ handed' = handed /\ lost' = lost \cup {n}
    BY <1>5, <2>0 DEF Hand, Drop, Elsewhere
  <2>2. /\ loop'[l].at = "batch" /\ loop'[l].next = n + 1 /\ loop'[l].last = loop[l].last
        /\ \A k \in Loops : k # l => loop'[k] = loop[k]
    BY <1>0, <1>5, LoopGoes, <2>0 DEF Goes
  <2>3. n \in Nat /\ loop[l].last \in 0..posted /\ n > 0 /\ n <= loop[l].last
    BY <1>0, <2>1, LoopFacts, <2>0
  <2>4. n \in Inbound
    BY <1>0, <2>1, <2>3, ChannelsAssumption DEF Inbound
  <2>5. Past(n)' /\ \A m \in Inbound : Past(m) => Past(m)'
    <3>1. CASE handed' = [handed EXCEPT ![n] = @ + 1] /\ lost' = lost
      <4>1. handed'[n] > 0 /\ \A m \in Inbound : handed[m] > 0 => handed'[m] > 0
        BY <1>0, <2>4, <3>1
      <4> QED BY <3>1, <4>1 DEF Past
    <3>2. CASE handed' = handed /\ lost' = lost \cup {n}
      BY <3>2 DEF Past
    <3> QED BY <2>1, <3>1, <3>2
  <2>6. ASSUME NEW m \in Inbound, Carried(m) PROVE Carried(m)'
    <3>1. InHand(l, m) /\ m # n => InHand(l, m)'
      BY <1>0, <2>2, <2>3, <2>0 DEF InHand
    <3> QED BY <2>2, <2>5, <2>6, <3>1, CarriedStays DEF Past, Carried
  <2>7. \A k \in Loops, m \in Inbound : loop'[k].at \notin {"none", "top"} /\ m < loop'[k].next => Carried(m)'
    <3>1. ASSUME NEW m \in Inbound, m < n + 1 PROVE Carried(m)'
      <4>1. m = n \/ m < n
        BY <1>0, <2>3, <3>1
      <4>2. m < n => Carried(m)
        BY <1>k, <2>1, <2>0
      <4> QED BY <2>5, <2>6, <4>1, <4>2 DEF Past, Carried
    <3> QED BY <1>k, <2>2, <2>6, <3>1
  <2>8. ASSUME NEW m \in seen'
        PROVE  \/ Past(m)'
               \/ \E k \in Loops : loop'[k].at \in {"fetching", "fetched"} /\ loop'[k].next = m
    <3>1. m \in seen /\ m \in Inbound
      BY <1>0, <2>1, <2>8
    <3>2. \/ Past(m) \/ m = n
          \/ \E k \in Loops : k # l /\ loop[k].at \in {"fetching", "fetched"} /\ loop[k].next = m
      BY <1>k, <3>1, <2>0
    <3> QED BY <2>2, <2>5, <3>1, <3>2 DEF Past
  <2> QED BY <1>0, <1>k, <2>1, <2>6, <2>7, <2>8
<1>6. ASSUME NEW l \in Loops, FetchFails(l) \/ BatchDone(l) \/ PollFails(l) PROVE Goal
  <2>1. \A m \in Inbound : Carried(m) => Carried(m)'
    BY <1>0, <1>6, <1>v, LoopCarries
  <2>2. UNCHANGED <<handed, lost, mark, seen, forgotten>>
    BY <1>6 DEF FetchFails, BatchDone, PollFails, Elsewhere
  <2>3. /\ \/ loop'[l].at \in {"none", "top"}
           \/ loop[l].at = "fetching" /\ loop'[l].at = "fetched" /\ loop'[l].next = loop[l].next
        /\ loop[l].at \notin {"fetching", "fetched"} \/ loop'[l].at = "fetched"
        /\ \A k \in Loops : k # l => loop'[k] = loop[k]
    BY <1>0, <1>6, LoopGoes DEF Goes, FetchFails, BatchDone, PollFails
  <2>4. \A k \in Loops, m \in Inbound : loop'[k].at \notin {"none", "top"} /\ m < loop'[k].next => Carried(m)'
    BY <1>k, <2>1, <2>3
  <2>5. \A m \in seen' : \/ Past(m)'
                         \/ \E k \in Loops : loop'[k].at \in {"fetching", "fetched"} /\ loop'[k].next = m
    BY <1>k, <2>2, <2>3 DEF Past
  <2> QED BY <1>0, <1>k, <2>1, <2>2, <2>4, <2>5
<1>7. CASE Post \/ Pause \/ UNCHANGED channelVars
  <2>1. UNCHANGED <<loop, handed, lost, mark, seen, forgotten>>
    BY <1>7 DEF Post, Pause, channelVars
  <2> QED BY <1>0, <1>k, <2>1 DEF Past, Carried, InHand
<1>8. CASE Resume
  <2>1. UNCHANGED <<handed, lost, mark, seen, forgotten>>
    BY <1>8 DEF Resume, Elsewhere
  <2>2. CASE UNCHANGED loop
    BY <1>0, <1>k, <2>1, <2>2 DEF Past, Carried, InHand
  <2>3. ASSUME NEW l \in Loops \ LiveLoops, loop' = [loop EXCEPT ![l] = AtTop] PROVE Goal
    <3>1. loop[l].at = "none" /\ loop'[l].at = "top"
      BY <1>0, <2>3 DEF LiveLoops, AtTop, NoLoop, ChannelShape, LoopsFit
    <3>2. \A k \in Loops : k # l => loop'[k] = loop[k]
      BY <1>0, <2>3 DEF ChannelShape, LoopsFit
    <3>3. \A m \in Inbound : Carried(m) => Carried(m)'
      BY <2>1, <3>1, <3>2 DEF Past, Carried, InHand
    <3>4. \A k \in Loops, m \in Inbound : loop'[k].at \notin {"none", "top"} /\ m < loop'[k].next => Carried(m)'
      BY <1>k, <3>1, <3>2, <3>3
    <3>5. \A m \in seen' : \/ Past(m)'
                           \/ \E k \in Loops : loop'[k].at \in {"fetching", "fetched"} /\ loop'[k].next = m
      BY <1>k, <2>1, <3>1, <3>2 DEF Past
    <3> QED BY <1>0, <1>k, <2>1, <3>3, <3>4, <3>5
  <2> QED BY <1>8, <2>2, <2>3 DEF Resume
<1>9. CASE Restart
  <2>1. UNCHANGED <<handed, lost, forgotten>> /\ crashes' # 0 /\ seen' = {}
    BY <1>0, <1>9 DEF Restart, Elsewhere
  <2>2. Telegram /\ ~crossed /\ mark' = 0
    BY <1>0, <1>9, <2>1, HistoryStep DEF Unbroken, Restart
  <2>3. \A k \in Loops : loop'[k].at \in {"top", "none"}
    BY <1>9 DEF Restart, AtTop, NoLoop
  <2>4. \A m \in Inbound : m <= forgotten' => Carried(m)'
    BY <1>0, <2>1, <2>2 DEF TelegramKept, Past, Carried
  <2> QED BY <1>0, <2>1, <2>2, <2>3, <2>4
<1> QED BY <1>1, <1>2, <1>3, <1>4, <1>5, <1>6, <1>7, <1>8, <1>9 DEF ChannelsNext, Polls

\* A loop ends only when the flag is down, and it goes up with a new one.
LEMMA LoopsLive ==
  ASSUME ChannelShape, CarriedInv, [ChannelsNext]_channelVars
  PROVE  /\ crashes' \in Nat
         /\ running' => LiveLoops' # {}
         /\ (running <=> state = "running") => (running' <=> state' = "running")
<1>1. ASSUME NEW l \in Loops, Polls(l)
      PROVE  /\ crashes' = crashes
             /\ running' => LiveLoops' # {}
             /\ (running <=> state = "running") => (running' <=> state' = "running")
  <2>1. /\ crashes' = crashes /\ (running' => running) /\ state \in {"running", "paused", "error"}
        /\ (running <=> state = "running") => (running' <=> state' = "running")
    BY <1>1 DEF Polls, Ask, Answer, Arrive, Take, FetchFails, Drop, FetchFailed, Hand, BatchDone,
       PollFails, Elsewhere, Counted,
       ChannelShape, ChannelsTypeOK
  <2>2. running => loop'[l].at # "none"
    BY <1>1, LoopGoes DEF Goes, Polls
  <2> QED BY <2>1, <2>2 DEF LiveLoops
<1>2. CASE Resume
  <2>1. /\ state' = "running" /\ running' = TRUE /\ crashes' = crashes
        /\ \/ running /\ UNCHANGED loop
           \/ \E l \in Loops : loop' = [loop EXCEPT ![l] = AtTop]
    BY <1>2 DEF Resume, Elsewhere
  <2>2. ASSUME NEW l \in Loops, loop' = [loop EXCEPT ![l] = AtTop] PROVE l \in LiveLoops'
    BY <2>2 DEF LiveLoops, AtTop, NoLoop, ChannelShape, LoopsFit
  <2>3. running /\ UNCHANGED loop => LiveLoops' # {}
    BY DEF Past, CarriedInv, LiveLoops
  <2> QED BY <2>1, <2>2, <2>3 DEF Past, CarriedInv
<1>3. CASE Restart
  <2>1. state' = "running" /\ running' = TRUE /\ crashes' = crashes + 1
    BY <1>3 DEF Restart, Elsewhere
  <2>2. PICK l \in Loops : loop' = [k \in Loops |-> IF k = l THEN AtTop ELSE NoLoop]
    BY <1>3 DEF Restart, Elsewhere
  <2>3. l \in LiveLoops'
    BY <2>2 DEF LiveLoops, AtTop, NoLoop
  <2> QED BY <2>1, <2>3 DEF Past, CarriedInv
<1>4. CASE Post \/ Pause \/ UNCHANGED channelVars
  BY <1>4 DEF Post, Pause, channelVars, CarriedInv, LiveLoops
<1> QED BY <1>1, <1>2, <1>3, <1>4 DEF ChannelsNext, CarriedInv

\* Of the whole gateway; one whose channel is not watched has not started it.
LEMMA CarriedAlways ==
  GatewaySpec => [](ChannelInvariant /\ CarriedInv /\ (watched = "inbound" => (running <=> state = "running")))
<1> DEFINE Inv == ChannelInvariant /\ CarriedInv /\ (watched = "inbound" => (running <=> state = "running"))
<1>1. GatewayInit => Inv
  <2> SUFFICES ASSUME GatewayInit PROVE Inv
    OBVIOUS
  <2>1. ChannelInvariant
    BY ChannelsBegin DEF GatewayInit, ConversationsInit, InboundInit, AnswerInit, AccessInit, LoginInit,
       ChannelsOff, ChannelsInit
  <2>2. /\ ChannelsIdle
        /\ \/ watched # "inbound" /\ running = FALSE /\ loop = [l \in Loops |-> NoLoop]
           \/ running = TRUE /\ \E l \in Loops : loop = [k \in Loops |-> IF k = l THEN AtTop ELSE NoLoop]
    BY DEF GatewayInit, ConversationsInit, InboundInit, AnswerInit, AccessInit, LoginInit, ChannelsOff,
       ChannelsInit
  <2>3. running => LiveLoops # {}
    BY <2>2 DEF LiveLoops, AtTop, NoLoop
  <2>4. \A l \in Loops : loop[l].at \in {"top", "none"}
    BY <2>2 DEF AtTop, NoLoop
  <2>5. \A m \in Inbound : ~(m <= 0)
    BY DEF Inbound
  <2>6. CarriedInv
    BY <2>2, <2>3, <2>4, <2>5 DEF ChannelsIdle, CarriedInv
  <2> QED BY <2>1, <2>2, <2>6 DEF ChannelsIdle
<1>2. Inv /\ [GatewayNext]_gatewayVars => Inv'
  <2> SUFFICES ASSUME Inv, [GatewayNext]_gatewayVars PROVE Inv'
    OBVIOUS
  <2>1. [ChannelsNext]_channelVars /\ watched' = watched
    BY PartSteps DEF GatewayNext, gatewayVars
  <2>2. ChannelInvariant' /\ ChannelShape
    BY <2>1, ChannelsKept DEF ChannelInvariant
  <2>3. CarriedInv'
    BY <2>1, <2>2, CarriedStep, LoopsLive DEF Past, CarriedInv
  <2> QED BY <2>1, <2>2, <2>3, LoopsLive
<1> QED BY <1>1, <1>2, PTL DEF GatewaySpec, gatewayVars

\* The safety half of InboundArrives: whatever pauses, resumes, failed polls and downloads,
\* duplicates and crossed loops follow each other, no message is passed over that no loop
\* will hand on, and a channel that calls itself running polls (runtime/gateway.ts,
\* telegram.ts, weixin.ts).
THEOREM InboundIsCarried == GatewaySpec => [](NothingDropped /\ (watched = "inbound" => NeverDeaf))
<1>1. ChannelInvariant /\ CarriedInv /\ (watched = "inbound" => (running <=> state = "running"))
        => NothingDropped /\ (watched = "inbound" => NeverDeaf)
  BY DEF Past, CarriedInv, NothingDropped, NeverDeaf
<1> QED BY <1>1, CarriedAlways, PTL

------------------------------------------------------------------------------
(* Accounts.                                                               *)

\* What a de-provisioned account has left: no key; once the panel is through, no
\* user and no /bind under way; and the file of routes names no session but the
\* chat's own.  Nothing is imported any more, for a process that has the database
\* open has set the flag.
CutInvariant ==
  /\ AccountsTypeOK
  /\ \A p \in Procs : opened[p] = "open" => imported
  /\ cut # {} => imported /\ \A p \in Procs : ~Importing(p)
  /\ \A a \in cut : \A k \in keys : KeyOf[k] # a
  /\ \A a \in cut : a # cutting => binding.acct # a /\ \A u \in Users : bound[u] # a
  /\ \A u \in Users : routes[u] \in {NoChat, sessions[u]}

\* What a step may do to the accounts the panel has cut off.
CutStays ==
  \A a \in cut' : a # cutting' =>
     /\ \A u \in Users : bound'[u] # a
     /\ a \in cut /\ a # cutting =>
          /\ a \in conns' => a \in conns
          /\ \A u \in Users :
               /\ namespace'[u] = a => namespace[u] = a
               /\ sessions'[u] = a => a \in {sessions[u], namespace[u]}

\* No account has been cut off in a new deployment.
LEMMA CutBegins == AccountsRest /\ mode \in {"open", "managed"} => CutInvariant
<1> SUFFICES ASSUME AccountsRest, mode \in {"open", "managed"}
    PROVE  CutInvariant
  OBVIOUS
<1>1. AccountsTypeOK
  BY AccountsAssumption DEF AccountsRest, AccountsTypeOK, NotBinding, Procs
<1>2. /\ \A p \in Procs : opened[p] = "open" => imported
      /\ cut = {} /\ \A u \in Users : routes[u] \in {NoChat, sessions[u]}
  BY DEF AccountsRest
<1> QED BY <1>1, <1>2 DEF CutInvariant

\* Every statement of every process keeps the invariant and what was cut off.
LEMMA CutStep ==
  ASSUME CutInvariant, [AccountsNext]_accountVars
  PROVE  CutInvariant' /\ CutStays
<1> USE AccountsAssumption DEF CutInvariant, AccountsTypeOK, CutStays, Importing, Procs, rest, tables, inbound
<1>1. ASSUME NEW p \in Procs, OpenDb(p) PROVE CutInvariant' /\ CutStays
  BY <1>1 DEF OpenDb
<1>2. ASSUME NEW p \in Procs, ImportAccounts(p) PROVE CutInvariant' /\ CutStays
  BY <1>2 DEF ImportAccounts
<1>3. ASSUME NEW p \in Procs, ImportIdentities(p) PROVE CutInvariant' /\ CutStays
  BY <1>3 DEF ImportIdentities
<1>4. ASSUME NEW p \in Procs, ImportKeys(p) PROVE CutInvariant' /\ CutStays
  BY <1>4 DEF ImportKeys
<1>5. ASSUME NEW p \in Procs, SetFlag(p) PROVE CutInvariant' /\ CutStays
  BY <1>5 DEF SetFlag
<1>6. ASSUME NEW p \in Procs, Ends(p) PROVE CutInvariant' /\ CutStays
  BY <1>6 DEF Ends, NotBinding
<1>7. ASSUME NEW p \in Procs, NEW a \in Accts, CreateAccount(p, a) PROVE CutInvariant' /\ CutStays
  BY <1>7 DEF CreateAccount
<1>8. ASSUME NEW p \in Procs, NEW k \in Keys, IssueKey(p, k) PROVE CutInvariant' /\ CutStays
  BY <1>8 DEF IssueKey
<1>9. ASSUME NEW p \in Procs, NEW u \in Users, Unbind(p, u) PROVE CutInvariant' /\ CutStays
  BY <1>9 DEF Unbind
<1>10. ASSUME NEW p \in Procs, NEW u \in Users, RemoveRoute(p, u) PROVE CutInvariant' /\ CutStays
  BY <1>10 DEF RemoveRoute
<1>11. ASSUME NEW u \in Users, NEW a \in Accts, OperatorBinds(u, a) PROVE CutInvariant' /\ CutStays
  BY <1>11 DEF OperatorBinds, Bound, Operates
<1>12. ASSUME NEW a \in Accts, RevokeAccessKeys(a) PROVE CutInvariant' /\ CutStays
  BY <1>12 DEF RevokeAccessKeys, CutAway, CutOrder, Operates
<1>13. CASE UnbindsAll
  BY <1>13 DEF UnbindsAll, CutAway, CutOrder
<1>14. CASE BindWrites
  BY <1>14, ZenonT(40) DEF BindWrites, Bound, NotBinding
<1>15. ASSUME NEW u \in Users, MessageTaken(u) \/ MessageContinues(u) \/ MessageFails(u) PROVE CutInvariant' /\ CutStays
  <2>1. CASE MessageTaken(u)
    BY <2>1 DEF MessageTaken
  <2>2. CASE MessageContinues(u)
    BY <2>2 DEF MessageContinues
  <2>3. CASE MessageFails(u)
    BY <2>3 DEF MessageFails
  <2> QED BY <1>15, <2>1, <2>2, <2>3
<1>21. ASSUME NEW u \in Users, NamespaceRead(u) PROVE CutInvariant' /\ CutStays
  BY <1>21 DEF NamespaceRead
<1>22. ASSUME NEW u \in Users, SessionStarted(u) PROVE CutInvariant' /\ CutStays
  BY <1>22 DEF SessionStarted
<1>16. ASSUME NEW u \in Users, Forget(u) PROVE CutInvariant' /\ CutStays
  BY <1>16 DEF Forget
<1>17. ASSUME NEW u \in Users, NEW k \in Keys, BindReads(u, k) PROVE CutInvariant' /\ CutStays
  BY <1>17 DEF BindReads, Resolves, NotBinding
<1>18. ASSUME NEW a \in Accts, Connect(a) PROVE CutInvariant' /\ CutStays
  BY <1>18 DEF Connect, Resolves
<1>19. ASSUME NEW a \in Accts, Disconnect(a) PROVE CutInvariant' /\ CutStays
  BY <1>19 DEF Disconnect
<1>20. CASE UNCHANGED accountVars
  BY <1>20 DEF accountVars
<1> QED
  BY <1>1, <1>2, <1>3, <1>4, <1>5, <1>6, <1>7, <1>8, <1>9, <1>10, <1>11, <1>12, <1>13,
     <1>14, <1>15, <1>16, <1>17, <1>18, <1>19, <1>20,
     <1>21, <1>22 DEF AccountsNext

\* Of the whole gateway.
LEMMA CutAlways == GatewaySpec => []CutInvariant
<1>1. GatewayInit => CutInvariant
  BY CutBegins DEF GatewayInit, ConversationsInit, InboundInit, AnswerInit, AccessInit, LoginInit,
     AccountsInit, AccountsOff
<1>2. CutInvariant /\ [GatewayNext]_gatewayVars => CutInvariant'
  BY PartSteps, CutStep
<1> QED BY <1>1, <1>2, PTL DEF GatewaySpec, gatewayVars

\* Once an account is de-provisioned, and until something is granted to it, no user
\* is bound to it, no connection opens under it and no session begins with its
\* memory: for any number of processes' restarts, imports, keys and users.
THEOREM DeprovisioningCuts == GatewaySpec => DeprovisionCuts
<1>1. CutInvariant /\ [GatewayNext]_gatewayVars => [CutStays]_accountVars
  BY PartSteps, CutStep
<1> QED BY <1>1, CutAlways, PTL DEF GatewaySpec, gatewayVars, DeprovisionCuts, CutStays

------------------------------------------------------------------------------
(* The panel's secret.                                                     *)

\* One process at most has made the file and is about to write it, and until then
\* it is empty; a secret that is kept, or that a cookie was made from, is the file's.
SecretInvariant ==
  /\ SecretTypeOK /\ OneAdminSecret
  /\ \A p \in Starters : starting[p] = "writing" => file = Empty
  /\ \A p, q \in Starters : starting[p] = "writing" /\ starting[q] = "writing" => p = q

\* Before anything is started there is no file.
LEMMA SecretBegins == SecretInit => SecretInvariant
BY SecretAssumption DEF SecretInit, SecretInvariant, SecretTypeOK, OneAdminSecret

\* Reading, creating exclusively, writing, dying and logging in keep it.
LEMMA SecretKept == SecretInvariant /\ [SecretNext]_secretVars => SecretInvariant'
<1> SUFFICES ASSUME SecretInvariant, [SecretNext]_secretVars PROVE SecretInvariant'
  OBVIOUS
<1> USE SecretAssumption DEF SecretInvariant, SecretTypeOK, OneAdminSecret
<1>1. ASSUME NEW p \in Starters, Read(p) PROVE SecretInvariant'
  BY <1>1 DEF Read, Usable, Adopts
<1>2. ASSUME NEW p \in Starters, Create(p) PROVE SecretInvariant'
  <2>1. CASE file = NoSecret /\ file' = Empty
    BY <1>2, <2>1 DEF Create, Usable
  <2>2. CASE Usable /\ Adopts(p) /\ UNCHANGED file
    BY <1>2, <2>2 DEF Create, Usable, Adopts
  <2>3. CASE file = Empty /\ starting' = [starting EXCEPT ![p] = "down"] /\ UNCHANGED <<file, held>>
    BY <1>2, <2>3 DEF Create
  <2> QED BY <1>2, <2>1, <2>2, <2>3 DEF Create
<1>3. ASSUME NEW p \in Starters, Write(p) PROVE SecretInvariant'
  BY <1>3 DEF Write
<1>4. ASSUME NEW p \in Starters, Exits(p) PROVE SecretInvariant'
  BY <1>4 DEF Exits
<1>5. ASSUME NEW p \in Starters, Login(p) PROVE SecretInvariant'
  BY <1>5 DEF Login
<1>6. CASE Logout
  BY <1>6 DEF Logout
<1>7. CASE UNCHANGED secretVars
  BY <1>7 DEF secretVars
<1> QED BY <1>1, <1>2, <1>3, <1>4, <1>5, <1>6, <1>7 DEF SecretNext

\* Of the whole gateway.
LEMMA SecretAlways == GatewaySpec => []SecretInvariant
<1>1. GatewayInit => SecretInvariant
  BY SecretBegins DEF GatewayInit, ConversationsInit, InboundInit, AnswerInit, AccessInit, LoginInit
<1>2. SecretInvariant /\ [GatewayNext]_gatewayVars => SecretInvariant'
  BY PartSteps, SecretKept
<1> QED BY <1>1, <1>2, PTL DEF GatewaySpec, gatewayVars

\* The panel and the gateway never hold different secrets, however many processes
\* start, race for the file and die, and a cookie stays good while the file lives
\* (loadOrCreateAdminSecret's "wx" flag).
THEOREM AdminSecretIsOne == GatewaySpec => []OneAdminSecret
<1>1. SecretInvariant => OneAdminSecret
  BY DEF SecretInvariant
<1> QED BY <1>1, SecretAlways, PTL

------------------------------------------------------------------------------
(* A turn's answer.                                                        *)

\* What the chain sends and the chat shows.
Items == [what : {"aside", "warning", "answer", "file", "caption"}, version : Nat]
\* The turn has said its last words.
Over == fate \in {"finished", "failed"}

\* A chain, or a chat, has no message of the answer; one only; the last has version v.
NoAnswer(s) == \A j \in DOMAIN s : s[j].what # "answer"
OneAnswer(s, v) ==
  \E i \in DOMAIN s : s[i] = Send("answer", v) /\ \A j \in DOMAIN s : s[j].what = "answer" => j = i
LastAnswer(s, v) ==
  \E i \in DOMAIN s : s[i] = Send("answer", v) /\ \A j \in DOMAIN s : s[j].what = "answer" => j <= i

\* Types, and what the last words have done to the timer and to the document.
RenderShape ==
  /\ RenderTypeOK /\ sends \in Seq(Items) /\ chat \in Seq(Items)
  /\ Over => ~ticking
  /\ fileSent => Over

\* Of a channel that edits: the answer has one message, unless a reply was lost, and
\* the version sent last still waits, was given up, or stands there.
EditsTell ==
  /\ preview # 0 => text > 0
  /\ bubble # 0 => chat[bubble].what = "answer"
  /\ ~doubtful => \A i \in Told : i = bubble
  /\ Over => preview = FirstPart
  /\ \/ preview = 0 /\ NoAnswer(sends)
     \/ preview # 0 /\ LastAnswer(sends, preview)
     \/ preview # 0 /\ NoAnswer(sends)
          /\ ("answer" \in short \/ (bubble # 0 /\ chat[bubble] = Send("answer", preview)))

\* Of one that does not: the answer is sent once, in the end.
WholeTells ==
  /\ bubble = 0
  /\ ~Over => NoAnswer(sends) /\ NoAnswer(chat)
  /\ Over /\ text > 0 /\ ~Long =>
       \/ OneAnswer(sends, text) /\ NoAnswer(chat)
       \/ NoAnswer(sends) /\ (("answer" \in short /\ NoAnswer(chat)) \/ OneAnswer(chat, text))

\* The document and the warning are sent in the end; they wait, stand, or were given up.
ExtrasTell ==
  /\ \A i \in DOMAIN sends : sends[i].what # "caption"
  /\ \A i \in DOMAIN sends : sends[i].what = "file" => Over /\ sends[i] = Send("file", text)
  /\ \A i \in DOMAIN sends : sends[i].what = "warning" => sends[i] = Warning
  /\ edits /\ Over /\ Long =>
       Contains(sends, Send("file", text)) \/ Contains(chat, Send("file", text)) \/ "file" \in short
  /\ fate = "failed" => Contains(sends, Warning) \/ Contains(chat, Warning) \/ "warning" \in short

\* All of it.
RenderInv == RenderShape /\ (edits => EditsTell) /\ (~edits => WholeTells) /\ ExtrasTell

\* A turn is over and nothing is left to be sent: what AnswerArrives promises of the
\* chat holds.
ChatTells ==
  Over /\ sends = <<>> =>
    /\ ~ticking
    /\ "answer" \in short \/ AnswerStands
    /\ "file" \in short \/ DocumentStands
    /\ "warning" \in short \/ WarningStands
\* A send is an item, and so is what stands for it in the chat.
LEMMA SendIsItem ==
  /\ Aside \in Items /\ Warning \in Items /\ Send("caption", 0) \in Items
  /\ \A v \in Nat : Send("answer", v) \in Items /\ Send("file", v) \in Items
  /\ \A w, v : Send(w, v).what = w /\ Send(w, v).version = v
BY DEF Items, Aside, Warning, Send

\* What is put behind a chain.
LEMMA ChainGrows ==
  ASSUME NEW s \in Seq(Items), NEW a \in Seq(Items)
  PROVE  /\ s \o a \in Seq(Items)
         /\ NoAnswer(s) /\ NoAnswer(a) => NoAnswer(s \o a)
         /\ \A v : NoAnswer(a) /\ LastAnswer(s, v) => LastAnswer(s \o a, v)
         /\ \A v : LastAnswer(a, v) => LastAnswer(s \o a, v)
         /\ \A v : NoAnswer(s) /\ OneAnswer(a, v) => OneAnswer(s \o a, v)
         /\ \A v : OneAnswer(s, v) /\ NoAnswer(a) => OneAnswer(s \o a, v)
         /\ \A x : Contains(s, x) \/ Contains(a, x) <=> Contains(s \o a, x)
         /\ \A P : (\A i \in DOMAIN s : s[i] \in P) /\ (\A i \in DOMAIN a : a[i] \in P)
                     => \A i \in DOMAIN (s \o a) : (s \o a)[i] \in P
<1> DEFINE t == s \o a
<1>1. /\ t \in Seq(Items) /\ DOMAIN t = 1 .. Len(s) + Len(a) /\ DOMAIN s = 1 .. Len(s) /\ DOMAIN a = 1 .. Len(a)
      /\ Len(s) \in Nat /\ Len(a) \in Nat
  OBVIOUS
<1>2. \A i \in DOMAIN s : i \in DOMAIN t /\ t[i] = s[i]
  OBVIOUS
<1>3. \A i \in DOMAIN a : Len(s) + i \in DOMAIN t /\ t[Len(s) + i] = a[i]
  OBVIOUS
<1>4. \A j \in DOMAIN t : (j \in DOMAIN s /\ t[j] = s[j])
                          \/ (j > Len(s) /\ j - Len(s) \in DOMAIN a /\ t[j] = a[j - Len(s)])
  OBVIOUS
<1> HIDE DEF t
<1>5. NoAnswer(s) /\ NoAnswer(a) => NoAnswer(t)
  BY <1>4 DEF NoAnswer
<1>6. ASSUME NEW v, NoAnswer(a), LastAnswer(s, v) PROVE LastAnswer(t, v)
  <2>1. PICK i \in DOMAIN s : s[i] = Send("answer", v) /\ \A j \in DOMAIN s : s[j].what = "answer" => j <= i
    BY <1>6 DEF LastAnswer
  <2>2. \A j \in DOMAIN t : t[j].what = "answer" => j <= i
    BY <1>4, <1>6, <2>1 DEF NoAnswer
  <2> QED BY <1>2, <2>1, <2>2 DEF LastAnswer
<1>7. ASSUME NEW v, LastAnswer(a, v) PROVE LastAnswer(t, v)
  <2>1. PICK i \in DOMAIN a : a[i] = Send("answer", v) /\ \A j \in DOMAIN a : a[j].what = "answer" => j <= i
    BY <1>7 DEF LastAnswer
  <2>2. \A j \in DOMAIN t : t[j].what = "answer" => j <= Len(s) + i
    <3> TAKE j \in DOMAIN t
    <3>1. CASE j \in DOMAIN s
      BY <1>1, <2>1, <3>1
    <3>2. CASE j > Len(s) /\ j - Len(s) \in DOMAIN a /\ t[j] = a[j - Len(s)]
      BY <1>1, <2>1, <3>2
    <3> QED BY <1>4, <3>1, <3>2
  <2> QED BY <1>3, <2>1, <2>2 DEF LastAnswer
<1>8. ASSUME NEW v, NoAnswer(s), OneAnswer(a, v) PROVE OneAnswer(t, v)
  <2>1. PICK i \in DOMAIN a : a[i] = Send("answer", v) /\ \A j \in DOMAIN a : a[j].what = "answer" => j = i
    BY <1>8 DEF OneAnswer
  <2>2. \A j \in DOMAIN t : t[j].what = "answer" => j = Len(s) + i
    <3> TAKE j \in DOMAIN t
    <3>1. CASE j \in DOMAIN s /\ t[j] = s[j]
      BY <1>8, <3>1 DEF NoAnswer
    <3>2. CASE j > Len(s) /\ j - Len(s) \in DOMAIN a /\ t[j] = a[j - Len(s)]
      BY <1>1, <2>1, <3>2
    <3> QED BY <1>4, <3>1, <3>2
  <2> QED BY <1>3, <2>1, <2>2 DEF OneAnswer
<1>9. ASSUME NEW v, OneAnswer(s, v), NoAnswer(a) PROVE OneAnswer(t, v)
  <2>1. PICK i \in DOMAIN s : s[i] = Send("answer", v) /\ \A j \in DOMAIN s : s[j].what = "answer" => j = i
    BY <1>9 DEF OneAnswer
  <2>2. \A j \in DOMAIN t : t[j].what = "answer" => j = i
    BY <1>4, <1>9, <2>1 DEF NoAnswer
  <2> QED BY <1>2, <2>1, <2>2 DEF OneAnswer
<1>10. ASSUME NEW x PROVE Contains(s, x) \/ Contains(a, x) <=> Contains(t, x)
  <2>1. ASSUME Contains(s, x) PROVE Contains(t, x)
    <3>1. PICK i \in DOMAIN s : s[i] = x
      BY <1>1, <2>1 DEF Contains
    <3>2. i \in 1 .. Len(t) /\ t[i] = x
      BY <1>1, <1>2, <3>1
    <3> QED BY <3>2 DEF Contains
  <2>2. ASSUME Contains(a, x) PROVE Contains(t, x)
    <3>1. PICK i \in DOMAIN a : a[i] = x
      BY <1>1, <2>2 DEF Contains
    <3>2. Len(s) + i \in 1 .. Len(t) /\ t[Len(s) + i] = x
      BY <1>1, <1>3, <3>1
    <3> QED BY <3>2 DEF Contains
  <2>3. ASSUME Contains(t, x) PROVE Contains(s, x) \/ Contains(a, x)
    <3>1. PICK i \in DOMAIN t : t[i] = x
      BY <1>1, <2>3 DEF Contains
    <3>2. CASE i \in DOMAIN s /\ t[i] = s[i]
      BY <1>1, <3>1, <3>2 DEF Contains
    <3>3. CASE i - Len(s) \in DOMAIN a /\ t[i] = a[i - Len(s)]
      BY <1>1, <3>1, <3>3 DEF Contains
    <3> QED BY <1>4, <3>2, <3>3
  <2> QED BY <2>1, <2>2, <2>3
<1>11. ASSUME NEW P, \A i \in DOMAIN s : s[i] \in P, \A i \in DOMAIN a : a[i] \in P
       PROVE  \A i \in DOMAIN t : t[i] \in P
  BY <1>4, <1>11
<1> QED BY <1>1, <1>5, <1>6, <1>7, <1>8, <1>9, <1>10, <1>11 DEF t

\* What is in a chain of one, and in an empty one.
LEMMA ShortChains ==
  /\ << >> \in Seq(Items) /\ NoAnswer(<< >>) /\ (\A x : ~Contains(<< >>, x)) /\ \A P : \A i \in DOMAIN << >> : << >>[i] \in P
  /\ \A x \in Items :
       /\ <<x>> \in Seq(Items) /\ Contains(<<x>>, x)
       /\ x.what # "answer" => NoAnswer(<<x>>)
       /\ \A v : x = Send("answer", v) => OneAnswer(<<x>>, v) /\ LastAnswer(<<x>>, v)
       /\ \A P : x \in P => \A i \in DOMAIN <<x>> : <<x>>[i] \in P
<1>1. /\ << >> \in Seq(Items) /\ NoAnswer(<< >>) /\ (\A x : ~Contains(<< >>, x)) /\ \A P : \A i \in DOMAIN << >> : << >>[i] \in P
  BY DEF NoAnswer, Contains
<1>2. ASSUME NEW x \in Items
      PROVE  /\ <<x>> \in Seq(Items) /\ Contains(<<x>>, x)
             /\ x.what # "answer" => NoAnswer(<<x>>)
             /\ \A v : x = Send("answer", v) => OneAnswer(<<x>>, v) /\ LastAnswer(<<x>>, v)
             /\ \A P : x \in P => \A i \in DOMAIN <<x>> : <<x>>[i] \in P
  <2> DEFINE s == <<x>>
  <2>1. s \in Seq(Items) /\ DOMAIN s = {1} /\ s[1] = x /\ Len(s) = 1 /\ 1 <= 1 /\ 1 \in 1 .. Len(s)
    OBVIOUS
  <2> HIDE DEF s
  <2> QED BY <2>1 DEF s, NoAnswer, Contains, OneAnswer, LastAnswer
<1> QED BY <1>1, <1>2

\* What is left of a chain when its first is over.
LEMMA ChainShrinks ==
  ASSUME NEW s \in Seq(Items), s # << >>
  PROVE  /\ Tail(s) \in Seq(Items) /\ Head(s) \in Items /\ Contains(s, Head(s))
         /\ NoAnswer(s) => NoAnswer(Tail(s)) /\ Head(s).what # "answer"
         /\ \A v : LastAnswer(s, v) => \/ LastAnswer(Tail(s), v)
                                       \/ Head(s) = Send("answer", v) /\ NoAnswer(Tail(s))
         /\ \A v : OneAnswer(s, v) => \/ OneAnswer(Tail(s), v) /\ Head(s).what # "answer"
                                      \/ Head(s) = Send("answer", v) /\ NoAnswer(Tail(s))
         /\ \A x : Contains(s, x) => Contains(Tail(s), x) \/ x = Head(s)
         /\ \A P : (\A i \in DOMAIN s : s[i] \in P)
                     => Head(s) \in P /\ \A i \in DOMAIN Tail(s) : Tail(s)[i] \in P
<1> DEFINE t == Tail(s)
           h == Head(s)
<1>1. /\ t \in Seq(Items) /\ h \in Items /\ Len(s) \in Nat \ {0} /\ DOMAIN s = 1 .. Len(s)
      /\ Len(t) = Len(s) - 1 /\ DOMAIN t = 1 .. Len(s) - 1 /\ h = s[1] /\ 1 \in DOMAIN s
  OBVIOUS
<1>2. \A i \in DOMAIN t : i + 1 \in DOMAIN s /\ t[i] = s[i + 1]
  OBVIOUS
<1>3. \A j \in DOMAIN s : j = 1 \/ (j > 1 /\ j - 1 \in DOMAIN t /\ t[j - 1] = s[j])
  OBVIOUS
<1> HIDE DEF t, h
<1>4. Contains(s, h)
  BY <1>1 DEF Contains
<1>5. NoAnswer(s) => NoAnswer(t) /\ h.what # "answer"
  BY <1>1, <1>2 DEF NoAnswer
<1>6. ASSUME NEW v, LastAnswer(s, v)
      PROVE  LastAnswer(t, v) \/ (h = Send("answer", v) /\ NoAnswer(t))
  <2>1. PICK i \in DOMAIN s : s[i] = Send("answer", v) /\ \A j \in DOMAIN s : s[j].what = "answer" => j <= i
    BY <1>6 DEF LastAnswer
  <2>2. CASE i = 1
    <3>1. NoAnswer(t)
      BY <1>1, <1>2, <2>1, <2>2 DEF NoAnswer
    <3> QED BY <1>1, <2>1, <2>2, <3>1
  <2>3. CASE i # 1
    <3>1. i - 1 \in DOMAIN t /\ t[i - 1] = Send("answer", v)
      BY <1>3, <2>1, <2>3
    <3>2. \A j \in DOMAIN t : t[j].what = "answer" => j <= i - 1
      BY <1>1, <1>2, <2>1
    <3> QED BY <3>1, <3>2 DEF LastAnswer
  <2> QED BY <2>2, <2>3
<1>7. ASSUME NEW v, OneAnswer(s, v)
      PROVE  (OneAnswer(t, v) /\ h.what # "answer") \/ (h = Send("answer", v) /\ NoAnswer(t))
  <2>1. PICK i \in DOMAIN s : s[i] = Send("answer", v) /\ \A j \in DOMAIN s : s[j].what = "answer" => j = i
    BY <1>7 DEF OneAnswer
  <2>2. CASE i = 1
    <3>1. NoAnswer(t)
      BY <1>1, <1>2, <2>1, <2>2 DEF NoAnswer
    <3> QED BY <1>1, <2>1, <2>2, <3>1
  <2>3. CASE i # 1
    <3>1. i - 1 \in DOMAIN t /\ t[i - 1] = Send("answer", v) /\ h.what # "answer"
      BY <1>1, <1>3, <2>1, <2>3
    <3>2. \A j \in DOMAIN t : t[j].what = "answer" => j = i - 1
      BY <1>1, <1>2, <2>1
    <3> QED BY <3>1, <3>2 DEF OneAnswer
  <2> QED BY <2>2, <2>3
<1>8. ASSUME NEW x, Contains(s, x) PROVE Contains(t, x) \/ x = h
  BY <1>1, <1>3, <1>8 DEF Contains
<1>9. ASSUME NEW P, \A i \in DOMAIN s : s[i] \in P
      PROVE  h \in P /\ \A i \in DOMAIN t : t[i] \in P
  BY <1>1, <1>2, <1>9
<1> QED BY <1>1, <1>4, <1>5, <1>6, <1>7, <1>8, <1>9 DEF t, h

\* What a flush adds: of an answer that is edited the part shown first, if it has
\* grown, and in the end the document; otherwise all of it, in the end.
LEMMA FlushedItems ==
  ASSUME RenderShape, NEW final \in BOOLEAN
  PROVE  /\ FlushAdds(final) \in Seq(Items)
         /\ edits /\ (text = 0 \/ preview = FirstPart) => NoAnswer(FlushAdds(final))
         /\ edits /\ text > 0 /\ preview # FirstPart => LastAnswer(FlushAdds(final), FirstPart)
         /\ ~edits /\ ~final => FlushAdds(final) = << >>
         /\ ~edits /\ final /\ text > 0 /\ ~Long => OneAnswer(FlushAdds(final), text)
         /\ edits /\ final /\ Long /\ ~fileSent => Contains(FlushAdds(final), Send("file", text))
         /\ \A i \in DOMAIN FlushAdds(final) :
              FlushAdds(final)[i] \in {x \in Items : /\ x.what = "file" => final /\ x = Send("file", text)
                                                     /\ x.what \notin {"warning", "caption"}}
<1> DEFINE P == {x \in Items : /\ x.what = "file" => final /\ x = Send("file", text)
                               /\ x.what \notin {"warning", "caption"}}
           A == Send("answer", FirstPart)
           D == Send("file", text)
           W == Send("answer", text)
<1>t. /\ text \in Nat /\ MaxChars \in Nat \ {0} /\ FirstPart \in Nat /\ edits \in BOOLEAN
      /\ Long \in BOOLEAN /\ (Long => text > 0)
  BY RenderAssumption DEF RenderShape, RenderTypeOK, FirstPart, Long
<1>i. /\ A \in Items /\ D \in Items /\ W \in Items
      /\ A.what = "answer" /\ D.what = "file" /\ W.what = "answer"
  BY <1>t, SendIsItem
<1>p. A \in P /\ W \in P /\ (final => D \in P)
  BY <1>i
<1>c. \A x \in Items :
        /\ <<x>> \in Seq(Items) /\ Contains(<<x>>, x)
        /\ x.what # "answer" => NoAnswer(<<x>>)
        /\ \A v : x = Send("answer", v) => OneAnswer(<<x>>, v) /\ LastAnswer(<<x>>, v)
        /\ \A Q : x \in Q => \A i \in DOMAIN <<x>> : <<x>>[i] \in Q
  BY ShortChains
<1>e. /\ << >> \in Seq(Items) /\ NoAnswer(<< >>) /\ \A Q : \A i \in DOMAIN << >> : << >>[i] \in Q
  BY ShortChains
<1> HIDE DEF P, A, D, W
<1>n. /\ <<A>> \in Seq(Items) /\ LastAnswer(<<A>>, FirstPart) /\ \A i \in DOMAIN <<A>> : <<A>>[i] \in P
      /\ <<W>> \in Seq(Items) /\ OneAnswer(<<W>>, text) /\ \A i \in DOMAIN <<W>> : <<W>>[i] \in P
      /\ <<D>> \in Seq(Items) /\ NoAnswer(<<D>>) /\ Contains(<<D>>, D)
      /\ final => \A i \in DOMAIN <<D>> : <<D>>[i] \in P
  BY <1>c, <1>i, <1>p DEF A, W
<1>d. /\ Document \in Seq(Items) /\ NoAnswer(Document)
      /\ Long /\ ~fileSent => Contains(Document, D)
      /\ final => \A i \in DOMAIN Document : Document[i] \in P
  BY <1>n, <1>e DEF Document, D
<1>a. /\ NewPreview \in Seq(Items)
      /\ preview = FirstPart => NewPreview = << >>
      /\ preview # FirstPart => LastAnswer(NewPreview, FirstPart)
      /\ \A i \in DOMAIN NewPreview : NewPreview[i] \in P
  BY <1>n, <1>e DEF NewPreview, A
<1>w. /\ WholeAnswer \in Seq(Items)
      /\ ~Long => OneAnswer(WholeAnswer, text)
      /\ final => \A i \in DOMAIN WholeAnswer : WholeAnswer[i] \in P
  BY <1>n, <1>d DEF WholeAnswer, W
<1> DEFINE F == FlushAdds(final)
<1>g. SUFFICES /\ F \in Seq(Items)
               /\ edits /\ (text = 0 \/ preview = FirstPart) => NoAnswer(F)
               /\ edits /\ text > 0 /\ preview # FirstPart => LastAnswer(F, FirstPart)
               /\ ~edits /\ ~final => F = << >>
               /\ ~edits /\ final /\ text > 0 /\ ~Long => OneAnswer(F, text)
               /\ edits /\ final /\ Long /\ ~fileSent => Contains(F, D)
               /\ \A i \in DOMAIN F : F[i] \in P
  BY DEF P, D
<1>1. CASE text = 0
  <2>1. F = << >>
    BY <1>1 DEF FlushAdds
  <2> HIDE DEF F
  <2> QED BY <1>1, <1>e, <1>t, <2>1
<1>2. CASE text > 0 /\ edits
  <2> DEFINE E == IF final THEN Document ELSE << >>
  <2>1. F = NewPreview \o E
    BY <1>2 DEF FlushAdds
  <2>2. /\ E \in Seq(Items) /\ NoAnswer(E) /\ (final /\ Long /\ ~fileSent => Contains(E, D))
        /\ \A i \in DOMAIN E : E[i] \in P
    BY <1>d, <1>e
  <2> HIDE DEF E, F
  <2>3. /\ F \in Seq(Items) /\ (NoAnswer(NewPreview) => NoAnswer(F))
        /\ (LastAnswer(NewPreview, FirstPart) => LastAnswer(F, FirstPart))
        /\ (Contains(E, D) => Contains(F, D))
        /\ \A i \in DOMAIN F : F[i] \in P
    BY <1>a, <2>1, <2>2, ChainGrows
  <2> QED BY <1>2, <1>a, <1>e, <2>2, <2>3
<1>3. CASE text > 0 /\ ~edits /\ final
  <2>1. F = WholeAnswer
    BY <1>3 DEF FlushAdds
  <2> HIDE DEF F
  <2> QED BY <1>3, <1>w, <2>1
<1>4. CASE text > 0 /\ ~edits /\ ~final
  <2>1. F = << >>
    BY <1>4 DEF FlushAdds
  <2> HIDE DEF F
  <2> QED BY <1>4, <1>e, <2>1
<1> HIDE DEF F
<1> QED BY <1>t, <1>1, <1>2, <1>3, <1>4

\* A flush keeps what the chain and the chat tell; the last one makes it complete.
LEMMA FlushTells ==
  ASSUME RenderInv, ~Over, NEW final \in BOOLEAN, NEW before \in {<< >>, <<Aside>>},
         NEW after \in {<< >>, <<Aside>>, <<Warning, Aside>>}, Flush(final, before, after),
         UNCHANGED <<edits, text, bubble, attempt, chat, short, doubtful>>,
         fate' \in {"open", "finished", "failed", "dropped"}, final <=> Over', ticking' \in BOOLEAN,
         final => ~ticking', fate' = "failed" => after = <<Warning, Aside>>
  PROVE  RenderInv'
<1> DEFINE F == FlushAdds(final)
           P == {x \in Items : /\ x.what = "file" => final /\ x = Send("file", text)
                               /\ x.what = "warning" => x = Warning
                               /\ x.what # "caption"}
           s1 == sends \o before
           s2 == s1 \o F
<1>t. /\ text \in Nat /\ text \in 0 .. MaxPieces /\ MaxChars \in Nat \ {0} /\ preview \in Nat /\ bubble \in Nat
      /\ edits \in BOOLEAN /\ fileSent = FALSE /\ ticking \in BOOLEAN /\ doubtful \in BOOLEAN
      /\ FirstPart \in 0 .. MaxChars + 1 /\ (FirstPart = 0 <=> text = 0) /\ sends \in Seq(Items)
      /\ attempt \in 0 .. Plain /\ bubble \in 0 .. Len(chat) /\ short \subseteq {"answer", "file", "warning"}
      /\ chat \in Seq(Items)
  BY RenderAssumption DEF RenderInv, RenderShape, RenderTypeOK, FirstPart, Long
<1>o. /\ sends' = s2 \o after /\ preview' = (IF edits THEN FirstPart ELSE preview)
      /\ fileSent' = (final /\ Long) /\ edits' = edits /\ text' = text /\ FirstPart' = FirstPart
      /\ bubble' = bubble /\ chat' = chat /\ short' = short /\ doubtful' = doubtful /\ attempt' = attempt
      /\ (Long <=> Long')
  BY <1>t DEF Flush, FirstPart, Long
<1>f. /\ F \in Seq(Items)
      /\ edits /\ (text = 0 \/ preview = FirstPart) => NoAnswer(F)
      /\ edits /\ text > 0 /\ preview # FirstPart => LastAnswer(F, FirstPart)
      /\ ~edits /\ ~final => F = << >>
      /\ ~edits /\ final /\ text > 0 /\ ~Long => OneAnswer(F, text)
      /\ edits /\ final /\ Long => Contains(F, Send("file", text))
      /\ \A i \in DOMAIN F : F[i] \in P
  BY <1>t, FlushedItems DEF RenderInv
<1>p. Aside \in P /\ Warning \in P /\ Aside.what = "aside" /\ Warning.what = "warning"
  BY SendIsItem DEF Aside, Warning
<1>b. before \in Seq(Items) /\ NoAnswer(before) /\ \A i \in DOMAIN before : before[i] \in P
  <2> HIDE DEF P
  <2> QED BY <1>p, ShortChains, SendIsItem
<1>a. /\ after \in Seq(Items) /\ NoAnswer(after) /\ \A i \in DOMAIN after : after[i] \in P
      /\ fate' = "failed" => Contains(after, Warning)
  <2> HIDE DEF P
  <2>1. CASE after # <<Warning, Aside>>
    BY <1>p, <2>1, ShortChains, SendIsItem
  <2>2. CASE after = <<Warning, Aside>>
    <3>1. after = <<Warning>> \o <<Aside>>
      BY <2>2
    <3>2. /\ <<Warning>> \in Seq(Items) /\ NoAnswer(<<Warning>>) /\ Contains(<<Warning>>, Warning)
          /\ \A i \in DOMAIN <<Warning>> : <<Warning>>[i] \in P
          /\ <<Aside>> \in Seq(Items) /\ NoAnswer(<<Aside>>)
          /\ \A i \in DOMAIN <<Aside>> : <<Aside>>[i] \in P
      BY <1>p, ShortChains, SendIsItem
    <3> QED BY <3>1, <3>2, ChainGrows
  <2> QED BY <2>1, <2>2
<1>s. \A i \in DOMAIN sends : sends[i] \in P
  <2>1. \A i \in DOMAIN sends : sends[i] \in Items
    BY <1>t
  <2> QED BY <2>1 DEF RenderInv, ExtrasTell
<1> HIDE DEF F, P
<1>1. /\ s1 \in Seq(Items) /\ (NoAnswer(sends) => NoAnswer(s1))
      /\ \A v : LastAnswer(sends, v) => LastAnswer(s1, v)
      /\ \A i \in DOMAIN s1 : s1[i] \in P
  BY <1>t, <1>b, <1>s, ChainGrows
<1> HIDE DEF s1
<1>2. /\ s2 \in Seq(Items) /\ (NoAnswer(s1) /\ NoAnswer(F) => NoAnswer(s2))
      /\ \A v : LastAnswer(s1, v) /\ NoAnswer(F) => LastAnswer(s2, v)
      /\ \A v : LastAnswer(F, v) => LastAnswer(s2, v)
      /\ \A v : NoAnswer(s1) /\ OneAnswer(F, v) => OneAnswer(s2, v)
      /\ \A x : Contains(F, x) => Contains(s2, x)
      /\ \A i \in DOMAIN s2 : s2[i] \in P
  BY <1>f, <1>1, ChainGrows
<1> HIDE DEF s2
<1>3. /\ sends' \in Seq(Items) /\ (NoAnswer(s2) => NoAnswer(sends'))
      /\ \A v : LastAnswer(s2, v) => LastAnswer(sends', v)
      /\ \A v : OneAnswer(s2, v) => OneAnswer(sends', v)
      /\ \A x : Contains(s2, x) \/ Contains(after, x) => Contains(sends', x)
      /\ \A i \in DOMAIN sends' : sends'[i] \in P
  BY <1>a, <1>2, <1>o, ChainGrows
<1>4. RenderShape'
  <2>1. {ticking', fileSent', doubtful'} \subseteq BOOLEAN
    BY <1>t, <1>o DEF Long
  <2>2. preview' \in 0 .. MaxChars + 1
    BY <1>t, <1>o DEF RenderInv, RenderShape, RenderTypeOK
  <2> QED BY <1>t, <1>o, <1>3, <2>1, <2>2 DEF RenderShape, RenderTypeOK
<1>5. edits' => EditsTell'
  <2>1. SUFFICES ASSUME edits PROVE EditsTell'
    BY <1>o
  <2>2. EditsTell
    BY <2>1 DEF RenderInv
  <2>3. \/ preview' = 0 /\ NoAnswer(sends')
        \/ preview' # 0 /\ LastAnswer(sends', preview')
        \/ preview' # 0 /\ NoAnswer(sends')
             /\ ("answer" \in short' \/ (bubble' # 0 /\ chat'[bubble'] = Send("answer", preview')))
    <3>1. CASE text = 0
      BY <1>t, <1>o, <1>f, <1>1, <1>2, <1>3, <2>1, <2>2, <3>1 DEF EditsTell
    <3>2. CASE text # 0 /\ preview # FirstPart
      BY <1>t, <1>o, <1>f, <1>2, <1>3, <2>1, <3>2
    <3>3. CASE text # 0 /\ preview = FirstPart
      BY <1>t, <1>o, <1>f, <1>1, <1>2, <1>3, <2>1, <2>2, <3>3 DEF EditsTell
    <3> QED BY <3>1, <3>2, <3>3
  <2>4. Told' = Told
    BY <1>o DEF Told
  <2> QED BY <1>t, <1>o, <2>1, <2>2, <2>3, <2>4 DEF EditsTell
<1>6. ~edits' => WholeTells'
  <2>1. SUFFICES ASSUME ~edits PROVE WholeTells'
    BY <1>o
  <2>2. bubble = 0 /\ NoAnswer(sends) /\ NoAnswer(chat)
    BY <2>1 DEF RenderInv, WholeTells
  <2>3. ~final => NoAnswer(sends')
    <3>1. ~final => NoAnswer(F)
      BY <1>f, <2>1, ShortChains
    <3> QED BY <1>1, <1>2, <1>3, <2>2, <3>1
  <2>4. final /\ text > 0 /\ ~Long => OneAnswer(sends', text)
    BY <1>f, <1>1, <1>2, <1>3, <2>1, <2>2
  <2> QED BY <1>o, <2>2, <2>3, <2>4 DEF WholeTells
<1>7. ExtrasTell'
  <2>1. \A i \in DOMAIN sends' :
          /\ sends'[i].what = "file" => final /\ sends'[i] = Send("file", text)
          /\ sends'[i].what = "warning" => sends'[i] = Warning
          /\ sends'[i].what # "caption"
    BY <1>3 DEF P
  <2>2. edits /\ final /\ Long => Contains(sends', Send("file", text))
    BY <1>f, <1>2, <1>3
  <2>3. fate' = "failed" => Contains(sends', Warning)
    BY <1>a, <1>3
  <2>4. Send("file", text)' = Send("file", text) /\ Warning' = Warning
    BY <1>o DEF Send, Warning
  <2> QED BY <1>o, <2>1, <2>2, <2>3, <2>4 DEF ExtrasTell
<1> QED BY <1>4, <1>5, <1>6, <1>7 DEF RenderInv

\* What the chat shows when the first send has arrived.
LEMMA ArrivesAs ==
  ASSUME RenderShape, sends # << >>, edits => EditsTell, ~edits => WholeTells, NEW n, n = ChatWithFirst
  PROVE  /\ n \in Seq(Items) /\ Len(n) >= Len(chat)
         /\ \A x : x.what # "answer" /\ Contains(chat, x) => Contains(n, x)
         /\ Stands /\ (edits \/ First.what # "file") => Contains(n, First)
         /\ bubble # 0 => n[bubble] = IF First.what = "answer" THEN First ELSE chat[bubble]
         /\ \A i \in DOMAIN n : n[i].what = "answer" =>
              (i \in DOMAIN chat /\ i \in Told) \/ (First.what = "answer" /\ bubble = 0 /\ i = Len(n))
         /\ First.what = "answer" /\ bubble = 0 => Len(n) > 0 /\ n[Len(n)] = First
         /\ bubble = 0 /\ First.what # "answer" /\ NoAnswer(chat) => NoAnswer(n)
         /\ \A v : bubble = 0 /\ First.what # "answer" /\ OneAnswer(chat, v) => OneAnswer(n, v)
         /\ \A v : bubble = 0 /\ First = Send("answer", v) /\ NoAnswer(chat) => OneAnswer(n, v)
<1>t. /\ First \in Items /\ Shown \in Items /\ chat \in Seq(Items) /\ Len(chat) \in Nat
      /\ DOMAIN chat = 1 .. Len(chat) /\ bubble \in 0 .. Len(chat) /\ edits \in BOOLEAN
      /\ bubble # 0 => bubble \in DOMAIN chat /\ chat[bubble].what = "answer"
  <2>1. First \in Items
    BY ChainShrinks DEF RenderShape, First
  <2>2. Shown \in Items
    BY <2>1, SendIsItem DEF Shown
  <2>3. bubble # 0 => chat[bubble].what = "answer"
    BY DEF EditsTell, WholeTells
  <2>4. chat \in Seq(Items) /\ bubble \in 0 .. Len(chat) /\ edits \in BOOLEAN
    BY DEF RenderShape, RenderTypeOK
  <2> QED BY <2>1, <2>2, <2>3, <2>4
<1>n. /\ Shown.what = "answer" <=> First.what = "answer"
      /\ edits \/ First.what # "file" => Shown = First
  BY SendIsItem DEF Shown
<1>1. CASE ~Stands
  <2>1. n = chat /\ First.what # "answer"
    BY <1>1 DEF ChatWithFirst, Stands
  <2>2. \A v : First # Send("answer", v)
    BY <2>1, SendIsItem
  <2>3. \A i \in DOMAIN n : n[i].what = "answer" => i \in DOMAIN chat /\ i \in Told
    BY <2>1 DEF Told
  <2> QED BY <1>1, <1>t, <2>1, <2>2, <2>3
<1>2. CASE Stands /\ IsEdit
  <2>1. n = [chat EXCEPT ![bubble] = First] /\ First.what = "answer" /\ bubble # 0
    BY <1>2, <1>n DEF ChatWithFirst, IsEdit
  <2>2. /\ n \in Seq(Items) /\ Len(n) = Len(chat) /\ DOMAIN n = 1 .. Len(chat) /\ n[bubble] = First
        /\ \A i \in DOMAIN chat : i # bubble => n[i] = chat[i]
    BY <1>t, <2>1
  <2>3. ASSUME NEW x, x.what # "answer", Contains(chat, x) PROVE Contains(n, x)
    BY <1>t, <2>2, <2>3 DEF Contains
  <2>4. Contains(n, First)
    BY <1>t, <2>1, <2>2 DEF Contains
  <2>5. \A i \in DOMAIN n : n[i].what = "answer" => i \in DOMAIN chat /\ i \in Told
    BY <1>t, <2>1, <2>2 DEF Told
  <2>6. bubble # 0 /\ First.what = "answer" /\ Len(n) >= Len(chat) /\ n[bubble] = First
    BY <1>t, <2>1, <2>2
  <2> QED BY <2>2, <2>3, <2>4, <2>5, <2>6
<1>3. CASE Stands /\ ~IsEdit
  <2>1. n = Append(chat, Shown) /\ (First.what = "answer" => bubble = 0)
    BY <1>3 DEF ChatWithFirst, IsEdit
  <2>2. /\ n \in Seq(Items) /\ Len(n) = Len(chat) + 1 /\ DOMAIN n = 1 .. Len(chat) + 1
        /\ n[Len(n)] = Shown /\ \A i \in DOMAIN chat : i \in DOMAIN n /\ n[i] = chat[i]
        /\ \A i \in DOMAIN n : i \in DOMAIN chat \/ i = Len(n)
    BY <1>t, <2>1
  <2>3. ASSUME NEW x, Contains(chat, x) PROVE Contains(n, x)
    BY <1>t, <2>2, <2>3 DEF Contains
  <2>4. edits \/ First.what # "file" => Contains(n, First)
    BY <1>t, <1>n, <2>2 DEF Contains
  <2>5. First.what # "answer" /\ NoAnswer(chat) => NoAnswer(n)
    BY <1>n, <2>2 DEF NoAnswer
  <2>6. ASSUME NEW v, First.what # "answer", OneAnswer(chat, v) PROVE OneAnswer(n, v)
    <3>1. PICK i \in DOMAIN chat : chat[i] = Send("answer", v) /\ \A j \in DOMAIN chat : chat[j].what = "answer" => j = i
      BY <2>6 DEF OneAnswer
    <3>2. \A j \in DOMAIN n : n[j].what = "answer" => j = i
      BY <1>n, <2>2, <2>6, <3>1
    <3> QED BY <2>2, <3>1, <3>2 DEF OneAnswer
  <2>7. ASSUME NEW v, First = Send("answer", v), NoAnswer(chat) PROVE OneAnswer(n, v)
    <3>1. n[Len(n)] = Send("answer", v) /\ Len(n) \in DOMAIN n
      BY <1>t, <1>n, <2>2, <2>7, SendIsItem
    <3>2. \A j \in DOMAIN n : n[j].what = "answer" => j = Len(n)
      BY <2>2, <2>7 DEF NoAnswer
    <3> QED BY <3>1, <3>2 DEF OneAnswer
  <2>8. \A i \in DOMAIN n : n[i].what = "answer" =>
          (i \in DOMAIN chat /\ i \in Told) \/ (First.what = "answer" /\ bubble = 0 /\ i = Len(n))
    BY <1>n, <2>1, <2>2 DEF Told
  <2>9. bubble # 0 => n[bubble] = IF First.what = "answer" THEN First ELSE chat[bubble]
    BY <1>t, <2>1, <2>2
  <2>10. First.what = "answer" /\ bubble = 0 => Len(n) > 0 /\ n[Len(n)] = First
    BY <1>t, <1>n, <2>2
  <2> QED BY <1>t, <2>2, <2>3, <2>4, <2>5, <2>6, <2>7, <2>8, <2>9, <2>10
<1> QED BY <1>1, <1>2, <1>3

\* The first send arrives, is given up, or is tried once more.
LEMMA ServeTells ==
  ASSUME RenderInv, Serve
  PROVE  RenderInv'
<1> DEFINE n == ChatWithFirst
<1>e. sends # << >>
  BY DEF Serve, Delivered, GivesUp, TriesAgain, TriesPlain
<1>u. UNCHANGED <<edits, text, preview, ticking, fate, fileSent>>
  BY DEF Serve, Delivered, GivesUp, TriesAgain, TriesPlain
<1>t. /\ edits \in BOOLEAN /\ sends \in Seq(Items) /\ chat \in Seq(Items) /\ bubble \in 0 .. Len(chat)
      /\ Len(chat) \in Nat /\ short \subseteq {"answer", "file", "warning"} /\ attempt \in 0 .. 3
      /\ doubtful \in BOOLEAN /\ DOMAIN chat = 1 .. Len(chat)
  BY DEF RenderInv, RenderShape, RenderTypeOK, Plain, RichTries
<1>n. /\ n \in Seq(Items) /\ Len(n) >= Len(chat) /\ Len(n) \in Nat
      /\ \A x : x.what # "answer" /\ Contains(chat, x) => Contains(n, x)
      /\ Stands /\ (edits \/ First.what # "file") => Contains(n, First)
      /\ bubble # 0 => n[bubble] = IF First.what = "answer" THEN First ELSE chat[bubble]
      /\ \A i \in DOMAIN n : n[i].what = "answer" =>
           (i \in DOMAIN chat /\ i \in Told) \/ (First.what = "answer" /\ bubble = 0 /\ i = Len(n))
      /\ First.what = "answer" /\ bubble = 0 => Len(n) > 0 /\ n[Len(n)] = First
      /\ bubble = 0 /\ First.what # "answer" /\ NoAnswer(chat) => NoAnswer(n)
      /\ \A v : bubble = 0 /\ First.what # "answer" /\ OneAnswer(chat, v) => OneAnswer(n, v)
      /\ \A v : bubble = 0 /\ First = Send("answer", v) /\ NoAnswer(chat) => OneAnswer(n, v)
  <2>1. RenderShape /\ (edits => EditsTell) /\ (~edits => WholeTells)
    BY DEF RenderInv
  <2>2. n \in Seq(Items)
    BY <1>e, <2>1, ArrivesAs
  <2> HIDE DEF n
  <2> QED BY <1>e, <2>1, <2>2, ArrivesAs DEF n
<1>c. /\ Tail(sends) \in Seq(Items) /\ First \in Items /\ Contains(sends, First)
      /\ NoAnswer(sends) => NoAnswer(Tail(sends)) /\ First.what # "answer"
      /\ \A v : LastAnswer(sends, v) => \/ LastAnswer(Tail(sends), v)
                                        \/ First = Send("answer", v) /\ NoAnswer(Tail(sends))
      /\ \A v : OneAnswer(sends, v) => \/ OneAnswer(Tail(sends), v) /\ First.what # "answer"
                                       \/ First = Send("answer", v) /\ NoAnswer(Tail(sends))
      /\ \A x : Contains(sends, x) => Contains(Tail(sends), x) \/ x = First
      /\ \A P : (\A i \in DOMAIN sends : sends[i] \in P)
                  => First \in P /\ \A i \in DOMAIN Tail(sends) : Tail(sends)[i] \in P
  BY <1>e, <1>t, ChainShrinks DEF First
<1>a. /\ Delivered => /\ sends' = Tail(sends) /\ attempt' = 0 /\ chat' = n /\ short' = short \ {First.what}
                      /\ bubble' = (IF edits /\ First.what = "answer" /\ bubble = 0 THEN Len(n) ELSE bubble)
                      /\ doubtful' = doubtful
      /\ GivesUp => /\ sends' = Tail(sends) /\ attempt' = 0 /\ bubble' = bubble
                    /\ short' = (IF First.what # "aside" THEN short \cup {First.what} ELSE short)
                    /\ \/ chat' = chat /\ doubtful' = doubtful
                       \/ First.what # "aside" /\ chat' = n
                            /\ doubtful' = (doubtful \/ ~(First.what = "answer" /\ bubble # 0))
      /\ TriesAgain => /\ sends' = sends /\ attempt' \in 0 .. 3 /\ chat' = chat /\ short' = short
                       /\ bubble' = bubble /\ doubtful' = doubtful
      /\ TriesPlain => /\ sends' = sends /\ attempt' \in 0 .. 3 /\ short' = short /\ bubble' = bubble
                       /\ First.what \in {"answer", "warning"} /\ edits
                       /\ \/ chat' = chat /\ doubtful' = doubtful
                          \/ chat' = n /\ doubtful' = (doubtful \/ ~(First.what = "answer" /\ bubble # 0))
  <2>1. Delivered => /\ sends' = Tail(sends) /\ attempt' = 0 /\ chat' = n /\ short' = short \ {First.what}
                     /\ bubble' = (IF edits /\ First.what = "answer" /\ bubble = 0 THEN Len(n) ELSE bubble)
                     /\ doubtful' = doubtful
    BY DEF Delivered, SendIsOver, IsEdit
  <2>2. GivesUp => /\ sends' = Tail(sends) /\ attempt' = 0 /\ bubble' = bubble
                   /\ short' = (IF First.what # "aside" THEN short \cup {First.what} ELSE short)
                   /\ \/ chat' = chat /\ doubtful' = doubtful
                      \/ First.what # "aside" /\ chat' = n
                           /\ doubtful' = (doubtful \/ ~(First.what = "answer" /\ bubble # 0))
    BY DEF GivesUp, SendIsOver, IsEdit, Stands
  <2>3. TriesAgain => /\ sends' = sends /\ attempt' \in 0 .. 3 /\ chat' = chat /\ short' = short
                      /\ bubble' = bubble /\ doubtful' = doubtful
    BY <1>t DEF TriesAgain, RichTries
  <2>4. TriesPlain => /\ sends' = sends /\ attempt' \in 0 .. 3 /\ short' = short /\ bubble' = bubble
                      /\ First.what \in {"answer", "warning"} /\ edits
                      /\ \/ chat' = chat /\ doubtful' = doubtful
                         \/ chat' = n /\ doubtful' = (doubtful \/ ~(First.what = "answer" /\ bubble # 0))
    BY DEF TriesPlain, Plain, RichTries, IsEdit
  <2> QED BY <2>1, <2>2, <2>3, <2>4
<1> HIDE DEF n
<1>k. Delivered \/ GivesUp \/ TriesAgain \/ TriesPlain
  BY DEF Serve
<1>v. FirstPart' = FirstPart /\ (Long <=> Long') /\ (Over <=> Over') /\ text' = text
  BY <1>u DEF FirstPart, Long, Over
<1>i. First.what \in {"aside", "warning", "answer", "file", "caption"}
  BY <1>c DEF Items
<1> DEFINE P == {x \in Items : /\ x.what = "file" => Over /\ x = Send("file", text)
                               /\ x.what = "warning" => x = Warning
                               /\ x.what # "caption"}
<1>p. \A i \in DOMAIN sends : sends[i] \in P
  <2>1. \A i \in DOMAIN sends : sends[i] \in Items
    BY <1>t
  <2> QED BY <2>1 DEF RenderInv, ExtrasTell
<1>q. First \in P /\ \A i \in DOMAIN sends' : sends'[i] \in P
  <2> HIDE DEF P
  <2> QED BY <1>a, <1>c, <1>k, <1>p
<1>f. /\ First.what = "file" => Over /\ First = Send("file", text)
      /\ First.what = "warning" => First = Warning
      /\ First.what \in {"aside", "warning", "answer", "file"}
  BY <1>q, <1>i
<1> HIDE DEF P
<1>z. First.what # "aside" <=> Stands
  BY DEF Stands
<1>w. ASSUME NEW x, x.what \notin {"answer", "aside"}, edits \/ x.what # "file", First.what = x.what => First = x,
             Contains(sends, x) \/ Contains(chat, x) \/ x.what \in short
      PROVE  Contains(sends', x) \/ Contains(chat', x) \/ x.what \in short'
  <2>1. CASE Contains(chat, x)
    BY <1>a, <1>k, <1>n, <1>w, <2>1
  <2>2. CASE Contains(sends, x)
    BY <1>a, <1>c, <1>k, <1>n, <1>w, <1>z, <2>2
  <2>3. CASE x.what \in short
    BY <1>a, <1>k, <1>n, <1>w, <1>z, <2>3
  <2> QED BY <1>w, <2>1, <2>2, <2>3
<1>1. RenderShape'
  <2>c. chat' = chat \/ chat' = n
    BY <1>a, <1>k
  <2>b. bubble' = bubble \/ (bubble' = Len(n) /\ chat' = n)
    BY <1>a, <1>k
  <2>l. bubble \in 0 .. Len(n) /\ Len(n) \in 0 .. Len(n)
    BY <1>n, <1>t
  <2>1. sends' \in Seq(Items) /\ chat' \in Seq(Items) /\ bubble' \in 0 .. Len(chat') /\ attempt' \in 0 .. 3
    <3>0. (sends' = sends \/ sends' = Tail(sends)) /\ (attempt' = 0 \/ attempt' \in 0 .. 3)
      BY <1>a, <1>k, Zenon
    <3>1. sends' \in Seq(Items) /\ attempt' \in 0 .. 3
      BY <1>c, <1>t, <3>0
    <3>2. bubble' \in 0 .. Len(chat')
      BY <1>t, <2>c, <2>b, <2>l
    <3> QED BY <1>n, <1>t, <2>c, <3>1, <3>2
  <2>2. short' \subseteq {"answer", "file", "warning"} /\ doubtful' \in BOOLEAN
    BY <1>a, <1>f, <1>k, <1>t
  <2>3. /\ text' \in 0 .. MaxPieces /\ preview' \in 0 .. MaxChars + 1 /\ edits' \in BOOLEAN
        /\ fate' \in {"open", "finished", "failed", "dropped"} /\ {ticking', fileSent'} \subseteq BOOLEAN
        /\ (Over' => ~ticking') /\ (fileSent' => Over')
    BY <1>u, <1>v DEF RenderInv, RenderShape, RenderTypeOK
  <2> QED BY <2>1, <2>2, <2>3 DEF RenderShape, RenderTypeOK, Plain, RichTries
<1>2. ASSUME edits PROVE EditsTell'
  <2>1. EditsTell
    BY <1>2 DEF RenderInv
  <2>2. (preview' # 0 => text' > 0) /\ (Over' => preview' = FirstPart') /\ preview' = preview
    BY <1>u, <1>v, <2>1 DEF EditsTell
  <2>3. bubble' # 0 => /\ chat'[bubble'].what = "answer"
                       /\ \/ chat' = chat /\ bubble' = bubble
                          \/ chat' = n /\ bubble' = bubble
                          \/ chat' = n /\ bubble = 0 /\ chat'[bubble'] = First
    <3>1. bubble # 0 => chat[bubble].what = "answer" /\ n[bubble].what = "answer"
      BY <1>n, <2>1 DEF EditsTell
    <3> QED BY <1>2, <1>a, <1>k, <1>n, <3>1
  <2>4. ~doubtful' => \A i \in Told' : i = bubble'
    <3>1. SUFFICES ASSUME ~doubtful', NEW i \in Told' PROVE i = bubble'
      OBVIOUS
    <3>2. ~doubtful /\ \A j \in Told : j = bubble
      <4>1. ~doubtful
        BY <1>a, <1>k, <3>1
      <4> QED BY <2>1, <4>1 DEF EditsTell
    <3>3. i \in DOMAIN chat' /\ chat'[i].what = "answer"
      BY <3>1 DEF Told
    <3>4. CASE chat' = chat /\ bubble' = bubble
      BY <3>2, <3>3, <3>4 DEF Told
    <3>5. CASE chat' = n /\ (Delivered \/ (First.what = "answer" /\ bubble # 0 /\ bubble' = bubble))
      <4>1. (i \in DOMAIN chat /\ i \in Told) \/ (First.what = "answer" /\ bubble = 0 /\ i = Len(n))
        BY <1>n, <3>3, <3>5
      <4>2. CASE i \in DOMAIN chat /\ i \in Told
        <5>1. i = bubble /\ bubble # 0
          BY <1>t, <3>2, <4>2
        <5> QED BY <1>a, <3>5, <5>1
      <4>3. CASE First.what = "answer" /\ bubble = 0 /\ i = Len(n)
        BY <1>2, <1>a, <3>5, <4>3
      <4> QED BY <4>1, <4>2, <4>3
    <3> QED BY <1>a, <1>k, <3>1, <3>4, <3>5
  <2>5. \/ preview' = 0 /\ NoAnswer(sends')
        \/ preview' # 0 /\ LastAnswer(sends', preview')
        \/ preview' # 0 /\ NoAnswer(sends')
             /\ ("answer" \in short' \/ (bubble' # 0 /\ chat'[bubble'] = Send("answer", preview')))
    <3>1. CASE preview = 0 /\ NoAnswer(sends)
      BY <1>a, <1>c, <1>k, <2>2, <3>1
    <3>2. CASE preview # 0 /\ LastAnswer(sends, preview)
      <4>1. CASE sends' = sends
        BY <2>2, <3>2, <4>1
      <4>2. CASE sends' = Tail(sends) /\ LastAnswer(Tail(sends), preview)
        BY <2>2, <3>2, <4>2
      <4>3. CASE sends' = Tail(sends) /\ First = Send("answer", preview) /\ NoAnswer(Tail(sends))
        <5>1. First.what = "answer"
          BY <4>3, SendIsItem
        <5>2. CASE Delivered
          <6>1. bubble' # 0 /\ chat' = n
            BY <1>2, <1>a, <1>n, <1>t, <5>1, <5>2
          <6>2. chat'[bubble'] = First
            BY <1>2, <1>a, <1>n, <5>1, <5>2
          <6> QED BY <2>2, <3>2, <4>3, <6>1, <6>2
        <5>3. CASE GivesUp
          BY <1>a, <2>2, <3>2, <4>3, <5>1, <5>3
        <5>4. CASE sends' = sends
          BY <2>2, <3>2, <5>4
        <5> QED BY <1>a, <1>k, <5>2, <5>3, <5>4
      <4> QED BY <1>a, <1>c, <1>k, <3>2, <4>1, <4>2, <4>3
    <3>3. CASE preview # 0 /\ NoAnswer(sends)
            /\ ("answer" \in short \/ (bubble # 0 /\ chat[bubble] = Send("answer", preview)))
      <4>1. First.what # "answer" /\ NoAnswer(sends')
        BY <1>a, <1>c, <1>k, <3>3
      <4>2. "answer" \in short => "answer" \in short'
        BY <1>a, <1>k, <4>1
      <4>3. bubble' = bubble
        BY <1>a, <1>k, <4>1
      <4>4. bubble # 0 => chat'[bubble] = chat[bubble]
        BY <1>a, <1>k, <1>n, <4>1
      <4> QED BY <2>2, <3>3, <4>1, <4>2, <4>3, <4>4
    <3> QED BY <2>1, <3>1, <3>2, <3>3 DEF EditsTell
  <2> QED BY <2>2, <2>3, <2>4, <2>5 DEF EditsTell
<1>3. ASSUME ~edits PROVE WholeTells'
  <2>1. WholeTells
    BY <1>3 DEF RenderInv
  <2>2. /\ bubble = 0 /\ bubble' = 0 /\ sends' = Tail(sends) /\ (Delivered \/ GivesUp)
        /\ chat' = n \/ (chat' = chat /\ GivesUp)
    <3>1. ~TriesAgain /\ ~TriesPlain
      BY <1>3 DEF TriesAgain, TriesPlain
    <3> QED BY <1>3, <1>a, <1>k, <2>1, <3>1 DEF WholeTells
  <2>3. ~Over' => NoAnswer(sends') /\ NoAnswer(chat')
    BY <1>c, <1>n, <1>v, <2>1, <2>2 DEF WholeTells
  <2>4. ASSUME Over, text > 0, ~Long
        PROVE  \/ OneAnswer(sends', text) /\ NoAnswer(chat')
               \/ NoAnswer(sends') /\ (("answer" \in short' /\ NoAnswer(chat')) \/ OneAnswer(chat', text))
    <3>1. CASE OneAnswer(sends, text) /\ NoAnswer(chat)
      <4>1. CASE OneAnswer(Tail(sends), text) /\ First.what # "answer"
        BY <1>n, <2>2, <3>1, <4>1
      <4>2. CASE First = Send("answer", text) /\ NoAnswer(Tail(sends))
        <5>1. First.what = "answer" /\ OneAnswer(n, text)
          BY <1>n, <2>2, <3>1, <4>2, SendIsItem
        <5> QED BY <1>a, <2>2, <3>1, <4>2, <5>1
      <4> QED BY <1>c, <3>1, <4>1, <4>2
    <3>2. CASE NoAnswer(sends) /\ (("answer" \in short /\ NoAnswer(chat)) \/ OneAnswer(chat, text))
      <4>1. First.what # "answer" /\ NoAnswer(sends')
        BY <1>c, <2>2, <3>2
      <4>2. "answer" \in short => "answer" \in short'
        BY <1>a, <2>2, <4>1
      <4>3. (NoAnswer(chat) => NoAnswer(chat')) /\ (OneAnswer(chat, text) => OneAnswer(chat', text))
        BY <1>n, <2>2, <4>1
      <4> QED BY <3>2, <4>1, <4>2, <4>3
    <3> QED BY <2>1, <2>4, <3>1, <3>2 DEF WholeTells
  <2> QED BY <1>v, <2>2, <2>3, <2>4 DEF WholeTells
<1>4. ExtrasTell'
  <2>1. \A i \in DOMAIN sends' :
          /\ sends'[i].what # "caption"
          /\ sends'[i].what = "file" => Over /\ sends'[i] = Send("file", text)
          /\ sends'[i].what = "warning" => sends'[i] = Warning
    BY <1>q DEF P
  <2>2. ASSUME edits, Over, Long
        PROVE  Contains(sends', Send("file", text)) \/ Contains(chat', Send("file", text)) \/ "file" \in short'
    <3> DEFINE x == Send("file", text)
    <3>1. x.what = "file"
      BY SendIsItem
    <3>2. Contains(sends, x) \/ Contains(chat, x) \/ "file" \in short
      BY <2>2 DEF RenderInv, ExtrasTell
    <3>3. First.what = "file" => First = x
      BY <1>f
    <3> HIDE DEF x
    <3>4. Contains(sends', x) \/ Contains(chat', x) \/ "file" \in short'
      BY <1>w, <2>2, <3>1, <3>2, <3>3
    <3> QED BY <3>4 DEF x
  <2>3. ASSUME fate = "failed"
        PROVE  Contains(sends', Warning) \/ Contains(chat', Warning) \/ "warning" \in short'
    <3>1. Warning.what = "warning"
      BY DEF Warning, Send
    <3>2. Contains(sends, Warning) \/ Contains(chat, Warning) \/ "warning" \in short
      BY <2>3 DEF RenderInv, ExtrasTell
    <3> QED BY <1>f, <1>w, <3>1, <3>2
  <2>4. Send("file", text)' = Send("file", text) /\ Warning' = Warning
    BY <1>v DEF Send, Warning
  <2> QED BY <1>u, <1>v, <2>1, <2>2, <2>3, <2>4 DEF ExtrasTell
<1> QED BY <1>u, <1>1, <1>2, <1>3, <1>4 DEF RenderInv

\* A renderer that has just begun has nothing to tell.
LEMMA RenderBegins ==
  ASSUME RenderIdle, sends \in {<< >>, <<Aside, Aside>>}, ticking \in BOOLEAN
  PROVE  RenderInv
<1>1. /\ sends \in Seq(Items) /\ NoAnswer(sends)
      /\ \A i \in DOMAIN sends : sends[i].what \notin {"file", "warning", "caption"}
  <2>1. CASE sends = << >>
    BY <2>1 DEF NoAnswer
  <2>2. CASE sends = <<Aside, Aside>>
    <3>1. sends \in Seq(Items) /\ \A i \in DOMAIN sends : sends[i] = Aside
      BY <2>2, SendIsItem
    <3>2. Aside.what = "aside"
      BY DEF Aside, Send
    <3> QED BY <3>1, <3>2 DEF NoAnswer
  <2> QED BY <2>1, <2>2
<1>2. chat = << >> /\ chat \in Seq(Items) /\ NoAnswer(chat) /\ Len(chat) = 0
  BY DEF RenderIdle, NoAnswer
<1>3. /\ edits \in BOOLEAN /\ text = 0 /\ preview = 0 /\ bubble = 0 /\ attempt = 0 /\ fate = "open"
      /\ fileSent = FALSE /\ short = {} /\ doubtful = FALSE /\ ~Over /\ Told = {}
  BY <1>2 DEF RenderIdle, Over, Told
<1>4. RenderShape
  <2>1. 0 \in 0 .. MaxPieces /\ 0 \in 0 .. MaxChars + 1 /\ 0 \in 0 .. 3
    BY RenderAssumption
  <2>2. {ticking, fileSent, doubtful} \subseteq BOOLEAN
    BY <1>3
  <2>3. (Over => ~ticking) /\ (fileSent => Over)
    BY <1>3
  <2>4. bubble \in 0 .. Len(chat) /\ short \subseteq {"answer", "file", "warning"}
    BY <1>2, <1>3
  <2> QED BY <1>1, <1>2, <1>3, <2>1, <2>2, <2>3, <2>4 DEF RenderShape, RenderTypeOK, Plain, RichTries
<1> QED BY <1>1, <1>2, <1>3, <1>4 DEF RenderInv, EditsTell, WholeTells, ExtrasTell

\* Every step of the renderer keeps what the chain and the chat tell.
LEMMA RenderStep ==
  ASSUME RenderInv, [RenderNext]_renderVars
  PROVE  RenderInv'
<1>t. /\ edits \in BOOLEAN /\ text \in 0 .. MaxPieces /\ MaxPieces \in Nat /\ MaxChars \in Nat \ {0}
      /\ preview \in 0 .. MaxChars + 1 /\ sends \in Seq(Items) /\ ticking \in BOOLEAN
  BY RenderAssumption DEF RenderInv, RenderShape, RenderTypeOK
<1>1. CASE BeginsAnew
  <2>1. RenderIdle' /\ sends' = <<Aside, Aside>>' /\ ticking' \in BOOLEAN
    BY <1>1, <1>t DEF BeginsAnew, RenderIdle, Aside, Send
  <2>2. (RenderIdle /\ sends \in {<< >>, <<Aside, Aside>>} /\ ticking \in BOOLEAN => RenderInv)'
    BY RenderBegins, PTL
  <2> QED BY <2>1, <2>2
<1>2. CASE Grows
  <2>1. ~Over /\ ~Over' /\ text' = text + 1 /\ text' \in 0 .. MaxPieces /\ fate = "open"
    BY <1>2, <1>t DEF Grows, Over
  <2>2. UNCHANGED <<edits, preview, bubble, sends, attempt, fate, fileSent, chat, short, doubtful>> /\ ticking' = TRUE
    BY <1>2 DEF Grows
  <2>3. Told' = Told /\ Warning' = Warning
    BY <2>2 DEF Told, Warning, Send
  <2>4. RenderShape'
    BY <2>1, <2>2 DEF RenderInv, RenderShape, RenderTypeOK
  <2>5. edits => EditsTell'
    BY <1>t, <2>1, <2>2, <2>3 DEF RenderInv, EditsTell
  <2>6. ~edits => WholeTells'
    BY <2>1, <2>2 DEF RenderInv, WholeTells
  <2>7. ExtrasTell'
    BY <2>1, <2>2, <2>3 DEF RenderInv, ExtrasTell
  <2> QED BY <2>2, <2>4, <2>5, <2>6, <2>7 DEF RenderInv
<1>3. CASE SendsAside
  <2>1. ~Over /\ ~Over' /\ fate = "open"
    BY <1>3 DEF SendsAside, Over
  <2>2. UNCHANGED <<edits, text, preview, bubble, attempt, ticking, fate, fileSent, chat, short, doubtful>>
        /\ sends' = sends \o <<Aside>>
    BY <1>3, <1>t DEF SendsAside
  <2>3. Told' = Told /\ Warning' = Warning /\ FirstPart' = FirstPart
    BY <2>2 DEF Told, Warning, Send, FirstPart, Long
  <2>4. /\ sends' \in Seq(Items) /\ (NoAnswer(sends) => NoAnswer(sends'))
        /\ \A v : LastAnswer(sends, v) => LastAnswer(sends', v)
        /\ \A P : (\A i \in DOMAIN sends : sends[i] \in P) /\ Aside \in P => \A i \in DOMAIN sends' : sends'[i] \in P
    <3>1. <<Aside>> \in Seq(Items) /\ NoAnswer(<<Aside>>)
          /\ \A P : Aside \in P => \A i \in DOMAIN <<Aside>> : <<Aside>>[i] \in P
      BY ShortChains, SendIsItem DEF Aside
    <3> QED BY <1>t, <2>2, <3>1, ChainGrows
  <2>5. RenderShape'
    BY <2>1, <2>2, <2>4 DEF RenderInv, RenderShape, RenderTypeOK
  <2>6. edits => EditsTell'
    BY <2>1, <2>2, <2>3, <2>4 DEF RenderInv, EditsTell
  <2>7. ~edits => WholeTells'
    BY <2>1, <2>2, <2>4 DEF RenderInv, WholeTells
  <2>8. ExtrasTell'
    <3> DEFINE P == {x \in Items : /\ x.what \notin {"caption", "file"}
                                   /\ x.what = "warning" => x = Warning}
    <3>1. \A i \in DOMAIN sends : sends[i] \in P
      <4>1. \A i \in DOMAIN sends : sends[i] \in Items
        BY <1>t
      <4> QED BY <2>1, <4>1 DEF RenderInv, ExtrasTell
    <3>2. Aside \in P
      BY SendIsItem DEF Aside
    <3>3. \A i \in DOMAIN sends' : sends'[i] \in P
      <4> HIDE DEF P
      <4> QED BY <2>4, <3>1, <3>2
    <3> QED BY <2>1, <2>2, <2>3, <3>3 DEF ExtrasTell, Over
  <2> QED BY <2>2, <2>5, <2>6, <2>7, <2>8 DEF RenderInv
<1>4. CASE Tick
  <2>1. ~Over /\ fate' = fate /\ ticking' = ticking /\ fate \in {"open", "finished", "failed", "dropped"}
    BY <1>4 DEF Tick, RenderInv, RenderShape, RenderTypeOK
  <2>2. UNCHANGED <<edits, text, bubble, attempt, chat, short, doubtful>> /\ ~Over' /\ fate' # "failed"
    BY <1>4, <2>1 DEF Tick, Over
  <2>3. PICK before \in {<< >>, <<Aside>>} : Flush(FALSE, before, << >>)
    BY <1>4 DEF Tick
  <2> QED BY <1>t, <2>1, <2>2, <2>3, FlushTells
<1>5. CASE FinishAnswer
  <2>1. /\ ~Over /\ fate' = "finished" /\ ticking' = FALSE /\ Over' /\ Flush(TRUE, << >>, <<Aside>>)
        /\ UNCHANGED <<edits, text, bubble, attempt, chat, short, doubtful>>
    BY <1>5 DEF FinishAnswer, Over
  <2> QED BY <2>1, FlushTells
<1>6. CASE FailAnswer
  <2>1. /\ ~Over /\ fate' = "failed" /\ ticking' = FALSE /\ Over' /\ Flush(TRUE, << >>, <<Warning, Aside>>)
        /\ UNCHANGED <<edits, text, bubble, attempt, chat, short, doubtful>>
    BY <1>6 DEF FailAnswer, Over
  <2> QED BY <2>1, FlushTells
<1>7. CASE DropAnswer
  <2>1. ~Over /\ ~Over' /\ fate' = "dropped"
    BY <1>7 DEF DropAnswer, Over
  <2>2. UNCHANGED <<edits, text, preview, bubble, sends, attempt, ticking, fileSent, chat, short, doubtful>>
    BY <1>7 DEF DropAnswer
  <2>3. Told' = Told /\ Warning' = Warning
    BY <2>2 DEF Told, Warning, Send
  <2>4. RenderShape'
    BY <2>1, <2>2 DEF RenderInv, RenderShape, RenderTypeOK
  <2>5. edits => EditsTell'
    BY <2>1, <2>2, <2>3 DEF RenderInv, EditsTell
  <2>6. ~edits => WholeTells'
    BY <2>1, <2>2 DEF RenderInv, WholeTells
  <2>7. ExtrasTell'
    BY <2>1, <2>2, <2>3 DEF RenderInv, ExtrasTell
  <2> QED BY <2>2, <2>4, <2>5, <2>6, <2>7 DEF RenderInv
<1>8. CASE Serve
  BY <1>8, ServeTells
<1>9. CASE UNCHANGED renderVars
  BY <1>9 DEF renderVars, RenderInv, RenderShape, RenderTypeOK, EditsTell, WholeTells, ExtrasTell,
              Over, Told, FirstPart, Long, Warning, Send, NoAnswer, LastAnswer, OneAnswer
<1> QED BY <1>1, <1>2, <1>3, <1>4, <1>5, <1>6, <1>7, <1>8, <1>9 DEF RenderNext

\* The renderer's bookkeeping holds all along.
LEMMA RenderAlways == GatewaySpec => []RenderInv
<1>1. GatewayInit => RenderInv
  <2>1. RenderInit \/ RenderOff => RenderInv
    BY RenderBegins DEF RenderInit, RenderOff
  <2> QED BY <2>1 DEF GatewayInit, ConversationsInit, InboundInit, AnswerInit, AccessInit, LoginInit
<1>2. RenderInv /\ [GatewayNext]_gatewayVars => RenderInv'
  <2>1. [GatewayNext]_gatewayVars => [RenderNext]_renderVars
    BY DEF GatewayNext, gatewayVars
  <2> QED BY <2>1, RenderStep
<1> QED BY <1>1, <1>2, PTL DEF GatewaySpec, gatewayVars

\* When a turn is over and its chain of sends is empty the timer is stopped and the
\* chat says everything: the answer in its last version and once, unless the answer
\* to a send was lost; the document of a long one; what went wrong; all but what the
\* channel gave up last (finish, fail, flush and enqueue).  That the chain runs
\* empty is what is left of AnswerArrives.
THEOREM AnswersAreTold == GatewaySpec => []ChatTells
<1>1. RenderInv => ChatTells
  <2>1. SUFFICES ASSUME RenderInv, Over, sends = << >>
                 PROVE  /\ ~ticking
                        /\ "answer" \in short \/ AnswerStands
                        /\ "file" \in short \/ DocumentStands
                        /\ "warning" \in short \/ WarningStands
    BY DEF ChatTells
  <2>2. /\ \A v : ~LastAnswer(sends, v) /\ ~OneAnswer(sends, v)
        /\ \A x : ~Contains(sends, x)
    BY <2>1 DEF LastAnswer, OneAnswer, Contains
  <2>3. "answer" \in short \/ AnswerStands
    <3>1. SUFFICES ASSUME "answer" \notin short, text > 0, edits \/ ~Long
                   PROVE  /\ IF edits THEN bubble # 0 /\ chat[bubble] = Send("answer", FirstPart)
                                      ELSE Contains(chat, Send("answer", text))
                          /\ ~doubtful => \A i, j \in Told : i = j
      BY DEF AnswerStands
    <3>2. CASE edits
      <4>1. EditsTell /\ FirstPart # 0
        BY <2>1, <3>1, <3>2, RenderAssumption DEF RenderInv, FirstPart
      <4> QED BY <2>1, <2>2, <3>1, <3>2, <4>1 DEF EditsTell
    <3>3. CASE ~edits
      <4>1. OneAnswer(chat, text)
        BY <2>1, <2>2, <3>1, <3>3 DEF RenderInv, WholeTells
      <4>2. PICK k \in DOMAIN chat : chat[k] = Send("answer", text)
                                     /\ \A j \in DOMAIN chat : chat[j].what = "answer" => j = k
        BY <4>1 DEF OneAnswer
      <4>3. Contains(chat, Send("answer", text))
        BY <2>1, <4>2 DEF Contains, RenderInv, RenderShape
      <4> QED BY <3>3, <4>2, <4>3 DEF Told
    <3> QED BY <3>2, <3>3
  <2>4. ~ticking
    BY <2>1 DEF RenderInv, RenderShape
  <2>5. "file" \in short \/ DocumentStands
    BY <2>1, <2>2 DEF RenderInv, ExtrasTell, DocumentStands
  <2>6. "warning" \in short \/ WarningStands
    BY <2>1, <2>2 DEF RenderInv, ExtrasTell, WarningStands
  <2> QED BY <2>3, <2>4, <2>5, <2>6
<1> QED BY <1>1, RenderAlways, PTL

------------------------------------------------------------------------------
\* The variables of the channels, the renderer, the accounts and the secret keep
\* their types.
THEOREM GatewayTypesCorrect ==
  GatewaySpec => [](ChannelsTypeOK /\ RenderTypeOK /\ AccountsTypeOK /\ SecretTypeOK)
<1>1. ChannelInvariant /\ RenderInv /\ CutInvariant /\ SecretInvariant
        => ChannelsTypeOK /\ RenderTypeOK /\ AccountsTypeOK /\ SecretTypeOK
  BY DEF ChannelInvariant, ChannelShape, RenderInv, RenderShape, CutInvariant, SecretInvariant
<1> QED BY <1>1, ChannelsAlways, RenderAlways, CutAlways, SecretAlways, PTL
=================================================================================
