------------------------------- MODULE Channels -------------------------------
(***************************************************************************)
(* Inbound messages of a chat channel (apps/gateway runtime/gateway.ts,    *)
(* channels/telegram.ts, channels/weixin.ts): the adapter's poll loop, the *)
(* pauses and resumes of /platform, the circuit breaker, and a crash of    *)
(* the gateway.  Telegram forgets what an offset passes over; WeChat keeps *)
(* its history and the gateway keeps a cursor on disk.  A message has text *)
(* or media to download; an update that has neither is none.               *)
(***************************************************************************)
EXTENDS Naturals, FiniteSetsExt

CONSTANTS
  Loops,          \* poll loops at a time
  FailThreshold,
  Bare,           \* messages that consist of media alone, without text or caption
  MaxMessages, MaxPauses, MaxCrashes   \* bounds: messages, pauses, crashes

ASSUME ChannelsAssumption ==
  /\ IsFiniteSet(Loops) /\ FailThreshold \in Nat \ {0}
  /\ MaxMessages \in Nat /\ MaxPauses \in Nat /\ MaxCrashes \in Nat
  /\ Bare \subseteq 1..MaxMessages

VARIABLES
  kind,       \* telegram or weixin
  posted,     \* messages users have sent: 1..posted
  forgotten,  \* the platform has forgotten 1..forgotten
  mark,       \* messages passed over: telegram's offset - 1, WeChat's cursor
  state,      \* of the channel record: running, paused, error
  failures,
  running,    \* the adapter's flag
  loop,       \* of each poll loop: where it is, its request, its batch
  seen,       \* WeChat's duplicate window
  handed,     \* how often each message was handed to the dispatcher
  lost,       \* messages dropped because nothing was left of them to hand on
  crossed,    \* history: two loops have polled at once
  torn,       \* history: a crash has torn the cursor's file
  pauses, crashes

channelVars == <<kind, posted, forgotten, mark, state, failures, running, loop, seen, handed,
                 lost, crossed, torn, pauses, crashes>>

Inbound == 1..MaxMessages
NoLoop == [at |-> "none", next |-> 0, last |-> 0]
AtTop == [NoLoop EXCEPT !.at = "top"]
LiveLoops == {l \in Loops : loop[l].at # "none"}
Telegram == kind = "telegram"

\* The channel before it is started, and started.
ChannelsIdle ==
  /\ kind \in {"telegram", "weixin"}
  /\ posted = 0 /\ forgotten = 0 /\ mark = 0
  /\ state = "running" /\ failures = 0
  /\ seen = {} /\ handed = [m \in Inbound |-> 0] /\ lost = {}
  /\ crossed = FALSE /\ torn = FALSE /\ pauses = 0 /\ crashes = 0

ChannelsInit ==
  /\ ChannelsIdle /\ running = TRUE
  /\ \E l \in Loops : loop = [k \in Loops |-> IF k = l THEN AtTop ELSE NoLoop]

-----------------------------------------------------------------------------
(* poll                                                                    *)

Post ==
  /\ posted < MaxMessages /\ posted' = posted + 1
  /\ UNCHANGED <<kind, forgotten, mark, state, failures, running, loop, seen, handed, lost,
                 crossed, torn, pauses, crashes>>

Elsewhere == UNCHANGED <<kind, posted, lost, torn, pauses, crashes>>

\* The loop's condition: stop, or ask for what is past the mark.  Telegram forgets
\* what the offset passes over.
Ask(l) ==
  /\ loop[l].at = "top"
  /\ loop' = [loop EXCEPT ![l] = IF running THEN [at |-> "asking", next |-> mark + 1, last |-> 0]
                                 ELSE NoLoop]
  /\ forgotten' = IF running /\ Telegram THEN Max({forgotten, mark}) ELSE forgotten
  /\ UNCHANGED <<mark, state, failures, running, seen, handed, crossed>> /\ Elsewhere

\* getUpdates is answered with all that is past the mark, also with nothing.
Answer(l) ==
  /\ loop[l].at = "asking"
  /\ loop' = [loop EXCEPT ![l].at = "answered", ![l].last = posted,
                          ![l].next = IF Telegram THEN Max({@, forgotten + 1}) ELSE @]
  /\ UNCHANGED <<forgotten, mark, state, failures, running, seen, handed, crossed>> /\ Elsewhere

\* The answer arrives: WeChat's cursor is saved before the batch is looked at.
Arrive(l) ==
  /\ loop[l].at = "answered"
  /\ loop' = [loop EXCEPT ![l].at = "batch"]
  /\ mark' = IF Telegram THEN mark ELSE loop[l].last
  /\ UNCHANGED <<forgotten, state, failures, running, seen, handed, crossed>> /\ Elsewhere

\* Only WeChat keeps the messages it has seen, for longer than a replay takes.
Duplicate(m) == ~Telegram /\ m \in seen

\* The next message of the batch: telegram's offset moves past it, WeChat's is looked
\* up among those seen; then its media are fetched.
Take(l) ==
  LET m == loop[l].next
  IN  /\ loop[l].at = "batch" /\ m <= loop[l].last
      /\ mark' = IF Telegram THEN Max({mark, m}) ELSE mark
      /\ seen' = IF Telegram THEN seen ELSE seen \cup {m}
      /\ loop' = IF Duplicate(m) THEN [loop EXCEPT ![l].next = m + 1]
                 ELSE [loop EXCEPT ![l].at = "fetching"]
      /\ UNCHANGED <<forgotten, state, failures, running, handed, crossed>> /\ Elsewhere

\* channelError: what fails while the channel runs is counted, and at the threshold
\* the breaker stops the adapter.
Counted ==
  LET trips == failures + 1 >= FailThreshold
  IN  IF state = "running"
      THEN /\ failures' = failures + 1
           /\ state' = (IF trips THEN "error" ELSE state)
           /\ running' = (IF trips THEN FALSE ELSE running)
      ELSE UNCHANGED <<failures, state, running>>

\* A download that fails is reported, unless Telegram names no file (one too large).
FetchFailed == Counted \/ (Telegram /\ UNCHANGED <<failures, state, running>>)

\* What Telegram brings without text is nothing without its media; WeChat's is handed
\* on whatever is left of it.
NothingLeft(m) == Telegram /\ m \in Bare

\* A download fails, and the message goes on without it.
FetchFails(l) ==
  /\ loop[l].at = "fetching" /\ ~NothingLeft(loop[l].next)
  /\ loop' = [loop EXCEPT ![l].at = "fetched"]
  /\ FetchFailed
  /\ UNCHANGED <<forgotten, mark, seen, handed, crossed>> /\ Elsewhere

\* A download fails, nothing is left to hand on, and the loop takes the next message.
Drop(l) ==
  LET m == loop[l].next
  IN  /\ loop[l].at = "fetching" /\ NothingLeft(m)
      /\ loop' = [loop EXCEPT ![l].at = "batch", ![l].next = m + 1]
      /\ lost' = lost \cup {m} /\ FetchFailed
      /\ UNCHANGED <<kind, posted, forgotten, mark, seen, handed, crossed, torn, pauses, crashes>>

\* A bug to tell apart: a stopped loop gives up its batch where it stands.
HandWhileRunning(l) ==
  LET m == loop[l].next
  IN  /\ loop[l].at \in {"fetching", "fetched"}
      /\ handed' = IF running THEN [handed EXCEPT ![m] = @ + 1] ELSE handed
      /\ failures' = 0
      /\ loop' = IF running THEN [loop EXCEPT ![l].at = "batch", ![l].next = m + 1]
                 ELSE [loop EXCEPT ![l] = AtTop]
      /\ UNCHANGED <<forgotten, mark, state, running, seen, crossed>> /\ Elsewhere

\* onInbound: a message handed on clears the breaker's count.
Hand(l) ==
  LET m == loop[l].next
  IN  /\ loop[l].at \in {"fetching", "fetched"}
      /\ handed' = [handed EXCEPT ![m] = @ + 1] /\ failures' = 0
      /\ loop' = [loop EXCEPT ![l].at = "batch", ![l].next = m + 1]
      /\ UNCHANGED <<forgotten, mark, state, running, seen, crossed>> /\ Elsewhere

BatchDone(l) ==
  /\ loop[l].at = "batch" /\ loop[l].next > loop[l].last
  /\ loop' = [loop EXCEPT ![l] = AtTop]
  /\ UNCHANGED <<forgotten, mark, state, failures, running, seen, handed, crossed>> /\ Elsewhere

\* A bug to tell apart: a failing poll is retried and reported to nobody.
PollFailsOpen(l) ==
  /\ loop[l].at = "asking"
  /\ loop' = [loop EXCEPT ![l] = IF running THEN AtTop ELSE NoLoop]
  /\ UNCHANGED <<forgotten, mark, state, failures, running, seen, handed, crossed>> /\ Elsewhere

\* The poll fails: a stopped loop ends; else it is reported, and tried again.
PollFails(l) ==
  /\ loop[l].at = "asking"
  /\ loop' = [loop EXCEPT ![l] = IF running THEN AtTop ELSE NoLoop]
  /\ IF running THEN Counted ELSE UNCHANGED <<failures, state, running>>
  /\ UNCHANGED <<forgotten, mark, seen, handed, crossed>> /\ Elsewhere

-----------------------------------------------------------------------------
(* /platform, and the end of the process                                   *)

\* stop() lowers the flag at once; that the loop ends is awaited by nobody.
Pause ==
  /\ state # "paused" /\ pauses < MaxPauses
  /\ state' = "paused" /\ running' = FALSE /\ pauses' = pauses + 1
  /\ UNCHANGED <<kind, posted, forgotten, mark, failures, loop, seen, handed, lost, crossed,
                 torn, crashes>>

\* start(): unless the adapter runs, a new loop; one still waiting for its last poll
\* finds the flag up again and goes on beside it.
Resume ==
  /\ state # "running"
  /\ state' = "running" /\ failures' = 0 /\ running' = TRUE
  /\ IF running THEN UNCHANGED <<loop, crossed>>
     ELSE \E l \in Loops \ LiveLoops :
            loop' = [loop EXCEPT ![l] = AtTop] /\ crossed' = (crossed \/ LiveLoops # {})
  /\ UNCHANGED <<kind, posted, forgotten, mark, seen, handed, lost, torn, pauses, crashes>>

\* The gateway dies and is started again.  What was in memory is gone; the offset is
\* not kept, the cursor is, unless the crash came in the middle of its write.
Restart ==
  /\ crashes < MaxCrashes /\ crashes' = crashes + 1
  /\ state' = "running" /\ failures' = 0 /\ running' = TRUE /\ seen' = {}
  /\ \E l \in Loops : loop' = [k \in Loops |-> IF k = l THEN AtTop ELSE NoLoop]
  /\ \/ mark' = (IF Telegram THEN 0 ELSE mark) /\ UNCHANGED torn
     \/ /\ ~Telegram /\ \E l \in Loops : loop[l].at = "answered" /\ loop[l].last # mark
        /\ mark' = 0 /\ torn' = TRUE
  /\ UNCHANGED <<kind, posted, forgotten, handed, lost, crossed, pauses>>

-----------------------------------------------------------------------------
Polls(l) ==
  \/ Ask(l) \/ Answer(l) \/ Arrive(l) \/ Take(l) \/ FetchFails(l) \/ Drop(l) \/ Hand(l)
  \/ BatchDone(l) \/ PollFails(l)

ChannelsNext == Post \/ Pause \/ Resume \/ Restart \/ \E l \in Loops : Polls(l)

\* A loop goes on; whether a poll fails or answers is the network's choice.
ChannelsFairness == \A l \in Loops : WF_channelVars(Polls(l))

ChannelsSpec == ChannelsInit /\ [][ChannelsNext]_channelVars /\ ChannelsFairness

-----------------------------------------------------------------------------
(* Properties *)

\* Type correctness of the channel.
ChannelsTypeOK ==
  /\ kind \in {"telegram", "weixin"} /\ posted \in 0..MaxMessages
  /\ forgotten \in 0..posted /\ mark \in 0..posted
  /\ state \in {"running", "paused", "error"} /\ failures \in 0..FailThreshold
  /\ {running, crossed, torn} \subseteq BOOLEAN
  /\ \A l \in Loops : loop[l].at \in {"none", "top", "asking", "answered", "batch", "fetching", "fetched"}
  /\ seen \subseteq Inbound /\ handed \in [Inbound -> Nat] /\ lost \subseteq Inbound

\* As long as one loop polls at a time, and through any crash, pause and trip of the
\* breaker: Telegram forgets no message that was not handed on, and WeChat's are
\* handed on at most once ("a crash mid-batch never replays", weixin.ts:94).  What is
\* dropped is media without text from Telegram, by a download that failed: there the
\* code breaks its own "never aborts the whole message" (telegram.ts:237).
InboundKept ==
  /\ ~crossed =>
       /\ Telegram => \A m \in 1..forgotten : handed[m] > 0 \/ m \in lost
       /\ ~Telegram /\ ~torn => \A m \in Inbound : handed[m] <= 1
  /\ \A m \in lost : NothingLeft(m)

\* A message reaches the dispatcher, or the channel is paused or tripped: neither
\* failing polls nor pauses and resumes in quick succession leave a channel deaf that
\* calls itself running.  A crash may lose WeChat's, and what crossed loops passed over;
\* of Telegram's, media without text whose download fails does not arrive.
InboundArrives ==
  \A m \in Inbound :
    posted >= m ~> \/ handed[m] > 0 \/ state # "running"
                   \/ crashes > 0 /\ (crossed \/ ~Telegram)
                   \/ m \in lost
=============================================================================
