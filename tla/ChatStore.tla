------------------------------- MODULE ChatStore -------------------------------
(***************************************************************************)
(* The desktop window's chats (apps/desktop renderer/src/store.ts): what it *)
(* shows of each session, which turn it believes runs there, and how it    *)
(* opens a chat, sends a message, and brings its view up to date after the *)
(* link to the gateway broke.  The server is reduced to the turns it runs, *)
(* whom it tells of them, and the answers it gives.                        *)
(*                                                                         *)
(* Notices come in the order the server sent them.  The answer of a request *)
(* ends in the continuation of an await, which a notice behind it may      *)
(* overtake: it is applied at any time after it was given.                 *)
(***************************************************************************)
EXTENDS Naturals, Sequences

CONSTANTS
  Chats, Turns,
  Mine,        \* turns sent from this window
  Earlier,     \* a turn that ended before the window started, by what it may follow
  Spoken,      \* earlier turns that left a text in the history
  ChatOf,      \* chat of each turn
  NoTurn, NoChat,
  Calls,       \* calls of openSession at a time, as 1..n
  MaxHurdles   \* bound: broken links and chats the user opens

ASSUME ChatAssumption ==
  /\ Mine \subseteq Turns /\ ChatOf \in [Turns -> Chats]
  /\ Earlier \in [BOOLEAN -> Turns] /\ Spoken \subseteq Turns
  /\ NoTurn \notin Turns /\ NoChat \notin Chats
  /\ MaxHurdles \in Nat

VARIABLES
  (* the server *)
  trusted,    \* may this window follow all sessions
  subs,       \* chats and turns its connection subscribed to
  line,       \* turn queue of each session; its head drives
  turnAt,     \* of each turn: none, queued, driving, over
  said,       \* turns that have streamed their text
  active,     \* turn of each session, as session/list shows it
  aborted,
  (* the socket *)
  up,
  wire,       \* notices under way
  (* the window *)
  current,    \* the open chat
  runIds,     \* the turn believed to run in each chat
  grace,      \* chats with a turn/start less than 15 s ago
  trace,      \* of each chat: its status, the turns whose text it shows
  send,       \* the message being sent
  load,       \* the session list being fetched
  opening,    \* calls of openSession
  (* history *)
  orphaned,   \* own turns whose start was answered on a broken link
  lapsed,     \* turns whose end the window has no way to learn
  hurdles

serverVars == <<trusted, subs, line, turnAt, said, active, aborted>>
storeVars == <<serverVars, up, wire, current, runIds, grace, trace, send, load, opening,
               orphaned, lapsed, hurdles>>

NoCall == [at |-> "none", chat |-> NoChat, again |-> FALSE, read |-> {}, before |-> {}]
NoLoad == [at |-> "none", runs |-> [c \in Chats |-> NoTurn]]
NoSend == [at |-> "none", turn |-> NoTurn]

StoreInit ==
  /\ trusted \in BOOLEAN /\ subs = {}
  /\ line = [c \in Chats |-> <<>>]
  /\ turnAt = [t \in Turns |-> IF t = Earlier[trusted] THEN "over" ELSE "none"]
  /\ said = Spoken \cap {Earlier[trusted]}
  /\ active = [c \in Chats |-> NoTurn]
  /\ aborted = {}
  /\ up \in BOOLEAN /\ wire = <<>>
  /\ current = NoChat /\ runIds = [c \in Chats |-> NoTurn] /\ grace = {}
  /\ trace = [c \in Chats |-> [status |-> "absent", shown |-> {}]]
  /\ send = NoSend /\ load = NoLoad /\ opening = [o \in Calls |-> NoCall]
  /\ orphaned = {} /\ lapsed = {} /\ hurdles = 0

\* What disables the composer (Chat.tsx).
Running(c) == runIds[c] # NoTurn \/ trace[c].status = "running"

-----------------------------------------------------------------------------
(* The server                                                              *)

Hears(t) == up /\ (trusted \/ {t, ChatOf[t]} \cap subs # {})
Tell(t, kind) ==
  wire' = IF Hears(t) THEN Append(wire, [kind |-> kind, turn |-> t]) ELSE wire

\* A turn is sent: by this window, or by another client, a channel, a schedule.
Enter(t) ==
  /\ turnAt' = [turnAt EXCEPT ![t] = "queued"]
  /\ line' = [line EXCEPT ![ChatOf[t]] = Append(@, t)]
  /\ active' = [active EXCEPT ![ChatOf[t]] = t]

OthersSend(t) ==
  /\ t \notin Mine /\ turnAt[t] = "none"
  /\ Enter(t)
  /\ UNCHANGED <<trusted, subs, said, aborted, up, wire, current, runIds, grace, trace,
                 send, load, opening, orphaned, lapsed, hurdles>>

ServerOnly == UNCHANGED <<trusted, subs, up, current, runIds, grace, trace,
                          send, load, opening, orphaned, hurdles>>

\* A turn that was aborted in the queue ends without an event.
Begin(t) ==
  /\ turnAt[t] = "queued" /\ Head(line[ChatOf[t]]) = t
  /\ IF t \in aborted
     THEN /\ turnAt' = [turnAt EXCEPT ![t] = "over"]
          /\ line' = [line EXCEPT ![ChatOf[t]] = Tail(@)]
          /\ aborted' = aborted \ {t} /\ lapsed' = lapsed \cup {t}
     ELSE turnAt' = [turnAt EXCEPT ![t] = "driving"] /\ UNCHANGED <<line, aborted, lapsed>>
  /\ UNCHANGED <<said, active, wire>> /\ ServerOnly

Stream(t) ==
  /\ turnAt[t] = "driving" /\ t \notin said
  /\ said' = said \cup {t} /\ Tell(t, "text")
  /\ UNCHANGED <<line, turnAt, active, aborted, lapsed>> /\ ServerOnly

\* run-finish: the session's turn is cleared if it is this one.
Finish(t) ==
  /\ turnAt[t] = "driving"
  /\ turnAt' = [turnAt EXCEPT ![t] = "over"]
  /\ line' = [line EXCEPT ![ChatOf[t]] = Tail(@)]
  /\ active' = [active EXCEPT ![ChatOf[t]] = IF @ = t THEN NoTurn ELSE @]
  /\ Tell(t, "done")
  /\ lapsed' = IF up /\ ~Hears(t) THEN lapsed \cup {t} ELSE lapsed
  /\ UNCHANGED <<said, aborted>> /\ ServerOnly

\* The requests of the window.  What a connection that hears all subscribes to besides
\* is not kept.
Subscribe(scope) == subs' = IF trusted THEN subs ELSE subs \cup {scope}

Subscribes(o) ==
  /\ up /\ opening[o].at = "subscribing"
  /\ Subscribe(opening[o].chat)
  /\ opening' = [opening EXCEPT ![o].at = "subscribed"]
  /\ UNCHANGED <<trusted, line, turnAt, said, active, aborted, up, wire, current, runIds,
                 grace, trace, send, load, orphaned, lapsed, hurdles>>

\* session/history: a turn's text is in it once the turn is over.
HistoryRead(o) ==
  /\ up /\ opening[o].at = "reading"
  /\ opening' = [opening EXCEPT ![o].at = "read", ![o].read =
       {t \in said : ChatOf[t] = opening[o].chat /\ turnAt[t] = "over"}]
  /\ UNCHANGED <<serverVars, up, wire, current, runIds, grace, trace, send, load, orphaned,
                 lapsed, hurdles>>

SessionsListed ==
  /\ up /\ load.at = "asking"
  /\ load' = [at |-> "answered", runs |-> active]
  /\ UNCHANGED <<serverVars, up, wire, current, runIds, grace, trace, send, opening, orphaned,
                 lapsed, hurdles>>

TurnStarts ==
  /\ up /\ send.at = "asking"
  /\ Enter(send.turn) /\ Subscribe(send.turn)
  /\ send' = [send EXCEPT !.at = "answered"]
  /\ UNCHANGED <<trusted, said, aborted, up, wire, current, runIds, grace, trace, load,
                 opening, orphaned, lapsed, hurdles>>

-----------------------------------------------------------------------------
(* The link                                                                *)

\* Requests in flight are rejected, notices under way are lost; a failed list is
\* dropped, a failed subscribe or history read is passed over.
Drop ==
  /\ up /\ hurdles < MaxHurdles
  /\ up' = FALSE /\ wire' = <<>> /\ subs' = {}
  /\ send' = IF send.at \in {"asking", "answered"} THEN [send EXCEPT !.at = "failed"] ELSE send
  /\ orphaned' = IF send.at = "answered" THEN orphaned \cup {send.turn} ELSE orphaned
  /\ load' = NoLoad
  /\ opening' = [o \in Calls |->
       CASE opening[o].at = "subscribing" -> [opening[o] EXCEPT !.at = "subscribed"]
         [] opening[o].at \in {"reading", "read"} -> [opening[o] EXCEPT !.at = "failed"]
         [] OTHER -> opening[o]]
  /\ hurdles' = hurdles + 1
  /\ UNCHANGED <<trusted, line, turnAt, said, active, aborted, current, runIds, grace, trace,
                 lapsed>>

\* The window is told "connected": onProfileConnected asks for the session list.  Of
\* the chats with an earlier turn/start, STARTING_TURN_GRACE_MS have passed for some;
\* no list takes that long, so a later one outlives it.
Connected ==
  /\ ~up /\ load.at = "none"
  /\ up' = TRUE /\ load' = [NoLoad EXCEPT !.at = "asking"]
  /\ grace' \in {g \in SUBSET grace : send.turn # NoTurn => ChatOf[send.turn] \in g}
  /\ UNCHANGED <<serverVars, wire, current, runIds, trace, send, opening, orphaned,
                 lapsed, hurdles>>

-----------------------------------------------------------------------------
(* Notices                                                                 *)

WindowOnly == UNCHANGED <<serverVars, up, wire, orphaned>>

\* handleNotification: text of any turn marks its chat running.
TextArrives(t) ==
  /\ trace' = [trace EXCEPT ![ChatOf[t]] = [status |-> "running", shown |-> @.shown \cup {t}]]
  /\ UNCHANGED <<runIds, lapsed>>

\* The end of a turn clears the chat's run if it is that turn.  Where it overtakes the
\* answer that names the turn, it comes to nothing.
EndArrives(t) ==
  /\ trace' = [trace EXCEPT ![ChatOf[t]].status = "quiet"]
  /\ runIds' = [runIds EXCEPT ![ChatOf[t]] = IF @ = t THEN NoTurn ELSE @]
  /\ lapsed' = IF t \in {send.turn, load.runs[ChatOf[t]]} THEN lapsed \cup {t} ELSE lapsed

Receive ==
  /\ wire # <<>> /\ wire' = Tail(wire)
  /\ LET m == Head(wire)
     IN  \/ m.kind = "text" /\ TextArrives(m.turn)
         \/ m.kind = "done" /\ EndArrives(m.turn)
  /\ UNCHANGED <<serverVars, up, current, grace, send, load, opening, orphaned, hurdles>>

-----------------------------------------------------------------------------
(* openSession                                                             *)

\* The call's first await; without a link it fails at once.
Call(c, again) ==
  [NoCall EXCEPT !.at = IF up THEN "subscribing" ELSE "subscribed", !.chat = c, !.again = again]

\* The next call takes the first place that is free.
Free(o) == opening[o] = NoCall /\ \A p \in Calls : opening[p] = NoCall => o <= p

\* The user opens another chat.
Open(o, c) ==
  /\ c # current /\ Free(o) /\ hurdles < MaxHurdles
  /\ current' = c /\ opening' = [opening EXCEPT ![o] = Call(c, FALSE)]
  /\ hurdles' = hurdles + 1
  /\ WindowOnly /\ UNCHANGED <<runIds, grace, trace, send, load, lapsed>>

\* The end of a call; the one made by the first list is followed by another.
Return(o) ==
  opening' = [opening EXCEPT ![o] = IF @.again THEN Call(current, FALSE) ELSE NoCall]

\* A bug to tell apart: the history is always taken over the trace.
FollowAlways(o) ==
  LET c == opening[o].chat
  IN  /\ opening[o].at = "subscribed"
      /\ opening' = [opening EXCEPT ![o].at = IF up THEN "reading" ELSE "failed",
                                    ![o].before = trace[c].shown]
      /\ WindowOnly /\ UNCHANGED <<current, runIds, grace, trace, send, load, lapsed, hurdles>>

\* A chat that is seen running keeps the trace it has; else the history is asked for.
Follow(o) ==
  LET c == opening[o].chat
  IN  /\ opening[o].at = "subscribed"
      /\ IF trace[c].status # "absent" /\ Running(c) THEN Return(o)
         ELSE opening' = [opening EXCEPT ![o].at = IF up THEN "reading" ELSE "failed",
                                         ![o].before = trace[c].shown]
      /\ WindowOnly /\ UNCHANGED <<current, runIds, grace, trace, send, load, lapsed, hurdles>>

\* The history replaces the trace, unless the user has moved on.
Rebuild(o) ==
  LET c == opening[o].chat
      quiet(shown) == [status |-> "quiet", shown |-> shown]
  IN  /\ opening[o].at \in {"read", "failed"}
      /\ trace' = IF current # c THEN trace
                  ELSE IF opening[o].at = "read"
                  THEN [trace EXCEPT ![c] = quiet(opening[o].read)]
                  ELSE [trace EXCEPT ![c] = IF @.status = "absent" THEN quiet({}) ELSE @]
      /\ Return(o)
      /\ WindowOnly /\ UNCHANGED <<current, runIds, grace, send, load, lapsed, hurdles>>

-----------------------------------------------------------------------------
(* loadSessionsFor                                                         *)

\* A bug to tell apart: the list decides for every chat.
ReconciledAll == [c \in Chats |-> load.runs[c]]

\* A bug to tell apart: the list only adds runs.
ReconciledUp == [c \in Chats |-> IF load.runs[c] = NoTurn THEN runIds[c] ELSE load.runs[c]]

\* The list decides which turn runs, but where one was started a moment ago.
Reconciled == [c \in Chats |-> IF c \in grace THEN runIds[c] ELSE load.runs[c]]

\* The list is applied, and the open chat opened again; a fresh window opens the
\* newest chat first.
Loaded(o) ==
  /\ load.at = "answered" /\ Free(o)
  /\ load' = NoLoad /\ runIds' = Reconciled
  /\ IF current # NoChat
     THEN opening' = [opening EXCEPT ![o] = Call(current, FALSE)] /\ UNCHANGED current
     ELSE \E c \in Chats : /\ current' = c
                           /\ opening' = [opening EXCEPT ![o] = Call(c, TRUE)]
  /\ lapsed' = lapsed \cup {t \in Turns : /\ ChatOf[t] \in grace /\ runIds[ChatOf[t]] = t
                                         /\ load.runs[ChatOf[t]] # t}
  /\ WindowOnly /\ UNCHANGED <<grace, trace, send, hurdles>>

-----------------------------------------------------------------------------
(* sendMessage, interrupt                                                  *)

\* The server mints the id: which of the unsent turns it is makes no difference.
Minted(c) == CHOOSE t \in Mine : ChatOf[t] = c /\ turnAt[t] = "none"

\* The composer submits: the user's text is shown and turn/start is asked.  An upload
\* before it that fails leaves no trace.
Submit(t) ==
  LET c == ChatOf[t]
  IN  /\ t \in Mine /\ turnAt[t] = "none" /\ t = Minted(c)
      /\ send.at = "none" /\ up /\ current = c /\ ~Running(c)
      /\ send' = [at |-> "asking", turn |-> t]
      /\ trace' = [trace EXCEPT ![c].status = IF @ = "absent" THEN "quiet" ELSE @]
      /\ grace' = grace \cup {c}
      /\ WindowOnly /\ UNCHANGED <<current, runIds, load, opening, lapsed, hurdles>>

Started ==
  /\ send.at = "answered"
  /\ runIds' = [runIds EXCEPT ![ChatOf[send.turn]] = send.turn]
  /\ send' = NoSend
  /\ WindowOnly /\ UNCHANGED <<current, grace, trace, load, opening, lapsed, hurdles>>

StartFailed ==
  /\ send.at = "failed"
  /\ grace' = grace \ {ChatOf[send.turn]} /\ send' = NoSend
  /\ WindowOnly /\ UNCHANGED <<current, runIds, trace, load, opening, lapsed, hurdles>>

\* interrupt: the host aborts the run the window shows.  A turn that drives ends by
\* Finish either way.
Interrupt ==
  /\ up /\ current # NoChat
  /\ runIds[current] # NoTurn /\ turnAt[runIds[current]] = "queued"
  /\ aborted' = aborted \cup {runIds[current]}
  /\ UNCHANGED <<trusted, subs, line, turnAt, said, active, up, wire, current, runIds, grace,
                 trace, send, load, opening, orphaned, lapsed, hurdles>>

-----------------------------------------------------------------------------
UserStep ==
  \/ \E o \in Calls, c \in Chats : Open(o, c)
  \/ \E t \in Turns : Submit(t)
  \/ Interrupt

ServerStep ==
  \/ \E t \in Turns : OthersSend(t) \/ Begin(t) \/ Stream(t) \/ Finish(t)

\* What answers, arrives or continues by itself.
Progress ==
  \/ \E o \in Calls : Subscribes(o) \/ HistoryRead(o) \/ Follow(o) \/ Rebuild(o) \/ Loaded(o)
  \/ SessionsListed \/ TurnStarts \/ Connected \/ Receive
  \/ Started \/ StartFailed

StoreNext == UserStep \/ ServerStep \/ Progress \/ Drop

StoreSpec == StoreInit /\ [][StoreNext]_storeVars /\ WF_storeVars(Progress)

-----------------------------------------------------------------------------
(* Properties *)

\* Switching away and back, or reconnecting, never takes a running turn's text off
\* the screen: only a history read begun before that text was there may.
TurnStaysOnScreen ==
  [][\A t \in Turns :
       (/\ t \in trace[ChatOf[t]].shown /\ turnAt[t] # "over"
        /\ t \notin trace'[ChatOf[t]].shown)
       => \E o \in Calls : /\ opening[o].at = "read" /\ opening'[o].at # "read"
                           /\ t \notin opening[o].before]_storeVars

\* The window never has two turns of its own in one chat's queue, whatever list,
\* notice or reconnect comes between; only a start whose answer was lost is unknown
\* to it.
OwnTurnsInSingleFile ==
  \A t, u \in Mine \ orphaned :
    t # u /\ ChatOf[t] = ChatOf[u] => ~({turnAt[t], turnAt[u]} \subseteq {"queued", "driving"})

\* A turn that has ended does not stay marked as running, also when its end was
\* missed with the link: the next list clears it.
RunIdsClear ==
  \A c \in Chats : []<>(\A t \in Turns :
    turnAt[t] = "over" /\ runIds[c] = t => t \in lapsed)
=============================================================================
