------------------------------ MODULE ChatRender ------------------------------
(***************************************************************************)
(* How a turn's answer gets into a chat (apps/gateway                      *)
(* render/chat-render.ts, and the sending half of channels/telegram.ts and *)
(* channels/weixin.ts): one renderer per turn, whose sends go out one      *)
(* after the other.  A channel that edits (Telegram) shows the answer as   *)
(* it grows, in one message, and adds a document when it is long; one that *)
(* does not (WeChat) gets it at the end.                                   *)
(*                                                                         *)
(* A text is the number of pieces that have arrived.  A message of the     *)
(* answer says which version of it stands there.                           *)
(***************************************************************************)
EXTENDS Integers, Sequences, SequencesExt

CONSTANTS
  MaxChars,            \* pieces that fit into one message
  MaxPieces, MaxSends  \* bounds: pieces of an answer, sends that wait

ASSUME RenderAssumption == MaxChars \in Nat \ {0} /\ MaxPieces \in Nat /\ MaxSends \in Nat

VARIABLES
  edits,     \* the channel can edit; never changes
  text,      \* the buffer
  preview,   \* lastChunks[0]: the version sent last, 0 for none
  bubble,    \* sent[0]: the message edited, 0 for none
  sends,     \* the promise chain: what is still to be sent
  attempt,   \* of the first of them: requests in rich text so far, or plain
  ticking,   \* the throttle timer is set
  fate,      \* of the turn: open, finished, failed, dropped by a reset
  fileSent,
  chat,      \* what of this turn stands in the chat
  short,     \* history: what was last given up, and has not been delivered since
  doubtful   \* history: a new message arrived whose answer was lost

renderVars == <<edits, text, preview, bubble, sends, attempt, ticking, fate, fileSent, chat,
                short, doubtful>>

\* Rich text is tried three times, then once as plain text.
RichTries == 3
Plain == RichTries

Send(what, version) == [what |-> what, version |-> version]
Aside == Send("aside", 0)   \* typing, a draft of the status, a notice, an artifact
Warning == Send("warning", 0)
Long == text > MaxChars

\* The first message of the answer: all of it, or as soon as it is long its first part.
FirstPart == IF Long THEN MaxChars + 1 ELSE text

\* No renderer yet; and one made and started: typing, and the status.
RenderIdle ==
  /\ edits \in BOOLEAN /\ text = 0 /\ preview = 0 /\ bubble = 0 /\ attempt = 0
  /\ fate = "open" /\ fileSent = FALSE /\ chat = <<>> /\ short = {} /\ doubtful = FALSE

RenderInit == RenderIdle /\ sends = <<Aside, Aside>> /\ ticking = TRUE
RenderOff == RenderIdle /\ ~edits /\ sends = <<>> /\ ticking = FALSE

\* The next turn's renderer, when the last words of this one are out (finishTurn).
BeginsAnew ==
  /\ fate \in {"finished", "failed"} /\ sends = <<>>
  /\ text' = 0 /\ preview' = 0 /\ bubble' = 0
  /\ sends' = <<Aside, Aside>> /\ attempt' = 0
  /\ ticking' = TRUE /\ fate' = "open" /\ fileSent' = FALSE
  /\ chat' = <<>> /\ short' = {} /\ doubtful' = FALSE
  /\ UNCHANGED edits

-----------------------------------------------------------------------------
(* The renderer *)

\* appendText
Grows ==
  /\ fate = "open" /\ text < MaxPieces
  /\ text' = text + 1 /\ ticking' = TRUE
  /\ UNCHANGED <<edits, preview, bubble, sends, attempt, fate, fileSent, chat, short, doubtful>>

\* note, deliver and setStatus
SendsAside ==
  /\ fate = "open" /\ Len(sends) < MaxSends
  /\ sends' = Append(sends, Aside)
  /\ UNCHANGED <<edits, text, preview, bubble, attempt, ticking, fate, fileSent, chat, short, doubtful>>

\* What a flush adds: the grown first message, and in the end the document of a long
\* answer; without edits, the whole answer in the end.
Document == IF Long /\ ~fileSent THEN <<Send("file", text)>> ELSE <<>>
NewPreview == IF preview # FirstPart THEN <<Send("answer", FirstPart)>> ELSE <<>>
WholeAnswer == IF Long THEN Document ELSE <<Send("answer", text)>>

FlushAdds(final) ==
  IF text = 0 THEN <<>>
  ELSE IF edits THEN NewPreview \o (IF final THEN Document ELSE <<>>)
  ELSE IF final THEN WholeAnswer ELSE <<>>

\* A bug to tell apart: what grew since the last tick is not sent in the end.
FlushStale(final, before, after) ==
  /\ sends' = sends \o before
              \o (IF final /\ edits /\ preview # 0 THEN Document ELSE FlushAdds(final)) \o after
  /\ preview' = IF edits THEN FirstPart ELSE preview
  /\ fileSent' = (fileSent \/ (final /\ Long))

Flush(final, before, after) ==
  /\ sends' = sends \o before \o FlushAdds(final) \o after
  /\ preview' = IF edits THEN FirstPart ELSE preview
  /\ fileSent' = (fileSent \/ (final /\ Long))

\* The timer: typing and the status may be due again, what has grown is sent, and
\* the timer is set again.  A reset does not stop it.
Tick ==
  /\ ticking
  /\ \/ Flush(FALSE, <<>>, <<>>)
     \/ Len(sends) < MaxSends /\ Flush(FALSE, <<Aside>>, <<>>)
  /\ UNCHANGED <<edits, text, bubble, attempt, ticking, fate, chat, short, doubtful>>

\* finish: the last flush, and typing is over.
FinishAnswer ==
  /\ fate = "open" /\ fate' = "finished" /\ ticking' = FALSE
  /\ Flush(TRUE, <<>>, <<Aside>>)
  /\ UNCHANGED <<edits, text, bubble, attempt, chat, short, doubtful>>

\* fail: the same, and what went wrong.
FailAnswer ==
  /\ fate = "open" /\ fate' = "failed" /\ ticking' = FALSE
  /\ Flush(TRUE, <<>>, <<Warning, Aside>>)
  /\ UNCHANGED <<edits, text, bubble, attempt, chat, short, doubtful>>

\* /new in the middle of a turn: the conversation forgets the renderer.
DropAnswer ==
  /\ fate = "open" /\ fate' = "dropped"
  /\ UNCHANGED <<edits, text, preview, bubble, sends, attempt, ticking, fileSent, chat, short, doubtful>>

-----------------------------------------------------------------------------
(* The chain and the channel *)

First == Head(sends)
Stands == First.what # "aside"
\* An edit: the answer's message is known.
IsEdit == First.what = "answer" /\ bubble # 0
\* WeChat has no documents: only the caption of one is sent.
Shown == IF First.what = "file" /\ ~edits THEN Send("caption", 0) ELSE First
ChatWithFirst ==
  IF ~Stands THEN chat
  ELSE IF IsEdit THEN [chat EXCEPT ![bubble] = Shown] ELSE Append(chat, Shown)

SendIsOver == sends' = Tail(sends) /\ attempt' = 0

\* The request arrives and is answered.
Delivered ==
  /\ sends # <<>> /\ SendIsOver
  /\ chat' = ChatWithFirst
  /\ bubble' = IF edits /\ First.what = "answer" /\ ~IsEdit THEN Len(chat') ELSE bubble
  /\ short' = short \ {First.what}
  /\ UNCHANGED <<edits, text, preview, ticking, fate, fileSent, doubtful>>

\* The channel throws (refused too often, a server error, no answer to the last try):
\* the chain reports it and goes on.  The request may have arrived all the same.
GivesUp ==
  /\ sends # <<>> /\ SendIsOver
  /\ short' = IF Stands THEN short \cup {First.what} ELSE short
  /\ \/ UNCHANGED <<chat, doubtful>>
     \/ Stands /\ chat' = ChatWithFirst /\ doubtful' = (doubtful \/ ~IsEdit)
  /\ UNCHANGED <<edits, text, preview, bubble, ticking, fate, fileSent>>

\* Telegram refuses by its rate limit, and the same is sent again when that has passed.
TriesAgain ==
  /\ edits /\ sends # <<>> /\ First.what \in {"answer", "warning"}
  /\ attempt < RichTries - 1 /\ attempt' = attempt + 1
  /\ UNCHANGED <<edits, text, preview, bubble, sends, ticking, fate, fileSent, chat, short, doubtful>>

\* Rich text is rejected, or stays without an answer: plain text is tried.
TriesPlain ==
  /\ edits /\ sends # <<>> /\ First.what \in {"answer", "warning"}
  /\ attempt < Plain /\ attempt' = Plain
  /\ \/ UNCHANGED <<chat, doubtful>>
     \/ chat' = ChatWithFirst /\ doubtful' = (doubtful \/ ~IsEdit)
  /\ UNCHANGED <<edits, text, preview, bubble, sends, ticking, fate, fileSent, short>>

Serve == Delivered \/ GivesUp \/ TriesAgain \/ TriesPlain

RenderNext ==
  BeginsAnew \/ Grows \/ SendsAside \/ Tick \/ FinishAnswer \/ FailAnswer \/ DropAnswer \/ Serve

\* Every request has its time limit.
RenderFairness == WF_renderVars(Serve)

RenderSpec == RenderInit /\ [][RenderNext]_renderVars /\ RenderFairness

-----------------------------------------------------------------------------
(* Properties *)

\* Type correctness of the renderer.
RenderTypeOK ==
  /\ edits \in BOOLEAN /\ text \in 0..MaxPieces /\ preview \in 0..MaxChars + 1
  /\ bubble \in 0..Len(chat) /\ attempt \in 0..Plain /\ {ticking, fileSent, doubtful} \subseteq BOOLEAN
  /\ fate \in {"open", "finished", "failed", "dropped"}
  /\ short \subseteq {"answer", "file", "warning"}

\* Where messages of the answer stand.
Told == {i \in DOMAIN chat : chat[i].what = "answer"}

\* The answer is in the chat in its last version, in one message.
AnswerStands ==
  LET whole == Send("answer", IF edits THEN FirstPart ELSE text)
  IN  text > 0 /\ (edits \/ ~Long) =>
        /\ IF edits THEN bubble # 0 /\ chat[bubble] = whole ELSE Contains(chat, whole)
        /\ ~doubtful => \A i, j \in Told : i = j

DocumentStands == edits /\ Long => Contains(chat, Send("file", text))
WarningStands == fate = "failed" => Contains(chat, Warning)

\* When a turn is over its renderer comes to an end, though sends fail, and the chat
\* says the whole answer: its one message in the last version, the document of a long
\* one, and what went wrong; all but what the channel gave up and nothing later made
\* up for.  (WeChat gets no long answer at all.)
AnswerArrives ==
  fate \in {"finished", "failed"} ~>
    /\ sends = <<>> /\ ~ticking
    /\ "answer" \in short \/ AnswerStands
    /\ "file" \in short \/ DocumentStands
    /\ "warning" \in short \/ WarningStands
=============================================================================
