------------------------------- MODULE Gateway -------------------------------
(***************************************************************************)
(* The chat gateway: the channels that bring messages in (Channels), the   *)
(* dispatcher they are handed to (Dispatcher), the renderer that sends a   *)
(* turn's answer (ChatRender), and what it shares with the panel and the   *)
(* command line: accounts and their keys (Accounts), and the panel's       *)
(* secret (AdminSecret).  Handing on is a call whose outcome the channel   *)
(* does not look at; of the renderer the dispatcher waits for the end,     *)
(* which Flushed stands for; the gate of Accounts lets a message pass or   *)
(* answers it.  They share no other state: a behaviour watches one of them *)
(* and leaves the others at rest.                                          *)
(***************************************************************************)
EXTENDS Dispatcher, Channels, ChatRender, Accounts, AdminSecret

VARIABLE watched    \* the part that moves

ChannelsOff ==
  ChannelsIdle /\ kind = "telegram" /\ running = FALSE /\ loop = [l \in Loops |-> NoLoop]

\* Conversations go on; no channel polls.
ConversationsInit ==
  /\ watched = "conversations" /\ Init
  /\ ChannelsOff /\ RenderOff /\ AccountsOff /\ SecretInit

\* Messages come in; no conversation has begun.
InboundInit ==
  /\ watched = "inbound" /\ Init /\ buttons = {}
  /\ ChannelsInit /\ RenderOff /\ AccountsOff /\ SecretInit

\* A turn's answer goes out.
AnswerInit ==
  /\ watched = "answer" /\ Init /\ buttons = {}
  /\ ChannelsOff /\ RenderInit /\ AccountsOff /\ SecretInit

\* Users are given keys, bind themselves and are cut off.
AccessInit ==
  /\ watched = "access" /\ Init /\ buttons = {}
  /\ ChannelsOff /\ RenderOff /\ AccountsInit /\ SecretInit

\* The panel and the gateway start.
LoginInit ==
  /\ watched = "login" /\ Init /\ buttons = {}
  /\ ChannelsOff /\ RenderOff /\ AccountsOff /\ SecretInit

GatewayInit == ConversationsInit \/ InboundInit \/ AnswerInit \/ AccessInit \/ LoginInit

GatewayNext ==
  /\ UNCHANGED watched
  /\ \/ watched = "conversations" /\ Next
        /\ UNCHANGED <<channelVars, renderVars, accountVars, secretVars>>
     \/ watched = "inbound" /\ ChannelsNext
        /\ UNCHANGED <<vars, renderVars, accountVars, secretVars>>
     \/ watched = "answer" /\ RenderNext
        /\ UNCHANGED <<vars, channelVars, accountVars, secretVars>>
     \/ watched = "access" /\ AccountsNext
        /\ UNCHANGED <<vars, channelVars, renderVars, secretVars>>
     \/ watched = "login" /\ SecretNext
        /\ UNCHANGED <<vars, channelVars, renderVars, accountVars>>

GatewaySpec ==
  /\ GatewayInit
  /\ [][GatewayNext]_<<vars, channelVars, renderVars, accountVars, secretVars, watched>>
  /\ Fairness /\ ChannelsFairness /\ RenderFairness
=============================================================================
