------------------------------ MODULE RpcClient ------------------------------
(***************************************************************************)
(* The JSON-RPC client (packages/agent-client/src/client.ts and its        *)
(* websocket transport) and the link between it and the server.  A call is *)
(* registered, sent, and settled by the response that carries its id, by a *)
(* failed send, or by the end of the connection.  Every connection has a   *)
(* client of its own, so the ids of two connections never meet; a call is  *)
(* named here for the request it makes, once.                              *)
(***************************************************************************)
EXTENDS Integers, Sequences, FiniteSets

CONSTANTS
  Conns,     \* connections
  Requests,  \* requests the clients may make
  ConnOf,    \* the connection each request is made on
  After,     \* the requests whose outcome a request waits for
  Fragile    \* bound: the connections that may be given up or break

ASSUME RpcAssumption ==
  /\ ConnOf \in [Requests -> Conns] /\ After \in [Requests -> SUBSET Requests]
  /\ Fragile \subseteq Conns

VARIABLES
  call,      \* where each request stands with its caller
  open,      \* connections whose client is not closed
  link,      \* connections whose socket is up
  toServer,  \* frames on the way to the server, in order
  toClient,  \* frames on the way to the client, in order
  seen       \* number of the last notification a client's listeners were given

rpcVars == <<call, open, link, toServer, toClient, seen>>

RpcInit ==
  /\ call = [q \in Requests |-> "new"]
  /\ open = Conns /\ link = Conns
  /\ toServer = [c \in Conns |-> <<>>] /\ toClient = [c \in Conns |-> <<>>]
  /\ seen = [c \in Conns |-> 0]

\* A frame to the client: a response, a text or reasoning delta, or another
\* notification, of which only its place among those of the connection is kept.
Reply(q, ok) == [reply |-> q, ok |-> ok]
Delta        == [delta |-> TRUE]
Notice(n)    == [no |-> n]
IsReply(m) == "reply" \in DOMAIN m
IsDelta(m) == "delta" \in DOMAIN m
IsNotice(m) == ~IsReply(m) /\ ~IsDelta(m)

\* A socket that is down carries nothing more.
CutLink(c) == link' = link \ {c}

\* request: a closed client rejects at once, a send on a dead socket rejects.
Ask(q) ==
  LET c == ConnOf[q]
  IN  /\ call[q] = "new" /\ \A e \in After[q] : call[e] \in {"resolved", "rejected"}
      /\ IF c \in open \cap link
         THEN /\ call' = [call EXCEPT ![q] = "pending"]
              /\ toServer' = [toServer EXCEPT ![c] = Append(@, q)]
         ELSE /\ call' = [call EXCEPT ![q] = "rejected"]
              /\ UNCHANGED toServer
      /\ UNCHANGED <<open, link, toClient, seen>>

\* rejectAllPending.
RejectAll(c) ==
  call' = [q \in Requests |->
             IF ConnOf[q] = c /\ call[q] = "pending" THEN "rejected" ELSE call[q]]

\* handle: a response settles the call it names, if it still waits.
Receive(c) ==
  /\ c \in open /\ toClient[c] # <<>>
  /\ LET m == Head(toClient[c])
     IN  IF IsReply(m)
         THEN /\ call' = IF call[m.reply] = "pending"
                         THEN [call EXCEPT ![m.reply] = IF m.ok THEN "resolved" ELSE "rejected"]
                         ELSE call
              /\ UNCHANGED seen
         ELSE /\ seen' = [seen EXCEPT ![c] = IF IsDelta(m) THEN @ ELSE m.no]
              /\ UNCHANGED call
  /\ toClient' = [toClient EXCEPT ![c] = Tail(@)]
  /\ UNCHANGED <<open, link, toServer>>

\* handleDisconnect: the socket's close or error event, once.
Lost(c) ==
  /\ c \in open \ link
  /\ open' = open \ {c}
  /\ RejectAll(c)
  /\ toClient' = [toClient EXCEPT ![c] = <<>>]
  /\ UNCHANGED <<link, toServer, seen>>

\* close: the caller gives the connection up.
Leave(c) ==
  /\ c \in open \cap Fragile
  /\ open' = open \ {c}
  /\ RejectAll(c) /\ CutLink(c)
  /\ toClient' = [toClient EXCEPT ![c] = <<>>]
  /\ UNCHANGED <<toServer, seen>>

\* The network or the other side ends the socket.
Break(c) ==
  /\ c \in link \cap Fragile /\ CutLink(c)
  /\ UNCHANGED <<call, open, toServer, toClient, seen>>
=============================================================================
