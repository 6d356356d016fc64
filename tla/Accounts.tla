------------------------------- MODULE Accounts -------------------------------
(***************************************************************************)
(* Accounts, access keys and the chat identities bound to them             *)
(* (accounts/{db,identity-store,session-store}.ts): one SQLite file that   *)
(* the gateway, the panel and the command line open, each its own process, *)
(* and each statement a transaction of its own.  The first to open it      *)
(* imports the files of the releases before it.  A key is shown to its     *)
(* user, who presents it to the chat gate (/bind, dispatcher.ts) or to     *)
(* /rpc (app-rpc-server.ts); the operator issues keys, binds, unbinds and  *)
(* de-provisions.  A chat's session has the memory of the account its user *)
(* was bound to when it began; routes.json keeps which session that is.    *)
(* Chats are private ones: a group is declined, or has no memory.          *)
(***************************************************************************)
EXTENDS Naturals, FiniteSets

CONSTANTS
  Users,        \* chat users (channel and user id)
  Accts, Keys,
  KeyOf,        \* the account a key is for
  LegacyKeys,   \* keys in sessions.json
  LegacyUserOf, \* the bindings in identities.json: a set of <<user, account>>
  NoAcct, NoChat

ASSUME AccountsAssumption ==
  /\ IsFiniteSet(Users) /\ IsFiniteSet(Keys)
  /\ KeyOf \in [Keys -> Accts] /\ LegacyKeys \subseteq Keys
  /\ LegacyUserOf \subseteq Users \X Accts
  /\ NoAcct \notin Accts /\ NoChat \notin Accts \cup {NoAcct}

Procs == {"gateway", "panel", "cli"}

VARIABLES
  mode,      \* what the chat gate asks for; never changes
  opened,    \* of each process: how far it is with opening the database
  imported,  \* the flag in table meta
  accounts, keys, bound,    \* the tables
  shown,     \* keys their users have been shown
  binding,   \* the gateway between the key a /bind names and the row it writes
  preparing, \* of each chat: what a message that has passed the gate is waiting for
  namespace, \* of each chat: the memory read for the session that is starting
  cutting,   \* the panel between the keys it revokes and the users it unbinds
  conns,     \* accounts with an open /rpc connection
  sessions,  \* the gateway's table of sessions: the memory of a user's session
  routes,    \* routes.json
  cut        \* history: accounts de-provisioned, nothing granted to them since

accountVars == <<mode, opened, imported, accounts, keys, bound, shown, binding,
                 preparing, namespace, cutting, conns, sessions, routes, cut>>
tables == <<imported, accounts, keys, bound>>
inbound == <<preparing, namespace>>
rest == <<mode, shown, binding, inbound, cutting, conns, sessions, routes, cut>>

NotBinding == [user |-> NoChat, acct |-> NoAcct]

AccountsRest ==
  /\ opened = [p \in Procs |-> "closed"] /\ imported = FALSE
  /\ accounts = {} /\ keys = {} /\ bound = [u \in Users |-> NoAcct]
  /\ shown = LegacyKeys /\ binding = NotBinding /\ cutting = NoAcct
  /\ conns = {} /\ cut = {}
  /\ preparing = [u \in Users |-> "no"] /\ namespace = [u \in Users |-> NoAcct]
  /\ sessions = [u \in Users |-> NoChat] /\ routes = sessions

\* EA_GATEWAY_AUTH_MODE=open is the only way to it.
AccountsInit == AccountsRest /\ mode \in {"managed", "open"}
AccountsOff == AccountsRest /\ mode = "managed"

-----------------------------------------------------------------------------
\* Opening, and the import.

Importing(p) == opened[p] \notin {"closed", "open"}

\* The gateway reads routes.json as it starts.
OpenDb(p) ==
  /\ opened[p] = "closed"
  /\ opened' = [opened EXCEPT ![p] = IF imported THEN "open" ELSE "accounts"]
  /\ sessions' = IF p = "gateway" THEN routes ELSE sessions
  /\ UNCHANGED <<tables, mode, shown, binding, inbound, cutting, conns, routes, cut>>

\* INSERT OR IGNORE: a row that is there stays.
ImportAccounts(p) ==
  /\ opened[p] = "accounts" /\ opened' = [opened EXCEPT ![p] = "identities"]
  /\ accounts' = accounts \cup {KeyOf[k] : k \in LegacyKeys} \cup {b[2] : b \in LegacyUserOf}
  /\ UNCHANGED <<imported, keys, bound, rest>>

ImportIdentities(p) ==
  /\ opened[p] = "identities" /\ opened' = [opened EXCEPT ![p] = "keys"]
  /\ bound' \in {f \in [Users -> Accts \cup {NoAcct}] : \A u \in Users :
                   LET legacy == {a \in Accts : <<u, a>> \in LegacyUserOf}
                   IN IF bound[u] = NoAcct /\ legacy # {} THEN f[u] \in legacy ELSE f[u] = bound[u]}
  /\ UNCHANGED <<imported, accounts, keys, rest>>

ImportKeys(p) ==
  /\ opened[p] = "keys" /\ opened' = [opened EXCEPT ![p] = "flag"]
  /\ keys' = keys \cup LegacyKeys
  /\ UNCHANGED <<imported, accounts, bound, rest>>

SetFlag(p) ==
  /\ opened[p] = "flag" /\ opened' = [opened EXCEPT ![p] = "open"]
  /\ imported' = TRUE
  /\ UNCHANGED <<accounts, keys, bound, rest>>

\* A process ends, between two statements of its own too.
Ends(p) ==
  /\ opened[p] # "closed" /\ opened' = [opened EXCEPT ![p] = "closed"]
  /\ IF p = "gateway"
     THEN /\ binding' = NotBinding /\ conns' = {}
          /\ preparing' = [u \in Users |-> "no"] /\ namespace' = [u \in Users |-> NoAcct]
     ELSE UNCHANGED <<binding, conns, inbound>>
  /\ cutting' = IF p = "panel" THEN NoAcct ELSE cutting
  /\ cut' = IF p = "panel" THEN cut \ {cutting} ELSE cut
  /\ UNCHANGED <<tables, mode, shown, sessions, routes>>

-----------------------------------------------------------------------------
\* The operator, at the panel or the command line.

Operates(p) == p # "gateway" /\ opened[p] = "open" /\ (p = "panel" => cutting = NoAcct)

CreateAccount(p, a) ==
  /\ Operates(p) /\ a \notin accounts /\ accounts' = accounts \cup {a}
  /\ UNCHANGED <<opened, imported, keys, bound, rest>>

\* The raw key is shown once; only its hash is stored.
IssueKey(p, k) ==
  /\ Operates(p) /\ KeyOf[k] \in accounts /\ k \notin shown
  /\ shown' = shown \cup {k} /\ keys' = keys \cup {k} /\ cut' = cut \ {KeyOf[k]}
  /\ UNCHANGED <<mode, opened, imported, accounts, bound, binding, inbound, cutting, conns, sessions, routes>>

\* bind(): unknown accounts and users bound elsewhere throw.
Bound(u, a) ==
  bound' = IF a \in accounts /\ bound[u] = NoAcct THEN [bound EXCEPT ![u] = a] ELSE bound

OperatorBinds(u, a) ==
  /\ Operates("cli") /\ Bound(u, a) /\ cut' = IF bound' = bound THEN cut ELSE cut \ {a}
  /\ UNCHANGED <<mode, opened, imported, accounts, keys, shown, binding, inbound, cutting, conns, sessions, routes>>

Unbind(p, u) ==
  /\ Operates(p) /\ bound[u] # NoAcct /\ bound' = [bound EXCEPT ![u] = NoAcct]
  /\ UNCHANGED <<opened, imported, accounts, keys, rest>>

\* revokeAccessKeys: two statements, the keys' first (and the other way round).
CutOrderReversed == <<"users", "keys">>
CutOrder == <<"keys", "users">>

CutAway(what, a) ==
  /\ keys' = IF what = "keys" THEN {k \in keys : KeyOf[k] # a} ELSE keys
  /\ bound' = IF what = "users" THEN [u \in Users |-> IF bound[u] = a THEN NoAcct ELSE bound[u]] ELSE bound
  /\ UNCHANGED <<mode, opened, imported, accounts, shown, binding, inbound, conns, sessions, routes>>

RevokeAccessKeys(a) ==
  /\ Operates("panel") /\ a \in accounts
  /\ CutAway(CutOrder[1], a) /\ cutting' = a
  /\ cut' = IF \E p \in Procs : Importing(p) THEN cut \ {a} ELSE cut \cup {a}

UnbindsAll ==
  /\ opened["panel"] = "open" /\ cutting # NoAcct
  /\ CutAway(CutOrder[2], cutting) /\ cutting' = NoAcct
  /\ cut' = IF binding.acct = cutting THEN cut \ {cutting} ELSE cut

-----------------------------------------------------------------------------
\* The users.

Serving == opened["gateway"] = "open"

\* A key that has expired is one that is not used any more.
Resolves(k) == k \in keys \cap shown

\* imBindGate: a user bound already, an unknown or an expired key are told so.
BindReads(u, k) ==
  /\ Serving /\ mode = "managed" /\ binding = NotBinding
  /\ bound[u] = NoAcct /\ Resolves(k)
  /\ binding' = [user |-> u, acct |-> KeyOf[k]]
  /\ UNCHANGED <<mode, opened, tables, shown, inbound, cutting, conns, sessions, routes, cut>>

\* The insert fails on a user whom the command line has bound meanwhile.
BindWrites ==
  /\ binding # NotBinding /\ Bound(binding.user, binding.acct) /\ binding' = NotBinding
  /\ UNCHANGED <<mode, opened, imported, accounts, keys, shown, inbound, cutting, conns, sessions, routes, cut>>

\* The gateway does between two awaits what it does at once; a /bind it does whole.
Handles == Serving /\ binding = NotBinding

\* handleInbound and routeMessage up to the download of attachments: the gate,
\* and whether the chat has a session that goes on; none, or one that is due for
\* a reset, and a session starts.
MessageTaken(u) ==
  /\ Handles /\ preparing[u] = "no" /\ (mode = "managed" => bound[u] # NoAcct)
  /\ \E next \in IF sessions[u] = NoChat THEN {"composing"} ELSE {"composing", "continuing"} :
        preparing' = [preparing EXCEPT ![u] = next]
  /\ UNCHANGED <<mode, opened, tables, shown, binding, namespace, cutting, conns, sessions, routes, cut>>

\* The turn of a session that was there; touch() writes the routes, unless /new
\* has unbound this one.
MessageContinues(u) ==
  /\ Handles /\ preparing[u] = "continuing" /\ preparing' = [preparing EXCEPT ![u] = "no"]
  /\ routes' = IF sessions[u] = NoChat THEN routes ELSE sessions
  /\ UNCHANGED <<mode, opened, tables, shown, binding, namespace, cutting, conns, sessions, cut>>

\* Whose memory the new session has: of the account the user is bound to by now.
NamespaceRead(u) ==
  /\ Handles /\ preparing[u] = "composing" /\ preparing' = [preparing EXCEPT ![u] = "starting"]
  /\ namespace' = [namespace EXCEPT ![u] = bound[u]]
  /\ UNCHANGED <<mode, opened, tables, shown, binding, cutting, conns, sessions, routes, cut>>

\* startSession has answered.
SessionStarted(u) ==
  /\ Handles /\ preparing[u] = "starting" /\ preparing' = [preparing EXCEPT ![u] = "no"]
  /\ sessions' = [sessions EXCEPT ![u] = namespace[u]] /\ routes' = sessions'
  /\ namespace' = [namespace EXCEPT ![u] = NoAcct]
  /\ UNCHANGED <<mode, opened, tables, shown, binding, cutting, conns, cut>>

\* A step of it throws; the chat is free again.
MessageFails(u) ==
  /\ Handles /\ preparing[u] # "no" /\ preparing' = [preparing EXCEPT ![u] = "no"]
  /\ namespace' = [namespace EXCEPT ![u] = NoAcct]
  /\ UNCHANGED <<mode, opened, tables, shown, binding, cutting, conns, sessions, routes, cut>>

\* /new; a message that is being prepared does not hold it back.
Forget(u) ==
  /\ Handles /\ sessions[u] # NoChat
  /\ sessions' = [sessions EXCEPT ![u] = NoChat] /\ routes' = sessions'
  /\ UNCHANGED <<mode, opened, tables, shown, binding, inbound, cutting, conns, cut>>

\* route rm, and the panel's: the file, which a running gateway does not read again.
RemoveRoute(p, u) ==
  /\ p # "gateway" /\ opened[p] = "open" /\ routes[u] # NoChat
  /\ routes' = [routes EXCEPT ![u] = NoChat]
  /\ UNCHANGED <<mode, opened, tables, shown, binding, inbound, cutting, conns, sessions, cut>>

\* authenticateRpc, once, at the upgrade: the cookie or the bearer key.  A client
\* of this machine that is trusted without one has no account.
Connect(a) ==
  /\ Handles /\ \E k \in Keys : Resolves(k) /\ a = KeyOf[k]
  /\ conns' = conns \cup {a}
  /\ UNCHANGED <<mode, opened, tables, shown, binding, inbound, cutting, sessions, routes, cut>>

Disconnect(a) ==
  /\ a \in conns /\ conns' = conns \ {a}
  /\ UNCHANGED <<mode, opened, tables, shown, binding, inbound, cutting, sessions, routes, cut>>

-----------------------------------------------------------------------------
AccountsNext ==
  \/ \E p \in Procs : \/ OpenDb(p) \/ ImportAccounts(p) \/ ImportIdentities(p) \/ ImportKeys(p)
                      \/ SetFlag(p) \/ Ends(p)
                      \/ \E a \in Accts : CreateAccount(p, a)
                      \/ \E k \in Keys : IssueKey(p, k)
                      \/ \E u \in Users : Unbind(p, u) \/ RemoveRoute(p, u)
  \/ \E u \in Users, a \in Accts : OperatorBinds(u, a)
  \/ \E a \in Accts : RevokeAccessKeys(a) \/ Connect(a) \/ Disconnect(a)
  \/ UnbindsAll \/ BindWrites
  \/ \E u \in Users : \/ MessageTaken(u) \/ MessageContinues(u) \/ NamespaceRead(u)
                      \/ SessionStarted(u) \/ MessageFails(u) \/ Forget(u)
                      \/ \E k \in Keys : BindReads(u, k)

AccountsSpec == AccountsInit /\ [][AccountsNext]_accountVars

-----------------------------------------------------------------------------
AccountsTypeOK ==
  /\ mode \in {"open", "managed"}
  /\ opened \in [Procs -> {"closed", "accounts", "identities", "keys", "flag", "open"}]
  /\ imported \in BOOLEAN /\ accounts \subseteq Accts /\ keys \subseteq Keys
  /\ bound \in [Users -> Accts \cup {NoAcct}] /\ shown \subseteq Keys
  /\ binding \in [user : Users \cup {NoChat}, acct : Accts \cup {NoAcct}]
  /\ preparing \in [Users -> {"no", "composing", "continuing", "starting"}]
  /\ namespace \in [Users -> Accts \cup {NoAcct}]
  /\ cutting \in Accts \cup {NoAcct} /\ conns \subseteq Accts
  /\ sessions \in [Users -> Accts \cup {NoAcct, NoChat}] /\ routes \in [Users -> Accts \cup {NoAcct, NoChat}]
  /\ cut \subseteq Accts

\* Once the panel has de-provisioned an account, and until the operator issues
\* a key for it or binds a user to it, no user is bound to it, no connection is
\* opened under it, its memory is read for no session that starts, and no chat's
\* session has it but one that had, or that was starting with it by then.
\* Three things escape: a /bind that had read its key, an import that had begun,
\* and a message between the namespace it read and the session it starts
\* (dispatcher.ts:413-422).  A message past the gate is not asked again: it has
\* its turn, in the session that was there or in one without a memory.
DeprovisionCuts ==
  [][\A a \in cut' : a # cutting' =>
       /\ \A u \in Users : bound'[u] # a
       /\ a \in cut /\ a # cutting =>
            /\ a \in conns' => a \in conns
            /\ \A u \in Users :
                 /\ namespace'[u] = a => namespace[u] = a
                 /\ sessions'[u] = a => a \in {sessions[u], namespace[u]}]_accountVars
=============================================================================
