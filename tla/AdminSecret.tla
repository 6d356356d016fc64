----------------------------- MODULE AdminSecret -----------------------------
(***************************************************************************)
(* The panel's login secret (accounts/admin-auth.ts): a file that the panel *)
(* (server.ts) and the gateway (bin.ts) each load as they start and make if *)
(* it is not there, and the login cookie, a function of the secret.  Each  *)
(* process reads the file once and keeps the secret.                       *)
(***************************************************************************)
EXTENDS Naturals, FiniteSets

CONSTANTS
  Starters,   \* processes that may start at once; each would make a secret of its own
  NoSecret, Empty

ASSUME SecretAssumption ==
  IsFiniteSet(Starters) /\ {NoSecret, Empty} \cap Starters = {} /\ NoSecret # Empty

VARIABLES
  file,     \* its content: the process whose secret it is, Empty or NoSecret
  starting, \* of each process: down, read (the file, in vain), writing, up
  held,     \* the secret it keeps
  cookie    \* the browser's: the secret it was made from

secretVars == <<file, starting, held, cookie>>

SecretInit ==
  /\ file = NoSecret /\ cookie = NoSecret
  /\ starting = [p \in Starters |-> "down"] /\ held = [p \in Starters |-> NoSecret]

Usable == file \notin {NoSecret, Empty}
Adopts(p) == held' = [held EXCEPT ![p] = file] /\ starting' = [starting EXCEPT ![p] = "up"]

\* loadOrCreateAdminSecret: a secret that is there is the one.
Read(p) ==
  /\ starting[p] = "down"
  /\ IF Usable THEN Adopts(p) ELSE starting' = [starting EXCEPT ![p] = "read"] /\ UNCHANGED held
  /\ UNCHANGED <<file, cookie>>

\* The flag dropped: whoever finds no secret writes one.
CreateAnyway(p) ==
  /\ starting[p] = "read" /\ file' = Empty
  /\ starting' = [starting EXCEPT ![p] = "writing"] /\ UNCHANGED <<held, cookie>>

\* Opening the file fails if it is there by now: the winner's secret is
\* adopted, and while there is none in it the process dies of the error.
Create(p) ==
  /\ starting[p] = "read"
  /\ \/ file = NoSecret /\ file' = Empty
        /\ starting' = [starting EXCEPT ![p] = "writing"] /\ UNCHANGED held
     \/ Usable /\ Adopts(p) /\ UNCHANGED file
     \/ file = Empty /\ starting' = [starting EXCEPT ![p] = "down"] /\ UNCHANGED <<file, held>>
  /\ UNCHANGED cookie

Write(p) ==
  /\ starting[p] = "writing" /\ file' = p
  /\ starting' = [starting EXCEPT ![p] = "up"] /\ held' = [held EXCEPT ![p] = p]
  /\ UNCHANGED cookie

\* A process ends; one that has created the file and not written it leaves it empty.
Exits(p) ==
  /\ starting[p] # "down" /\ starting' = [starting EXCEPT ![p] = "down"]
  /\ held' = [held EXCEPT ![p] = NoSecret] /\ UNCHANGED <<file, cookie>>

\* The operator logs in at a panel with the secret from the file or the log.
Login(p) ==
  /\ starting[p] = "up" /\ cookie' = held[p] /\ UNCHANGED <<file, starting, held>>

Logout == cookie # NoSecret /\ cookie' = NoSecret /\ UNCHANGED <<file, starting, held>>

SecretNext == Logout \/ \E p \in Starters : Read(p) \/ Create(p) \/ Write(p) \/ Exits(p) \/ Login(p)

SecretTypeOK ==
  /\ file \in Starters \cup {NoSecret, Empty} /\ cookie \in Starters \cup {NoSecret}
  /\ starting \in [Starters -> {"down", "read", "writing", "up"}]
  /\ held \in [Starters -> Starters \cup {NoSecret}]

\* "They never diverge": the processes that are up all hold the secret that is
\* in the file, and a login outlives the panel it was made at.
OneAdminSecret ==
  /\ \A p \in Starters : held[p] \in {NoSecret, file}
  /\ cookie \in {NoSecret, file}
=============================================================================
