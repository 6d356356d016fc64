------------------------------ MODULE SlotPool ------------------------------
(***************************************************************************)
(* What the delegation semaphore promises, without its counter: at most    *)
(* Max of its clients hold a slot, a client waits only while every slot is *)
(* held, and a freed slot goes to the client that has waited longest.      *)
(***************************************************************************)
EXTENDS Integers, Sequences, FiniteSets

CONSTANTS
  Clients,    \* everyone who may ask for a slot, a finite set
  Max         \* number of slots, at least one

VARIABLES
  holders,    \* clients that hold a slot
  line        \* clients that wait for one, first come first served

poolVars == <<holders, line>>

Waiting == {line[i] : i \in DOMAIN line}

PoolInit == holders = {} /\ line = <<>>

\* A client asks while a slot is free.
Take(c) ==
  /\ c \notin holders \cup Waiting
  /\ Cardinality(holders) < Max
  /\ holders' = holders \cup {c}
  /\ UNCHANGED line

\* A client asks while every slot is held.
Wait(c) ==
  /\ c \notin holders \cup Waiting
  /\ Cardinality(holders) = Max
  /\ line' = Append(line, c)
  /\ UNCHANGED holders

\* A holder leaves: its slot passes to the head of the line.
GiveBack(c) ==
  /\ c \in holders
  /\ \/ line = <<>> /\ holders' = holders \ {c} /\ UNCHANGED line
     \/ /\ line # <<>>
        /\ holders' = (holders \ {c}) \cup {Head(line)}
        /\ line' = Tail(line)

PoolNext == \E c \in Clients : Take(c) \/ Wait(c) \/ GiveBack(c)

PoolSpec == PoolInit /\ [][PoolNext]_poolVars
=============================================================================
