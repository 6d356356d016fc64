------------------------------ MODULE SessionLog ------------------------------
(***************************************************************************)
(* The append-only session tree of packages/agent (session-store.ts over   *)
(* util/fs.ts): a JSONL file of entry and head records, folded into a map  *)
(* of entries and a head when the session is opened, and kept in step with *)
(* the file in memory while it is open.                                    *)
(*                                                                         *)
(* One synchronous step of the program writes several lines (appendEntry   *)
(* writes the entry and, unless told not to, a head record; a turn then    *)
(* writes its run record to runs.jsonl).  The lines still to be written    *)
(* stand in `buffer`: the process may die before any of them, or in the    *)
(* middle of one, leaving a fragment without its newline.                  *)
(***************************************************************************)
EXTENDS Naturals, Sequences

CONSTANTS
  MaxEntries,  \* bound: ids ever created
  MaxCrashes,  \* bound: crashes of the host process
  Torn,        \* whether a crash may leave half a line behind
  Authors      \* what an entry's turn field ranges over

ASSUME SessionLogAssumption ==
  /\ MaxEntries \in Nat \ {0} /\ MaxCrashes \in Nat
  /\ Torn \in BOOLEAN

Ids   == 1 .. MaxEntries
NoId  == 0
Kinds == {"user", "assistant", "summary", "sub"}

(***************************************************************************)
(* msg identifies the content: a re-anchored copy carries the msg of its   *)
(* original.  covers is what the text of a summary was made from.  text    *)
(* tells whether the entry makes a message for the model: a reply of tool  *)
(* calls alone makes none, a user's entry always does.                     *)
(***************************************************************************)
Entry == [parent : Ids \cup {NoId}, kind : Kinds, turn : Authors, msg : Ids,
          covers : SUBSET Ids, auto : BOOLEAN, text : BOOLEAN]

EntryLine(i, e) == [type |-> "entry", id |-> i, entry |-> e]
HeadLine(i)     == [type |-> "head", id |-> i]
Junk            == [type |-> "junk"]

VARIABLES
  log,       \* the complete physical lines of session.jsonl
  fragment,  \* whether the file ends in an unterminated fragment
  buffer,    \* lines the current operation has still to write
  entries,   \* folded.entries: an entry or NoEntry for every id
  head,      \* folded.headId
  created,   \* ids handed out by newId
  up,        \* whether the process runs
  crashes

logVars == <<log, fragment, buffer, entries, head, created, up, crashes>>

NoEntry == [kind |-> "none"]
Known   == {i \in Ids : entries[i] # NoEntry}

LogTypeOK ==
  /\ fragment \in BOOLEAN /\ up \in BOOLEAN
  /\ entries \in [Ids -> Entry \cup {NoEntry}]
  /\ head \in Ids \cup {NoId}
  /\ created \in 0 .. MaxEntries
  /\ crashes \in 0 .. MaxCrashes

LogInit ==
  /\ log = <<>> /\ buffer = <<>> /\ fragment = FALSE
  /\ entries = [i \in Ids |-> NoEntry] /\ head = NoId
  /\ created = 0 /\ up = TRUE /\ crashes = 0

------------------------------------------------------------------------------
(* The file.                                                               *)

\* A line written after a fragment joins it: one physical line that no longer
\* parses.
Written(line) == Append(log, IF fragment THEN Junk ELSE line)

LinesOf(type) == {n \in DOMAIN log : log[n].type = type}

\* fold(): the entries on file, and the head the last entry or head line names.
FoldEntries ==
  [i \in Ids |->
     IF \E n \in LinesOf("entry") : log[n].id = i
     THEN log[CHOOSE n \in LinesOf("entry") : log[n].id = i].entry
     ELSE NoEntry]

FoldHead ==
  LET L == LinesOf("entry") \cup LinesOf("head")
  IN  IF L = {} THEN NoId ELSE log[CHOOSE n \in L : \A m \in L : m <= n].id

Ready == up /\ buffer = <<>>

\* appendJsonl of the next line of the current operation to session.jsonl.
Flush ==
  /\ up /\ buffer # <<>> /\ Head(buffer).type # "run"
  /\ log' = Written(Head(buffer))
  /\ fragment' = FALSE
  /\ buffer' = Tail(buffer)
  /\ UNCHANGED <<entries, head, created, up, crashes>>

\* The host process dies; with Torn, a line half written to this file stays.
Crash ==
  /\ up /\ crashes < MaxCrashes
  /\ crashes' = crashes + 1
  /\ up' = FALSE
  /\ buffer' = <<>>
  /\ \/ fragment' = fragment
     \/ Torn /\ buffer # <<>> /\ Head(buffer).type # "run" /\ fragment' = TRUE
  /\ entries' = [i \in Ids |-> NoEntry] /\ head' = NoId
  /\ UNCHANGED <<log, created>>

\* A new process opens the session: the constructor folds the file.
Reopen ==
  /\ ~up
  /\ up' = TRUE
  /\ entries' = FoldEntries
  /\ head' = FoldHead
  /\ UNCHANGED <<log, fragment, buffer, created, crashes>>

------------------------------------------------------------------------------
(* Operations.  AppendAll appends a sequence of new entries, each under the *)
(* head the one before it has left (a single appendEntry is a sequence of   *)
(* one); `after` is what the same synchronous step writes to other files.   *)

Room(n) == created + n <= MaxEntries

\* es[k] becomes entry created + k; its parent is the head it finds.
Placed(es) ==
  [k \in DOMAIN es |->
     [es[k] EXCEPT !.parent = IF k = 1 THEN head ELSE created + k - 1]]

AppendAll(es, after) ==
  LET n == Len(es)
      p == Placed(es)
  IN  /\ Ready /\ Room(n)
      /\ entries' = [i \in Ids |-> IF i \in created + 1 .. created + n
                                   THEN p[i - created] ELSE entries[i]]
      /\ head' = IF n = 0 THEN head ELSE created + n
      /\ buffer' = [k \in 1 .. 2 * n |->
                      IF k % 2 = 1 THEN EntryLine(created + (k + 1) \div 2, p[(k + 1) \div 2])
                      ELSE HeadLine(created + k \div 2)] \o after
      /\ created' = created + n
      /\ UNCHANGED <<log, fragment, up, crashes>>

\* Mutant of AppendAside: the entry stays in memory.
AppendAsideUnsaved(e) ==
  /\ Ready /\ Room(1)
  /\ entries' = [entries EXCEPT ![created + 1] = e]
  /\ created' = created + 1
  /\ UNCHANGED <<log, fragment, buffer, head, up, crashes>>

\* appendEntry with an explicit parent and moveHead: false.
AppendAside(e) ==
  /\ Ready /\ Room(1)
  /\ entries' = [entries EXCEPT ![created + 1] = e]
  /\ buffer' = <<EntryLine(created + 1, e)>>
  /\ created' = created + 1
  /\ UNCHANGED <<log, fragment, head, up, crashes>>

\* fork: an unknown entry throws.
MoveHead(i) ==
  /\ Ready /\ i \in Known
  /\ head' = i
  /\ buffer' = <<HeadLine(i)>>
  /\ UNCHANGED <<log, fragment, entries, created, up, crashes>>

------------------------------------------------------------------------------
(* Reading the tree.                                                       *)

\* getPath: from h back to the root or the nearest summary, both included.
Path(h) ==
  LET to[i \in Ids \cup {NoId}] ==
        CASE i = NoId -> <<>>
          [] i # NoId /\ i \notin Known -> <<>>
          [] i \in Known /\ entries[i].kind = "summary" -> <<i>>
          [] OTHER -> Append(to[entries[i].parent], i)
  IN  to[h]

\* Every ancestor of h that is in the tree, h included.
Ancestors(h) ==
  LET from[i \in Ids \cup {NoId}] ==
        IF i = NoId \/ i \notin Known THEN {} ELSE {i} \cup from[entries[i].parent]
  IN  from[h]

Elements(s) == {s[k] : k \in DOMAIN s}

\* What the model can still know of the conversation from the entries S.
Remembered(S) == UNION {{entries[i].msg} \cup entries[i].covers : i \in S}

------------------------------------------------------------------------------
(* Properties.                                                             *)

\* What has been appended is on file: a reopened session has exactly the entries
\* the running one has (fs.ts: "one bad record never makes the whole log
\* unreadable").
EntriesSurvive == Ready => entries = FoldEntries

\* A reopened session continues from the head the running one has
\* (session-store.ts: sub-agent transcripts hang off their delegate entry
\* "without moving the active head, so they never pollute the main session
\* path").
HeadSurvives == Ready => head = FoldHead
==============================================================================
