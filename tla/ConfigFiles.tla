---------------------------- MODULE ConfigFiles -----------------------------
(***************************************************************************)
(* The files under the application root that the panel (GatewayAdmin), the *)
(* configuration page of the terminal and the `ea` commands share, and the *)
(* gateway that read them when it started.  Each handler is synchronous in *)
(* its process, but no lock holds between processes, and a process may die *)
(* between two system calls.                                               *)
(*   - secrets.json is read once per process and written whole from that   *)
(*     copy; like gateway.json it is truncated and filled in place.        *)
(*   - providers.json, aliases, servers and settings are written aside and *)
(*     renamed; of skills, agents and schedules only that they changed     *)
(*     counts.                                                             *)
(* secrets.json is reduced to the keys it holds, gateway.json to the keys  *)
(* its channels and speech backends refer to, the rest to being rewritten. *)
(***************************************************************************)
EXTENDS Naturals, Sequences

CONSTANTS
  Tokens,        \* keys gateway.json refers to
  ProviderKeys,  \* keys of providers
  Unread,        \* no copy in memory
  MaxEdits,      \* bound on the handlers that run
  MaxPolls       \* bound on the polls of a login that wait at a time

VARIABLES
  disk,       \* secrets.json and gateway.json: whole or torn, and what they hold
  copy,       \* of each process and file: its copy in memory
  writing,    \* processes between a truncation and the content
  todo,       \* of each process: the file operations its handler still has to do
  behind,     \* of each process: keys others wrote since it read secrets.json, and it lacks
  lost,       \* keys removed on purpose, or overwritten from an older copy
  edits,
  (* the forms of the panel *)
  entered,    \* tokens stored by the channel form, whose channel it posts next
  qr,         \* does a WeChat login wait for its scan
  polls,      \* polls of it that wait for the service
  (* the gateway *)
  gw,         \* off, spawned, booting or up
  recorded,   \* is there a pid record of it
  (* the file this behaviour follows *)
  subject,
  unapplied,  \* written since the gateway read it
  newer,      \* its time is after the recorded start
  unseen      \* written between the gateway's reading and its record

shareVars == <<disk, copy, writing, todo, behind, lost>>
keyVars == <<behind, lost>>
formVars == <<entered, qr, polls>>
gwVars == <<gw, recorded, subject, unapplied, newer, unseen>>
fileVars == <<shareVars, edits, formVars, gwVars>>

Keys == Tokens \cup ProviderKeys

ASSUME FilesAssumption ==
  /\ \A held \in SUBSET Keys : held # Unread
  /\ {MaxEdits, MaxPolls} \subseteq Nat

Resident == {"panel", "tui"}            \* they live on and keep the keys they read
Writers == Resident \cup {"cli"}        \* each command is a process of its own
InPlace == {"secrets", "gateway"}

\* What a gateway applies when it starts, and of it what the comment of gatewayStatus
\* says that its flag tells.
Surfaces == {"gateway", "providers", "aliases", "mcp", "skills", "agents", "schedules", "settings"}
Claimed == {"gateway", "providers", "mcp", "skills"}

\* Mutant of Watched: the skills are forgotten.
WatchedFiles == {"gateway", "providers", "aliases", "mcp"}

\* Whose times the flag looks at.
Watched == {"gateway", "providers", "aliases", "mcp", "skills"}

-----------------------------------------------------------------------------
(* Handlers, as the operations on files they go through *)

Op(kind, f, a, d) == [op |-> kind, file |-> f, add |-> a, del |-> d]
Read(f) == Op("read", f, {}, {})
Write(f) == Op("write", f, {}, {})
SetKey(k) == Op("write", "secrets", {k}, {})
DeleteKey(k) == Op("write", "secrets", {}, {k})
Refer(k) == Op("write", "gateway", {k}, {})
Unrefer(k) == Op("write", "gateway", {}, {k})

(* The panel.  State shows the files, and keys with them. *)
State == <<Read("gateway"), Read("secrets")>>
AddProvider(k) == <<SetKey(k), Write("providers")>>
DeleteProvider(k) == <<DeleteKey(k), Write("providers")>>
SetOrchestrator == <<Write("aliases")>>
EditChannel == <<Read("gateway"), Write("gateway")>>    \* enabled, policy, verbose, rpc
SetMedia == <<Read("gateway"), Write("gateway")>>
DeleteChannel(t) == <<Read("gateway"), Unrefer(t)>>
SetStt(t) == <<Read("gateway"), SetKey(t), Refer(t)>>
DeleteStt(t) == <<Read("gateway"), DeleteKey(t), Unrefer(t)>>
SaveMcp == <<Write("mcp")>>
SaveSkill == <<Write("skills")>>
ReplaceSkill == <<Write("skills"), Write("skills")>>    \* removed, then copied
SaveAgent == <<Write("agents")>>
ReplaceAgent == <<Write("agents"), Write("agents")>>
SaveSchedule == <<Write("schedules")>>
CompleteWeixinLogin(t) == <<SetKey(t), Read("gateway"), Refer(t)>>

PanelHandlers ==
  {State, SetOrchestrator, EditChannel, SetMedia, SaveMcp, SaveSkill, ReplaceSkill,
   SaveAgent, ReplaceAgent, SaveSchedule}
  \cup (UNION {{AddProvider(k), DeleteProvider(k)} : k \in ProviderKeys})
  \cup (UNION {{SetStt(t), DeleteStt(t), DeleteChannel(t), <<DeleteKey(t)>>} : t \in Tokens})

(* The configuration page of the terminal.  Its rows show which keys there are. *)
ShowKeys == <<Read("secrets")>>
SaveProviders == <<Write("providers")>>
CommitKey(k) == {<<SetKey(k)>>, <<SetKey(k), Write("providers")>>}
CommitModel == <<Write("aliases")>>
ToggleServer == <<Write("mcp")>>
CommitMcpForm == {<<Write("mcp")>>, <<Write("mcp"), Write("mcp")>>}    \* renamed: dropped, then saved

TuiHandlers ==
  {ShowKeys, SaveProviders, CommitModel, ToggleServer}
  \cup CommitMcpForm \cup (UNION {CommitKey(k) : k \in ProviderKeys})

(* The commands *)
ProviderAdd(k) == <<SetKey(k), Write("providers")>>
ProviderRm(k) == <<Write("providers"), DeleteKey(k)>>
ToggleProvider == <<Write("providers")>>
AuthLogin(k) == {<<SetKey(k)>>, <<SetKey(k), Write("providers")>>}
AuthLogout(k) == <<DeleteKey(k)>>
SecretSet(k) == <<SetKey(k)>>
SecretRm(k) == <<DeleteKey(k)>>
BindAlias == <<Write("aliases")>>
ToggleMcp == <<Write("mcp")>>
AddSkill == <<Write("skills")>>
SetSwitch == <<Write("settings")>>    \* sandbox, memory
EditReadRoots == <<Write("settings")>>
SetDyn == <<Write("settings")>>

CliHandlers ==
  {ToggleProvider, BindAlias, ToggleMcp, AddSkill, SetSwitch, EditReadRoots, SetDyn}
  \cup (UNION {{ProviderAdd(k), ProviderRm(k), AuthLogout(k)} \cup AuthLogin(k) : k \in ProviderKeys})
  \cup (UNION {{SecretSet(k), SecretRm(k)} : k \in Keys})
  \cup {CompleteWeixinLogin(t) : t \in Tokens}

\* A behaviour follows the keys and who refers to them with the gateway at rest, or
\* one surface and the gateway that applies it; other handlers change other files.
Followed == IF subject = "secrets" THEN InPlace \cup {"providers"} ELSE {subject}
Concerns(h) == \A i \in 1..Len(h) : h[i].file \in Followed
HandlersOf(p) ==
  {h \in [panel |-> PanelHandlers, tui |-> TuiHandlers, cli |-> CliHandlers][p] : Concerns(h)}

FilesInit ==
  /\ disk = [f \in InPlace |-> [whole |-> TRUE, has |-> {}]]
  /\ copy = [p \in Writers |-> [f \in InPlace |-> Unread]]
  /\ writing = {} /\ todo = [p \in Writers |-> <<>>]
  /\ behind = [p \in Writers |-> {}] /\ lost = {} /\ edits = 0
  /\ entered = {} /\ qr = FALSE /\ polls = 0
  /\ gw = "off" /\ recorded = FALSE
  /\ subject \in {"secrets"} \cup Surfaces
  /\ unapplied = FALSE /\ newer = FALSE /\ unseen = FALSE

-----------------------------------------------------------------------------
(* A process starts a handler, goes through it, fails or dies *)

\* A command takes its copies with it; a resident process keeps the keys alone.
Forgotten(p) ==
  [f \in InPlace |-> IF p \in Resident /\ f = "secrets" THEN copy[p][f] ELSE Unread]

Starts(p, h) ==
  /\ todo[p] = <<>> /\ edits < MaxEdits
  /\ edits' = edits + 1 /\ todo' = [todo EXCEPT ![p] = h]
  /\ copy' = [copy EXCEPT ![p] = Forgotten(p)]
  /\ behind' = [behind EXCEPT ![p] = IF p \in Resident THEN @ ELSE {}]

Handler(p) ==
  /\ \E h \in HandlersOf(p) : Starts(p, h)
  /\ UNCHANGED <<disk, writing, lost, formVars, gwVars>>

\* The panel's form stores the token, and posts the channel when that was answered.
SaveToken(t) ==
  /\ subject = "secrets"
  /\ Starts("panel", <<SetKey(t), Op("answer", "secrets", {t}, {})>>)
  /\ UNCHANGED <<disk, writing, lost, formVars, gwVars>>

UpsertChannel(t) ==
  /\ t \in entered /\ entered' = entered \ {t}
  /\ Starts("panel", <<Read("gateway"), Refer(t)>>)
  /\ UNCHANGED <<disk, writing, lost, qr, polls, gwVars>>

\* The WeChat login: polls keep the login they found, whatever happens to it.
StartLogin ==
  /\ subject = "secrets" /\ qr' = TRUE /\ UNCHANGED <<shareVars, edits, entered, polls, gwVars>>
LoginExpires ==
  /\ qr /\ qr' = FALSE /\ UNCHANGED <<shareVars, edits, entered, polls, gwVars>>
Poll ==
  /\ qr /\ polls < MaxPolls /\ polls' = polls + 1
  /\ UNCHANGED <<shareVars, edits, entered, qr, gwVars>>
PollPending ==
  /\ polls > 0 /\ polls' = polls - 1
  /\ UNCHANGED <<shareVars, edits, entered, qr, gwVars>>
PollConfirmed(t) ==
  /\ polls > 0 /\ polls' = polls - 1
  /\ Starts("panel", Append(CompleteWeixinLogin(t), Op("scanned", "gateway", {}, {})))
  /\ UNCHANGED <<disk, writing, lost, entered, qr, gwVars>>

Advance(p) == todo' = [todo EXCEPT ![p] = Tail(@)]
Throw(p) == todo' = [todo EXCEPT ![p] = <<>>]
Does(p, kind) == todo[p] # <<>> /\ Head(todo[p]).op = kind
InFile(p) == Head(todo[p]).file

Touched(f) ==
  IF f = subject /\ subject \in Surfaces
  THEN /\ unapplied' = TRUE /\ newer' = TRUE
       /\ unseen' = (unseen \/ gw = "booting")
       /\ UNCHANGED <<gw, recorded, subject>>
  ELSE UNCHANGED gwVars

\* Mutant of Load: a file that does not parse is taken for an empty one.
LoadLenient(p, f) ==
  IF f = "secrets" /\ copy[p][f] # Unread THEN copy[p][f]
  ELSE IF disk[f].whole THEN disk[f].has ELSE {}

\* FileKeyStore.load reads once; loadGatewayConfig reads every time.  Both throw on
\* a file that does not parse.
Load(p, f) ==
  IF f = "secrets" /\ copy[p][f] # Unread THEN copy[p][f]
  ELSE IF disk[f].whole THEN disk[f].has ELSE Unread

ReadStep(p) ==
  /\ Does(p, "read")
  /\ LET f == InFile(p) IN
       /\ copy' = [copy EXCEPT ![p][f] = Load(p, f)]
       /\ IF Load(p, f) = Unread THEN Throw(p) ELSE Advance(p)
  /\ UNCHANGED <<disk, writing, behind, lost, edits, formVars, gwVars>>

\* The change is made to the copy, and the file is truncated.
Truncate(p) ==
  /\ Does(p, "write") /\ InFile(p) \in InPlace /\ p \notin writing
  /\ LET f == InFile(p)
         o == Head(todo[p])
         from == IF f = "secrets" THEN Load(p, f) ELSE copy[p][f]
     IN IF from = Unread
        THEN Throw(p) /\ UNCHANGED <<disk, copy, writing, gwVars>>
        ELSE /\ copy' = [copy EXCEPT ![p][f] = (from \cup o.add) \ o.del]
             /\ disk' = [disk EXCEPT ![f].whole = FALSE]
             /\ writing' = writing \cup {p} /\ Touched(f) /\ UNCHANGED todo
  /\ UNCHANGED <<behind, lost, edits, formVars>>

\* The content arrives.  If another process has filled the file since, the longer of
\* the two contents shows through, unless they happen to fit.
Fill(p) ==
  /\ p \in writing /\ writing' = writing \ {p} /\ Advance(p)
  /\ LET o == Head(todo[p])
         f == o.file
     IN /\ \E w \in (IF disk[f].whole THEN BOOLEAN ELSE {TRUE}) :
             disk' = [disk EXCEPT ![f] = [whole |-> w, has |-> copy[p][f]]]
        /\ Touched(f)
        /\ IF f = "secrets"
           THEN /\ lost' = (lost \cup o.del \cup behind[p]) \ copy[p][f]
                /\ behind' = [q \in Writers |->
                     IF q = p \/ copy[q][f] = Unread THEN {}
                     ELSE behind[q] \cup (copy[p][f] \ copy[q][f])]
           ELSE UNCHANGED keyVars
  /\ UNCHANGED <<copy, edits, formVars>>

\* Of the other files only that they changed is tracked: a rename, or a folder's files.
Rename(p) ==
  /\ Does(p, "write") /\ InFile(p) \notin InPlace /\ Advance(p)
  /\ Touched(InFile(p))
  /\ UNCHANGED <<disk, copy, writing, keyVars, edits, formVars>>

Answer(p) ==
  /\ Does(p, "answer") /\ Advance(p)
  /\ entered' = entered \cup Head(todo[p]).add
  /\ UNCHANGED <<disk, copy, writing, keyVars, edits, qr, polls, gwVars>>

Scanned(p) ==
  /\ Does(p, "scanned") /\ Advance(p) /\ qr' = FALSE
  /\ UNCHANGED <<disk, copy, writing, keyVars, edits, entered, polls, gwVars>>

Dies(p) ==
  /\ copy' = [copy EXCEPT ![p] = [f \in InPlace |-> Unread]]
  /\ behind' = [behind EXCEPT ![p] = {}]
  /\ todo' = [todo EXCEPT ![p] = <<>>] /\ writing' = writing \ {p}
  /\ IF p = "panel" THEN qr' = FALSE /\ polls' = 0 ELSE UNCHANGED <<qr, polls>>
  /\ UNCHANGED <<disk, lost, edits, entered, gwVars>>

-----------------------------------------------------------------------------
(* The gateway *)

\* The panel and the desktop record the process they start, the command does not.
Spawn ==
  /\ subject \in Surfaces /\ gw = "off" /\ gw' = "spawned"
  /\ recorded' \in BOOLEAN
  /\ newer' = (newer /\ ~recorded')
  /\ UNCHANGED <<shareVars, edits, formVars, subject, unapplied, unseen>>

\* A gateway.json that does not parse ends the process.
Boot ==
  /\ gw = "spawned"
  /\ IF disk["gateway"].whole
     THEN gw' = "booting" /\ unapplied' = FALSE /\ unseen' = FALSE
     ELSE gw' = "off" /\ UNCHANGED <<unapplied, unseen>>
  /\ UNCHANGED <<shareVars, edits, formVars, recorded, subject, newer>>

\* Its own record comes after the channels and /rpc, with the time of that moment.
Record ==
  /\ gw = "booting" /\ gw' = "up"
  /\ recorded' = TRUE /\ newer' = FALSE
  /\ UNCHANGED <<shareVars, edits, formVars, subject, unapplied, unseen>>

Down ==
  /\ gw # "off" /\ gw' = "off" /\ recorded' = FALSE
  /\ UNCHANGED <<shareVars, edits, formVars, subject, unapplied, newer, unseen>>

Stale == recorded /\ gw # "off" /\ newer /\ subject \in Watched

FilesNext ==
  \/ \E p \in Writers :
       \/ Handler(p) \/ Dies(p)
       \/ ReadStep(p) \/ Truncate(p) \/ Fill(p) \/ Rename(p) \/ Answer(p) \/ Scanned(p)
  \/ \E t \in Tokens : SaveToken(t) \/ UpsertChannel(t) \/ PollConfirmed(t)
  \/ StartLogin \/ LoginExpires \/ Poll \/ PollPending
  \/ Spawn \/ Boot \/ Record \/ Down

FilesSpec == FilesInit /\ [][FilesNext]_fileVars

-----------------------------------------------------------------------------
(* A token is stored before gateway.json refers to it, and a file that does *)
(* not parse is never taken for an empty one: whenever both files are       *)
(* whole, every key gateway.json refers to is in secrets.json, unless it    *)
(* was removed on purpose or a process with an older copy wrote over it     *)
(* (keychain.ts, completeWeixinLogin, setStt and the channel form).         *)
TokensResolve ==
  disk["secrets"].whole /\ disk["gateway"].whole
    => disk["gateway"].has \subseteq disk["secrets"].has \cup lost

(* The panel's flag tells of every change a restart would apply: while a    *)
(* recorded gateway runs with something older than the file, it is shown as *)
(* stale (gatewayStatus) - except what was written between its reading and  *)
(* its record, of which the flag knows nothing.                             *)
StaleTells ==
  recorded /\ gw \in {"booting", "up"} /\ subject \in Claimed /\ unapplied /\ ~unseen
    => Stale
=============================================================================
