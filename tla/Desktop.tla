------------------------------- MODULE Desktop -------------------------------
(***************************************************************************)
(* The desktop application: the connection to the gateway it supervises    *)
(* (Sidecar, Connection), the chats of its window (ChatStore), and the     *)
(* files its panel shares with the terminal and that gateway               *)
(* (ConfigFiles).  They share little more than the link and the pid        *)
(* record, and their product is large: a behaviour watches one of them and *)
(* leaves the others at rest.                                              *)
(***************************************************************************)
EXTENDS Connection, ChatStore, ConfigFiles

VARIABLE watched    \* the part that moves

\* The local gateway is supervised and dialled; the window is connected and idle.
GatewayInit ==
  /\ watched = "gateway" /\ Init
  /\ StoreInit /\ up /\ trusted
  /\ FilesInit /\ subject = "secrets"

\* No process runs and nothing is dialled.
AtRest ==
  /\ SidecarInit /\ target = FALSE /\ keyValid = TRUE
  /\ socket = "none" /\ peer = NoPid /\ retryTimer = FALSE /\ phase = "idle"

\* A remote gateway: no process to supervise, and the link comes and goes by itself.
ChatsInit ==
  /\ watched = "chats" /\ StoreInit /\ ~up
  /\ AtRest
  /\ FilesInit /\ subject = "secrets"

\* Nobody dials, and the window shows no chat.
DiskInit ==
  /\ watched = "files" /\ FilesInit
  /\ AtRest
  /\ StoreInit /\ up /\ trusted

DesktopInit == GatewayInit \/ ChatsInit \/ DiskInit

DesktopNext ==
  \/ watched = "gateway" /\ Next /\ UNCHANGED <<watched, storeVars, fileVars>>
  \/ watched = "chats" /\ StoreNext /\ UNCHANGED <<watched, vars, fileVars>>
  \/ watched = "files" /\ FilesNext /\ UNCHANGED <<watched, vars, storeVars>>

DesktopSpec ==
  /\ DesktopInit /\ [][DesktopNext]_<<vars, storeVars, fileVars, watched>>
  /\ SidecarFairness /\ ConnFairness /\ WF_storeVars(Progress)
=============================================================================
