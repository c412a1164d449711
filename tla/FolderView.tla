------------------------------ MODULE FolderView ------------------------------
(***************************************************************************)
(* What the explorer shows of the folders of one server: the listing cache *)
(* (src/renderer/src/stores/useListingStore.ts), the answers of LIST that  *)
(* arrive late and out of order, and the changes that the main process     *)
(* tells of and useAgentSync.ts gathers until they stop coming.            *)
(*                                                                         *)
(* A folder's content is a number that every change makes bigger.          *)
(***************************************************************************)
EXTENDS Naturals, FiniteSets

CONSTANTS
  Dirs,
  MaxChanges,     \* bound: changes of the server's folders
  MaxLoads,       \* bound: loads the user asks for
  MaxLosses       \* bound: times the connection is lost or closed

ASSUME FolderViewAssumption == /\ IsFiniteSet(Dirs)
                               /\ {MaxChanges, MaxLoads, MaxLosses} \subseteq Nat

VARIABLES
  fvOnline,     \* the window's status of the server is 'connected'
  content,      \* what each folder holds on the server
  untold,       \* folders changed by a command whose event is yet to be sent
  gathered,     \* items of debounced()
  listed,       \* byKey: [status, has: the content it shows, refreshing]
  listGen,      \* generations
  asks,         \* LISTs on their way; read is 0 until the server reads the folder,
                \* present: asked in this session
  startAsk,     \* the LIST of connect(), for put()
  sure,         \* auxiliary: shown as this connection loaded it
  fvLoads, fvLosses

folderViewVars == <<fvOnline, content, untold, gathered, listed, listGen, asks, startAsk, sure,
                    fvLoads, fvLosses>>

Unread == [status |-> "none", has |-> 0, refreshing |-> FALSE]
NoAsk == [dir |-> 0, read |-> 0]
Bump(ds) == [d \in Dirs |-> IF d \in ds THEN listGen[d] + 1 ELSE listGen[d]]

(* load() of the folders ds: a new generation and one LIST for each.       *)
LoadAll(ds) ==
  /\ listGen' = Bump(ds)
  /\ listed' = [d \in Dirs |-> IF d \notin ds THEN listed[d]
                               ELSE IF listed[d].status = "none"
                                    THEN [status |-> "loading", has |-> 0, refreshing |-> FALSE]
                                    ELSE [listed[d] EXCEPT !.refreshing = TRUE]]
  /\ asks' = asks \cup {[dir |-> d, gen |-> listGen[d] + 1, read |-> 0, present |-> TRUE] : d \in ds}

-----------------------------------------------------------------------------
(* The main process.  A command of this app changes a folder; its event is  *)
(* sent when the command has been answered.                                *)
ChangeFolder(d) ==
  /\ fvOnline /\ content[d] <= MaxChanges
  /\ content' = [content EXCEPT ![d] = @ + 1]
  /\ untold' = untold \cup {d}
  /\ UNCHANGED <<fvOnline, gathered, listed, listGen, asks, startAsk, sure, fvLoads, fvLosses>>

Tell(d) ==
  /\ d \in untold
  /\ untold' = untold \ {d} /\ gathered' = gathered \cup {d}
  /\ UNCHANGED <<fvOnline, content, listed, listGen, asks, startAsk, sure, fvLoads, fvLosses>>

ReadsFolder ==
  /\ \/ \E a \in asks : /\ a.read = 0
                        /\ asks' = (asks \ {a}) \cup {[a EXCEPT !.read = content[a.dir]]}
                        /\ UNCHANGED startAsk
     \/ /\ startAsk.dir # 0 /\ startAsk.read = 0
        /\ startAsk' = [startAsk EXCEPT !.read = content[startAsk.dir]]
        /\ UNCHANGED asks
  /\ UNCHANGED <<fvOnline, content, untold, gathered, listed, listGen, sure, fvLoads, fvLosses>>

-----------------------------------------------------------------------------
(* The window.                                                             *)

(* A tab moves to the folder, is reloaded or is mounted without a listing.  *)
UserLoads(d) ==
  /\ fvOnline /\ fvLoads < MaxLoads
  /\ fvLoads' = fvLoads + 1
  /\ LoadAll({d})
  /\ UNCHANGED <<fvOnline, content, untold, gathered, startAsk, sure, fvLosses>>

(* Fault: an answer is taken however many loads began after its own.        *)
AnyGen(a) == TRUE

(* The answer of load(); one of an older generation is dropped.             *)
LastGen(a) == a.gen = listGen[a.dir]

Answered(a) ==
  /\ asks' = asks \ {a}
  /\ IF ~LastGen(a) THEN UNCHANGED <<listed, sure>>
     ELSE \/ /\ a.read # 0
             /\ listed' = [listed EXCEPT ![a.dir] = [status |-> "ready", has |-> a.read,
                                                     refreshing |-> FALSE]]
             /\ sure' = IF a.present THEN sure \cup {a.dir} ELSE sure \ {a.dir}
          \/ /\ listed' = [listed EXCEPT ![a.dir] = [@ EXCEPT !.status = "error",
                                                              !.refreshing = FALSE]]
             /\ UNCHANGED sure
  /\ UNCHANGED <<fvOnline, content, untold, gathered, listGen, startAsk, fvLoads, fvLosses>>

(* syncRemote(), AGENT_SYNC_DEBOUNCE_MS after the last event: folders that  *)
(* were never read are left alone.                                         *)
EverRead == {d \in Dirs : listed[d].status # "none"}

SyncRemote ==
  /\ gathered # {}
  /\ gathered' = {}
  /\ LoadAll(IF fvOnline THEN gathered \cap EverRead ELSE {})
  /\ UNCHANGED <<fvOnline, content, untold, startAsk, sure, fvLoads, fvLosses>>

(* The session ends: what was shown stays in the cache.                    *)
LosesServer ==
  /\ fvOnline /\ fvLosses < MaxLosses
  /\ fvOnline' = FALSE /\ fvLosses' = fvLosses + 1
  /\ startAsk' = NoAsk
  /\ sure' = {} /\ asks' = {[a EXCEPT !.present = FALSE] : a \in asks}
  /\ UNCHANGED <<content, untold, gathered, listed, listGen, fvLoads>>

(* connect() succeeds and asks for its start folder; then put().           *)
ComesOnline(d) ==
  /\ ~fvOnline
  /\ fvOnline' = TRUE
  /\ startAsk' = [dir |-> d, read |-> 0]
  /\ UNCHANGED <<content, untold, gathered, listed, listGen, asks, sure, fvLoads, fvLosses>>

PutStart ==
  /\ startAsk.read # 0
  /\ listed' = [listed EXCEPT ![startAsk.dir] = [status |-> "ready", has |-> startAsk.read,
                                                 refreshing |-> FALSE]]
  /\ listGen' = Bump({startAsk.dir})
  /\ sure' = sure \ {startAsk.dir}
  /\ startAsk' = NoAsk
  /\ UNCHANGED <<fvOnline, content, untold, gathered, asks, fvLoads, fvLosses>>

FolderViewInit ==
  /\ fvOnline = FALSE /\ content = [d \in Dirs |-> 1]
  /\ untold = {} /\ gathered = {}
  /\ listed = [d \in Dirs |-> Unread] /\ listGen = [d \in Dirs |-> 0]
  /\ asks = {} /\ startAsk = NoAsk /\ sure = {} /\ fvLoads = 0 /\ fvLosses = 0

FolderViewProgress ==
  \/ \E d \in Dirs : Tell(d)
  \/ ReadsFolder \/ (\E a \in asks : Answered(a)) \/ SyncRemote \/ PutStart

FolderViewNext ==
  \/ FolderViewProgress
  \/ \E d \in Dirs : ChangeFolder(d) \/ UserLoads(d) \/ ComesOnline(d)
  \/ LosesServer

FolderViewSpec == FolderViewInit /\ [][FolderViewNext]_folderViewVars
                  /\ WF_folderViewVars(FolderViewProgress)

-----------------------------------------------------------------------------
AtRest == untold \cup gathered = {} /\ asks = {} /\ startAsk = NoAsk

(* When nothing is under way, a folder that this connection loaded is shown *)
(* as it is, however its LISTs and the events of its changes overtook each  *)
(* other.                                                                  *)
ShownAsItIs ==
  AtRest /\ fvOnline =>
    \A d \in sure : listed[d].status = "ready" => listed[d].has = content[d]

(* A folder is shown as being read only while its newest LIST is under way. *)
SpinnerIsTrue ==
  \A d \in Dirs : (listed[d].refreshing \/ listed[d].status = "loading") =>
    [dir |-> d, gen |-> listGen[d]] \in {[dir |-> a.dir, gen |-> a.gen] : a \in asks}

(* The explorer shows each folder as it is, or is about to.                *)
FolderViewSafe == ShownAsItIs /\ SpinnerIsTrue

(* What is asked of the server is shown in the end.                        *)
FolderViewSettles == []<>(\A d \in Dirs : ~listed[d].refreshing /\ listed[d].status # "loading")
=============================================================================
