------------------------------ MODULE MoveSends ------------------------------
(***************************************************************************)
(* One send of the window, cut into parts (sendItems.ts, runParts): one    *)
(* transfer per server (useTransferStore.ts, send) and a copy on this      *)
(* computer (copyLocal).  The parts share a verb that any conflict sheet   *)
(* may set to "copy" or "move"; a move deletes the originals of a batch    *)
(* once it has been judged complete (runMoveCleanup).  The main process    *)
(* answers each transfer:send and reports its jobs by updates of its own;  *)
(* either may come first.  Batches are numbered and job j belongs to batch *)
(* j \div 10; each batch has the queue of its server.                      *)
(***************************************************************************)
EXTENDS Naturals, Sequences, FiniteSets, SequencesExt, Filtering

CONSTANTS MoveBatches,      \* the transfers of the send
          MoveJobs,         \* their files
          MaxMoveRetries,   \* bound: retries by the user
          MaxSheets         \* bound: conflict sheets of the send

ASSUME MoveAssumption == /\ MoveBatches \subseteq Nat \ {0}
                         /\ MoveJobs \subseteq Nat
                         /\ \A j \in MoveJobs : j \div 10 \in MoveBatches
                         /\ MaxMoveRetries \in Nat /\ MaxSheets \in Nat

VARIABLES mvPart,     \* [batch -> where its send() stands]
          mvSkipped,  \* batches with a file left out (conflict answered "skip", or unusable)
          mvMain,     \* [job -> its status in the main process]
          mvListed,   \* jobs the main process lists
          mvView,     \* [job -> its status in the window, "none" when not there]
          mvVerb,     \* ref.verb
          mvOpen,     \* parts whose verb is still open: ref.open, by part
          mvWakes,    \* idle callbacks not run yet
          mvRegs,     \* moveCleanups
          mvSeen,     \* registrations with seen set
          mvRun,      \* [batch -> runMoveCleanup awaiting the deletion of its originals]
          mvDeletes,  \* [batch -> deletions asked for]
          mvLocal,    \* the copy on this computer
          mvRetries,  \* retries so far (bound)
          mvSheets    \* sheets so far (bound)

moveVars == <<mvPart, mvSkipped, mvMain, mvListed, mvView, mvVerb, mvOpen, mvWakes, mvRegs, mvSeen,
              mvRun, mvDeletes, mvLocal, mvRetries, mvSheets>>

Verbs == {"copy", "move"}
FilesOf(b) == {j \in MoveJobs : j \div 10 = b}
LocalPart == 0       \* beside the batches, in mvOpen
NoRun == [on |-> FALSE]

(* What a settled verb wakes runs before anything else in the window.       *)
LocalGoes == mvLocal = "waiting" /\ mvOpen = {}
Idle == mvWakes = 0 /\ ~LocalGoes

-----------------------------------------------------------------------------
(* runMoveCleanup                                                           *)

Here(b, jobs) == {j \in FilesOf(b) : jobs[j] # "none"}
Is(b, jobs, status) == \E j \in FilesOf(b) : jobs[j] = status

(* Fault: a batch is judged with the failed and cancelled files left aside. *)
VerdictOfDone(b, jobs, left, seen) ==
  IF seen /\ Here(b, left) = {} THEN "drop"
  ELSE IF mvOpen # {} \/ Here(b, jobs) = {} \/ Is(b, jobs, "live") THEN "keep"
  ELSE IF mvVerb = "copy" \/ b \in mvSkipped THEN "drop"
  ELSE "delete"

(* The fate of a registration, from the jobs before and after the removals. *)
Verdict(b, jobs, left, seen) ==
  IF seen /\ Here(b, left) = {} THEN "drop"
  ELSE IF mvOpen # {} \/ Here(b, jobs) = {} \/ Is(b, jobs, "live") THEN "keep"
  ELSE IF Is(b, jobs, "failed") /\ ~Is(b, jobs, "cancelled") THEN "keep"
  ELSE IF mvVerb = "copy" \/ b \in mvSkipped \/ Is(b, jobs, "cancelled") THEN "drop"
  ELSE "delete"

(* A batch once seen in the window stays marked as seen.                    *)
SeenIn(b, jobs) == b \in mvSeen \/ Here(b, jobs) # {}
VerdictOn(b, jobs, left) == Verdict(b, jobs, left, SeenIn(b, jobs))

(* The loop as far as its last-th registration; one that an overlapping run *)
(* has taken out meanwhile is passed over.                                  *)
JudgeUpTo(todo, last, jobs, left) ==
  LET judged == {todo[i] : i \in 1..last} \cap ToSet(mvRegs)
      kept   == {b \in judged : VerdictOn(b, jobs, left) = "keep"}
  IN  /\ mvRegs' = Only(mvRegs, ToSet(mvRegs) \ (judged \ kept))
      /\ mvSeen' = (mvSeen \ judged) \union {b \in kept : SeenIn(b, jobs)}

(* The loop up to its first await, the first deletion; run is mvRun without *)
(* the caller's entry.                                                      *)
Judge(todo, jobs, left, run) ==
  LET deletions == {i \in 1..Len(todo) : todo[i] \in ToSet(mvRegs) /\ VerdictOn(todo[i], jobs, left) = "delete"} IN
  \/ /\ deletions = {}
     /\ JudgeUpTo(todo, Len(todo), jobs, left)
     /\ mvRun' = run /\ UNCHANGED mvDeletes
  \/ \E i \in deletions :
       /\ \A k \in deletions : i <= k
       /\ JudgeUpTo(todo, i, jobs, left)
       /\ mvRun' = [run EXCEPT ![todo[i]] = [on |-> TRUE, rest |-> SubSeq(todo, i + 1, Len(todo)),
                                              jobs |-> jobs, left |-> left]]
       /\ mvDeletes' = [mvDeletes EXCEPT ![todo[i]] = @ + 1]

(* verbSettled wakes each registration for a run over the jobs of that moment. *)
Wake ==
  /\ mvWakes > 0
  /\ mvWakes' = mvWakes - 1
  /\ Judge(mvRegs, mvView, mvView, mvRun)
  /\ UNCHANGED <<mvPart, mvSkipped, mvMain, mvListed, mvView, mvVerb, mvOpen, mvLocal,
                 mvRetries, mvSheets>>

(* deleteBatch answers, its failure is only shown: the loop goes on with the jobs it began with. *)
OriginalsDeleted(b) ==
  /\ Idle /\ mvRun[b].on
  /\ Judge(mvRun[b].rest, mvRun[b].jobs, mvRun[b].left, [mvRun EXCEPT ![b] = NoRun])
  /\ UNCHANGED <<mvPart, mvSkipped, mvMain, mvListed, mvView, mvVerb, mvOpen, mvWakes, mvLocal,
                 mvRetries, mvSheets>>

-----------------------------------------------------------------------------
(* send()                                                                   *)

(* releaseVerb; the last part to settle wakes the registrations.  Fault: nobody is woken. *)
ReleaseUnheard(p) == mvOpen' = mvOpen \ {p} /\ mvWakes' = 0

Release(p) ==
  /\ mvOpen' = mvOpen \ {p}
  /\ mvWakes' = IF mvOpen = {p} THEN Len(mvRegs') ELSE 0

(* transfer:send plans anew and puts the batch in the queue of its server; the answer follows. *)
BatchQueued(b) ==
  /\ Idle /\ mvPart[b] = "asking"
  /\ mvPart' = [mvPart EXCEPT ![b] = "accepted"]
  /\ mvMain' = [j \in MoveJobs |-> IF j \in FilesOf(b) THEN "live" ELSE mvMain[j]]
  /\ mvListed' = mvListed \union FilesOf(b)
  /\ mvSkipped' \in {mvSkipped, mvSkipped \union {b}}
  /\ UNCHANGED <<mvView, mvVerb, mvOpen, mvWakes, mvRegs, mvSeen, mvRun, mvDeletes, mvLocal,
                 mvRetries, mvSheets>>

BatchAccepted(b) ==
  /\ Idle /\ mvPart[b] = "accepted"
  /\ mvPart' = [mvPart EXCEPT ![b] = "sent"]
  /\ mvRegs' = Append(mvRegs, b)
  /\ Release(b)
  /\ UNCHANGED <<mvSkipped, mvMain, mvListed, mvView, mvVerb, mvSeen, mvRun, mvDeletes, mvLocal,
                 mvRetries, mvSheets>>

(* It answers with conflicts that have no decision yet: the sheet asks. *)
SheetShown(b) ==
  /\ Idle /\ mvPart[b] = "asking" /\ mvSheets < MaxSheets
  /\ mvPart' = [mvPart EXCEPT ![b] = "sheet"]
  /\ mvSheets' = mvSheets + 1
  /\ UNCHANGED <<mvSkipped, mvMain, mvListed, mvView, mvVerb, mvOpen, mvWakes, mvRegs, mvSeen,
                 mvRun, mvDeletes, mvLocal, mvRetries>>

SheetAnswered(b) ==
  /\ Idle /\ mvPart[b] = "sheet"
  /\ mvVerb' \in Verbs
  /\ mvPart' = [mvPart EXCEPT ![b] = "asking"]
  /\ UNCHANGED <<mvSkipped, mvMain, mvListed, mvView, mvOpen, mvWakes, mvRegs, mvSeen, mvRun,
                 mvDeletes, mvLocal, mvRetries, mvSheets>>

(* It failed, or the user closed the sheet: this part sends nothing. *)
SendGivenUp(b) ==
  /\ Idle /\ mvPart[b] \in {"asking", "sheet"}
  /\ mvPart' = [mvPart EXCEPT ![b] = "quit"]
  /\ mvRegs' = mvRegs
  /\ Release(b)
  /\ UNCHANGED <<mvSkipped, mvMain, mvListed, mvView, mvVerb, mvSeen, mvRun, mvDeletes, mvLocal,
                 mvRetries, mvSheets>>

-----------------------------------------------------------------------------
(* copyLocal: holds the verb until its own conflicts are answered, waits for the other parts, *)
(* and then copies or moves with the verb of that moment.                                      *)
LocalAsked ==
  /\ Idle /\ mvLocal = "asking"
  /\ \/ mvLocal' = "waiting" /\ UNCHANGED mvVerb                \* no conflicts
     \/ mvLocal' = "waiting" /\ mvVerb' \in Verbs               \* answered
     \/ mvLocal' = "quit" /\ UNCHANGED mvVerb                   \* dismissed, or the folder unread
  /\ mvRegs' = mvRegs
  /\ Release(LocalPart)
  /\ UNCHANGED <<mvPart, mvSkipped, mvMain, mvListed, mvView, mvSeen, mvRun, mvDeletes,
                 mvRetries, mvSheets>>

LocalCopies ==
  /\ LocalGoes
  /\ mvLocal' = IF mvVerb = "move" THEN "moved" ELSE "copied"
  /\ UNCHANGED <<mvPart, mvSkipped, mvMain, mvListed, mvView, mvVerb, mvOpen, mvWakes, mvRegs,
                 mvSeen, mvRun, mvDeletes, mvRetries, mvSheets>>

-----------------------------------------------------------------------------
(* The main process                                                         *)

MainOnly == UNCHANGED <<mvPart, mvSkipped, mvView, mvVerb, mvOpen, mvWakes, mvRegs, mvSeen, mvRun,
                        mvDeletes, mvLocal, mvSheets>>

JobEnds(j) ==
  /\ Idle /\ j \in mvListed /\ mvMain[j] = "live"
  /\ \E end \in {"completed", "failed", "cancelled"} : mvMain' = [mvMain EXCEPT ![j] = end]
  /\ UNCHANGED <<mvListed, mvRetries>> /\ MainOnly

JobRetried(j) ==
  /\ Idle /\ mvRetries < MaxMoveRetries
  /\ j \in mvListed /\ mvMain[j] = "failed" /\ mvView[j] = "failed"
  /\ mvMain' = [mvMain EXCEPT ![j] = "live"]
  /\ mvRetries' = mvRetries + 1
  /\ UNCHANGED mvListed /\ MainOnly

(* clearCompleted keeps a batch together while one of its jobs is live.     *)
Clearable == {j \in mvListed : \A k \in FilesOf(j \div 10) : mvMain[k] # "live"}

ClearCompleted ==
  /\ Idle /\ Clearable # {}
  /\ mvListed' = mvListed \ Clearable
  /\ UNCHANGED <<mvMain, mvRetries>> /\ MainOnly

(* A queue reports what changed, and the window applies it.                 *)
Reported(b) == [j \in MoveJobs |-> IF j \in FilesOf(b) \intersect mvListed THEN mvMain[j] ELSE mvView[j]]
Remaining(b) == [j \in MoveJobs |-> IF j \in FilesOf(b) \ mvListed THEN "none" ELSE Reported(b)[j]]

Update(b) ==
  /\ Idle
  /\ Remaining(b) # mvView
  /\ mvView' = Remaining(b)
  /\ Judge(mvRegs, Reported(b), Remaining(b), mvRun)
  /\ UNCHANGED <<mvPart, mvSkipped, mvMain, mvListed, mvVerb, mvOpen, mvWakes, mvLocal,
                 mvRetries, mvSheets>>

-----------------------------------------------------------------------------
MoveInit ==
  /\ mvPart = [b \in MoveBatches |-> "asking"]
  /\ mvSkipped = {}
  /\ mvMain = [j \in MoveJobs |-> "none"]
  /\ mvListed = {}
  /\ mvView = [j \in MoveJobs |-> "none"]
  /\ mvVerb = "copy"
  /\ mvOpen = MoveBatches \union {LocalPart}
  /\ mvWakes = 0
  /\ mvRegs = <<>>
  /\ mvSeen = {}
  /\ mvRun = [b \in MoveBatches |-> NoRun]
  /\ mvDeletes = [b \in MoveBatches |-> 0]
  /\ mvLocal = "asking"
  /\ mvRetries = 0
  /\ mvSheets = 0

MoveProgress ==
  \/ Wake \/ LocalAsked \/ LocalCopies
  \/ \E b \in MoveBatches : \/ BatchQueued(b) \/ BatchAccepted(b) \/ SendGivenUp(b)
                            \/ OriginalsDeleted(b) \/ Update(b)
  \/ \E j \in MoveJobs : JobEnds(j)

MoveNext ==
  \/ MoveProgress
  \/ \E b \in MoveBatches : SheetShown(b) \/ SheetAnswered(b)
  \/ \E j \in MoveJobs : JobRetried(j)
  \/ ClearCompleted

MoveSpec == MoveInit /\ [][MoveNext]_moveVars /\ WF_moveVars(MoveProgress)

-----------------------------------------------------------------------------
MoveTypeOK ==
  /\ mvPart \in [MoveBatches -> {"asking", "sheet", "accepted", "sent", "quit"}]
  /\ mvMain \in [MoveJobs -> {"none", "live", "completed", "failed", "cancelled"}]
  /\ mvView \in [MoveJobs -> {"none", "live", "completed", "failed", "cancelled"}]
  /\ mvListed \subseteq MoveJobs
  /\ mvSkipped \subseteq MoveBatches /\ mvSeen \subseteq MoveBatches
  /\ ToSet(mvRegs) \subseteq MoveBatches /\ IsInjective(mvRegs)
  /\ mvVerb \in Verbs /\ mvOpen \subseteq MoveBatches \union {LocalPart}
  /\ mvLocal \in {"asking", "waiting", "copied", "moved", "quit"}

(* An original is deleted, or its deletion under way, only when every file of its batch has been
   transferred whole, none was left out, and the send is a move (useTransferStore.ts:200-204).   *)
Deleting(b) == mvRun[b].on \/ mvDeletes[b] > 0
MoveIsWhole ==
  \A b \in MoveBatches : Deleting(b) =>
    /\ \A j \in FilesOf(b) : mvMain[j] = "completed"
    /\ b \notin mvSkipped

(* All parts of one send act on the same verb, the one the last sheet left (V3, F3).              *)
OneVerb ==
  /\ (\E b \in MoveBatches : Deleting(b)) => /\ mvVerb = "move" /\ mvOpen = {}
                                             /\ mvLocal # "copied"
  /\ mvLocal = "moved" => mvVerb = "move"

(* Overlapping runs never delete the originals of a batch twice (V9, F4).                         *)
DeletedOnce == \A b \in MoveBatches : mvDeletes[b] <= 1

MoveSafe == MoveTypeOK /\ MoveIsWhole /\ OneVerb /\ DeletedOnce

(* Once nothing more is done, a registration left over waits for the retry of a failed job (or its
   jobs were cleared before the window was told of them).                                         *)
MoveSettles == <>[](\A i \in DOMAIN mvRegs : \/ Is(mvRegs[i], mvView, "failed")
                                              \/ Here(mvRegs[i], mvView) = {})

(* A registration is given up as gone only when its jobs are gone from the list or one of them was
   cancelled, as the comment of runMoveCleanup says (useTransferStore.ts:201-202, :216).           *)
GoneMeansGone ==
  [][\A b \in MoveBatches :
       (Contains(mvRegs, b) /\ ~Contains(mvRegs', b) /\ mvDeletes'[b] = 0 /\ mvVerb = "move"
          /\ b \notin mvSkipped)
       => (Here(b, mvView') = {} \/ Is(b, mvView', "cancelled"))]_moveVars

-----------------------------------------------------------------------------
(***************************************************************************)
(* Moves within a server (remoteDrop.ts; the move half of sendItems.ts):    *)
(* one RNFR/RNTO after the other.  A file that the user wants replaced is   *)
(* first renamed aside and deleted last.  Two moves into one folder may     *)
(* run at a time, and the connection may be lost before or after any        *)
(* command takes effect.                                                   *)
(***************************************************************************)
CONSTANTS MoveRuns   \* calls of moveRemoteFiles(), each from its own folder

ASSUME RemoteMovesAssumption == MoveRuns \subseteq 1..9 /\ IsFiniteSet(MoveRuns)

VARIABLES
  rmFiles,       \* the server: what is where; 0 where nothing is
  rmOverwrites,  \* RNTO onto an existing name replaces it
  rmUp,          \* the connection
  rmRun,         \* per run [at, plan, left, name, replace, wrong, told]
  rmDeleted,     \* history: what was deleted
  rmClobbered,   \* history: what a rename replaced
  rmOverlap      \* history: a move was planned while another was under way

renameVars == <<rmFiles, rmOverwrites, rmUp, rmRun, rmDeleted, rmClobbered, rmOverlap>>

(* ServerNames: a name in the folder of a run, in the target folder, or aside.    *)
Names == {1, 2}
From(r, n) == <<"from", r, n>>
ToName(n) == <<"target", 0, n>>
Aside(r, n) == <<"aside", r, n>>
ServerNames == {From(r, n) : r \in MoveRuns, n \in Names} \union {ToName(n) : n \in Names}
          \union {Aside(r, n) : r \in MoveRuns, n \in Names}
FileAt(p) == rmFiles[p]
OnServer(c) == \E p \in ServerNames : FileAt(p) = c

(* ftp:rename: done, or refused, or cut off on its way there or back.       *)
Does(from, to) == /\ rmFiles' = [rmFiles EXCEPT ![to] = FileAt(from), ![from] = 0]
                  /\ rmClobbered' = IF FileAt(to) = 0 THEN rmClobbered ELSE rmClobbered \union {FileAt(to)}
Possible(from, to) == rmUp /\ FileAt(from) # 0 /\ (FileAt(to) = 0 \/ rmOverwrites)
RenameDone(r, from, to, run) ==
  /\ Possible(from, to) /\ Does(from, to) /\ UNCHANGED rmUp
  /\ rmRun' = [rmRun EXCEPT ![r] = run]
Fails(r, from, to, run) ==
  /\ \/ UNCHANGED <<rmFiles, rmClobbered, rmUp>>
     \/ rmUp' = FALSE /\ (UNCHANGED <<rmFiles, rmClobbered>> \/ (Possible(from, to) /\ Does(from, to)))
  /\ rmRun' = [rmRun EXCEPT ![r] = run]
PlanKept == UNCHANGED <<rmOverwrites, rmDeleted, rmOverlap>>

(* sameSideOps() saw the names that are taken, the user chose which of those *)
(* to replace and leaves the others; planRemoteMoves().                     *)
MovesPlanned(r) ==
  /\ rmRun[r].at = "none"
  /\ rmOverlap' = (rmOverlap \/ \E s \in MoveRuns : rmRun[s].at \notin {"none", "ended"})
  /\ LET taken == {n \in Names : FileAt(ToName(n)) # 0} IN
     \E replace \in SUBSET taken :
     LET plan == (Names \ taken) \union replace IN
       rmRun' = [rmRun EXCEPT ![r] = [@ EXCEPT !.at = "next", !.replace = replace, !.plan = plan, !.left = plan]]
  /\ UNCHANGED <<rmFiles, rmOverwrites, rmUp, rmDeleted, rmClobbered>>

Run(r, at) == [rmRun[r] EXCEPT !.at = at]
Wrong(r, told) == [rmRun[r] EXCEPT !.at = "next", !.wrong = TRUE,
                     !.told = IF told THEN @ \union {Aside(r, rmRun[r].name)} ELSE @]

Taking(r, n) == [rmRun[r] EXCEPT !.name = n, !.left = @ \ {n},
                   !.at = IF n \in rmRun[r].replace THEN "park" ELSE "plain"]

NextMove(r) ==
  /\ rmRun[r].at = "next"
  /\ IF rmRun[r].left = {} THEN rmRun' = [rmRun EXCEPT ![r] = Run(r, "ended")]
     ELSE LET n == CHOOSE n \in rmRun[r].left : \A m \in rmRun[r].left : n <= m IN
          rmRun' = [rmRun EXCEPT ![r] = Taking(r, n)]
  /\ PlanKept /\ UNCHANGED <<rmFiles, rmUp, rmClobbered>>

(* rename() of a file whose name was free, and the three commands of         *)
(* replaceRemote(): aside, move, and back when the move failed.             *)
RenameStep(r, at, from, to, fine, failed) ==
  /\ rmRun[r].at = at
  /\ RenameDone(r, from, to, fine) \/ Fails(r, from, to, failed)
  /\ PlanKept
MoveStep(r) ==
  LET n == rmRun[r].name IN
  \/ RenameStep(r, "plain", From(r, n), ToName(n), Run(r, "next"), Wrong(r, FALSE))
  \/ RenameStep(r, "park", ToName(n), Aside(r, n), Run(r, "move"), Wrong(r, FALSE))
  \/ RenameStep(r, "move", From(r, n), ToName(n), Run(r, "drop"), Run(r, "back"))
  \/ RenameStep(r, "back", Aside(r, n), ToName(n), Wrong(r, FALSE), Wrong(r, TRUE))

AsideDeleted(r) ==
  /\ rmRun[r].at = "drop"
  /\ LET a == Aside(r, rmRun[r].name)
         deletes == rmUp /\ rmFiles' = [rmFiles EXCEPT ![a] = 0] /\ rmDeleted' = rmDeleted \union {FileAt(a)}
         spares == UNCHANGED <<rmFiles, rmDeleted>> IN
     \/ deletes /\ UNCHANGED rmUp /\ rmRun' = [rmRun EXCEPT ![r] = Run(r, "next")]
     \/ /\ (deletes \/ spares) /\ rmUp' = FALSE
        /\ rmRun' = [rmRun EXCEPT ![r] = Wrong(r, FALSE)]
     \/ spares /\ UNCHANGED rmUp /\ rmRun' = [rmRun EXCEPT ![r] = Wrong(r, FALSE)]
  /\ UNCHANGED <<rmOverwrites, rmClobbered, rmOverlap>>

MovesInit ==
  /\ rmFiles = [p \in ServerNames |-> CASE p[1] = "from" -> 10 * p[2] + p[3]
                                    [] p = ToName(1) -> 1 [] OTHER -> 0]
  /\ rmOverwrites \in BOOLEAN /\ rmUp = TRUE
  /\ rmRun = [r \in MoveRuns |-> [at |-> "none", plan |-> {}, left |-> {}, name |-> 0, replace |-> {}, wrong |-> FALSE, told |-> {}]]
  /\ rmDeleted = {} /\ rmClobbered = {} /\ rmOverlap = FALSE

MovesNext == \E r \in MoveRuns : MovesPlanned(r) \/ NextMove(r) \/ MoveStep(r) \/ AsideDeleted(r)

MovesSpec == MovesInit /\ [][MovesNext]_renameVars

-----------------------------------------------------------------------------
Contents == {1} \union {10 * r + n : r \in MoveRuns, n \in Names}
MovesTypeOK == rmDeleted \union rmClobbered \subseteq Contents /\ (rmClobbered # {} => rmOverwrites)

(* However commands fail and the connection is cut, nothing is lost but the *)
(* file that was put aside, and that only after its successor had come.     *)
(* Moves that do not overlap replace nothing by a rename.                   *)
NoFileLost ==
  /\ \A c \in Contents : OnServer(c) \/ c \in rmDeleted \union rmClobbered
  /\ rmClobbered # {} => rmOverlap
  /\ rmDeleted # {} => rmOverlap \/ \E p \in ServerNames : p[1] # "from" /\ FileAt(p) > 10

(* What is left aside although its successor did not come is told of, or    *)
(* the connection was lost.                                                *)
AsideTold ==
  \A r \in MoveRuns, n \in Names :
    rmRun[r].at = "ended" /\ FileAt(Aside(r, n)) # 0 /\ rmUp => Aside(r, n) \in rmRun[r].told \/ FileAt(From(r, n)) = 0

(* A move that reports no error moved all that it planned.                  *)
MovedAll ==
  \A r \in MoveRuns : rmRun[r].at = "ended" /\ ~rmRun[r].wrong => \A n \in rmRun[r].plan : FileAt(From(r, n)) = 0

MovesSafe == MovesTypeOK /\ NoFileLost /\ AsideTold /\ MovedAll

(* A send neither replaces nor deletes what has not come whole elsewhere,   *)
(* be it copied by transfers or moved by renames (sendItems.ts,             *)
(* remoteDrop.ts).                                                          *)
SendSafe == MoveSafe /\ MovesSafe
=============================================================================
