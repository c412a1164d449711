----------------------------- MODULE ConflictSheet -----------------------------
(***************************************************************************)
(* The sheet that asks what to do with names that are taken                *)
(* (ConflictSheet.tsx) and the queue of those who ask (askConflicts() and   *)
(* resolveConflicts() of useTransferStore.ts).  Sends ask at the same time   *)
(* and wait; the sheet shows the first that asked, and a new sheet is made   *)
(* for the next.                                                            *)
(***************************************************************************)
EXTENDS Integers, Sequences, SequencesExt

CONSTANTS
  Askers,          \* sends that may ask
  MaxSheetActs     \* bound: what the user does in the sheets

ASSUME ConflictSheetAssumption == Askers \subseteq Nat \ {0} /\ MaxSheetActs \in Nat

VARIABLES
  csQueue,      \* conflictQueue
  csSheet,      \* the state of the sheet of the first, or NoSheet
  csSaved,      \* conflictChoice of the settings, "" when nothing is remembered
  csWaits,      \* [send -> state: "new", "asks", "told" or "dropped", and what it was told]
  csRound,      \* [send -> the verb of its answer, carried into its next round, or ""]
  csShown,      \* history: [send -> target -> what was chosen on screen for it]
  csActs

sheetVars == <<csQueue, csSheet, csSaved, csWaits, csRound, csShown, csActs>>

SheetDecisions == {"rename", "overwrite", "newer", "skip"}
(* What a send finds taken: files, a folder among files, folders only.       *)
Collisions == {<<[target |-> 1, folder |-> FALSE], [target |-> 2, folder |-> TRUE],
                 [target |-> 3, folder |-> FALSE]>>,
               <<[target |-> 4, folder |-> TRUE]>>}
NoSheet == [id |-> 0, index |-> 0, decisions |-> <<>>, applyAll |-> TRUE, choice |-> "newer",
            remember |-> FALSE, verb |-> "copy"]
Waiting(state) == [state |-> state, decisions |-> <<>>, verb |-> ""]

(* A folder is not overwritten.                                             *)
ForConflict(c, d) == IF c.folder /\ d \in {"overwrite", "newer"} THEN "rename" ELSE d

(* The sheet of the prompt that comes first, made anew for each.            *)
SheetOf(queue, saved) ==
  IF queue = <<>> THEN NoSheet
  ELSE [NoSheet EXCEPT !.id = Head(queue).id, !.index = 1, !.verb = Head(queue).verb,
                       !.choice = IF saved = "" THEN "newer" ELSE saved, !.remember = saved # ""]

SheetActs == csActs < MaxSheetActs /\ csActs' = csActs + 1
Prompt == Head(csQueue)
AtHand == Prompt.conflicts[csSheet.index]
SelectedChoice == ForConflict(AtHand, csSheet.choice)

-----------------------------------------------------------------------------
(* askConflicts(): a send that is on its second round asks with the verb it   *)
(* was given; else moving is for what stays on its server.                  *)
AskConflicts(s) ==
  /\ csWaits[s].state = "new"
  /\ \E direction \in {"upload", "move", "relay"}, conflicts \in Collisions :
       LET verb == IF csRound[s] # "" THEN csRound[s] ELSE IF direction = "move" THEN "move" ELSE "copy"
           queue == Append(csQueue, [id |-> s, direction |-> direction, conflicts |-> conflicts, verb |-> verb])
       IN  /\ csRound[s] # "" => direction = "upload"     \* same-side moves and copies ask once
           /\ csQueue' = queue
           /\ csSheet' = IF csQueue = <<>> THEN SheetOf(queue, csSaved) ELSE csSheet
  /\ csWaits' = [csWaits EXCEPT ![s] = Waiting("asks")]
  /\ UNCHANGED <<csSaved, csRound, csShown, csActs>>

(* resolveConflicts(): the send takes the answer up, and the next in the      *)
(* queue is shown, with what is remembered by then.                         *)
AnswerPrompt(answer, saved) ==
  LET queue == SelectSeq(csQueue, LAMBDA p : p.id # Prompt.id) IN
  /\ csQueue' = queue /\ csSaved' = saved
  /\ csSheet' = SheetOf(queue, saved)
  /\ csWaits' = [csWaits EXCEPT ![Prompt.id] = answer]

(* decide(): for this conflict, or for it and those after it.                *)
Decide(d, saved) ==
  LET n == Len(Prompt.conflicts)
      last == IF csSheet.applyAll THEN n ELSE csSheet.index
      chosen == SubSeq(Prompt.conflicts, csSheet.index, last)
      decided == FoldLeft(LAMBDA m, c : Append(SelectSeq(m, LAMBDA e : e[1] # c.target),
                                               <<c.target, ForConflict(c, d)>>),
                          csSheet.decisions, chosen)
  IN  IF last >= n
      THEN AnswerPrompt([state |-> "told", decisions |-> decided, verb |-> csSheet.verb], saved)
      ELSE /\ csSheet' = [csSheet EXCEPT !.decisions = decided, !.index = last + 1]
           /\ csSaved' = saved /\ UNCHANGED <<csQueue, csWaits>>
(* What the screen promised: the choice for each one it was said to be for.  *)
Promise(d) ==
  csShown' = [csShown EXCEPT ![Prompt.id] =
    [t \in DOMAIN @ |->
       IF \E i \in DOMAIN Prompt.conflicts :
             /\ Prompt.conflicts[i].target = t
             /\ i = csSheet.index \/ (csSheet.applyAll /\ i > csSheet.index)
       THEN d ELSE @[t]]]

Confirm ==
  /\ SheetActs /\ csQueue # <<>>
  /\ Decide(SelectedChoice, IF csSheet.remember THEN csSheet.choice ELSE "")
  /\ Promise(SelectedChoice) /\ UNCHANGED csRound
SkipByEscape ==
  /\ SheetActs /\ csQueue # <<>>
  /\ Decide("skip", csSaved)
  /\ Promise("skip") /\ UNCHANGED csRound
CancelSheet ==
  /\ SheetActs /\ csQueue # <<>>
  /\ AnswerPrompt(Waiting("dropped"), csSaved)
  /\ UNCHANGED <<csRound, csShown>>

(* The choices, of which a folder offers two, the boxes and the toggle.      *)
Choose ==
  /\ SheetActs /\ csQueue # <<>>
  /\ \E d \in IF AtHand.folder THEN {"rename", "skip"} ELSE SheetDecisions :
       /\ d # csSheet.choice
       /\ csSheet' = [csSheet EXCEPT !.choice = d]
  /\ UNCHANGED <<csQueue, csSaved, csWaits, csRound, csShown>>
ToggleRest ==
  /\ SheetActs /\ csQueue # <<>> /\ csSheet.index < Len(Prompt.conflicts)
  /\ csSheet' = [csSheet EXCEPT !.applyAll = ~@]
  /\ UNCHANGED <<csQueue, csSaved, csWaits, csRound, csShown>>
ToggleRemember ==
  /\ SheetActs /\ csQueue # <<>>
  /\ csSheet' = [csSheet EXCEPT !.remember = ~@]
  /\ UNCHANGED <<csQueue, csSaved, csWaits, csRound, csShown>>
PickVerb ==
  /\ SheetActs /\ csQueue # <<>> /\ Prompt.direction # "relay"
  /\ \E v \in {"copy", "move"} :
       /\ v # csSheet.verb /\ ~(v = "copy" /\ Prompt.direction = "move")
       /\ csSheet' = [csSheet EXCEPT !.verb = v]
  /\ UNCHANGED <<csQueue, csSaved, csWaits, csRound, csShown>>

(* The send goes on with its answer; names taken meanwhile make it ask again. *)
GoesOn(s) ==
  /\ csWaits[s].state = "told" /\ csRound[s] = ""
  /\ csRound' = [csRound EXCEPT ![s] = csWaits[s].verb]
  /\ csWaits' = [csWaits EXCEPT ![s] = Waiting("new")]
  /\ csShown' = [csShown EXCEPT ![s] = [t \in DOMAIN @ |-> ""]]
  /\ UNCHANGED <<csQueue, csSheet, csSaved, csActs>>

SheetsInit ==
  /\ csQueue = <<>> /\ csSheet = NoSheet /\ csSaved \in {"", "overwrite"}
  /\ csWaits = [s \in Askers |-> Waiting("new")] /\ csRound = [s \in Askers |-> ""]
  /\ csShown = [s \in Askers |-> [t \in 1..4 |-> ""]] /\ csActs = 0

SheetsNext ==
  \/ \E s \in Askers : AskConflicts(s) \/ GoesOn(s)
  \/ Confirm \/ SkipByEscape \/ CancelSheet \/ Choose \/ ToggleRest \/ ToggleRemember \/ PickVerb

SheetsSpec == SheetsInit /\ [][SheetsNext]_sheetVars

-----------------------------------------------------------------------------
HasAnswer(s) == csWaits[s].state = "told"
TargetsOf(conflicts) == {conflicts[i].target : i \in DOMAIN conflicts}
FolderTargets == {2, 4}

(* A send goes on with a decision for each name it asked about, the one on   *)
(* the screen when it was confirmed for that name; a folder is not          *)
(* overwritten, also where the choice was made on a file for the rest.       *)
DecidedAsShown ==
  \A s \in Askers : HasAnswer(s) =>
    LET ds == ToSet(csWaits[s].decisions) IN
    /\ \E conflicts \in Collisions : TargetsOf(conflicts) = {e[1] : e \in ds}
    /\ Len(csWaits[s].decisions) = Len(SetToSeq({e[1] : e \in ds}))
    /\ \A e \in ds : IF e[1] \in FolderTargets /\ csShown[s][e[1]] \in {"overwrite", "newer"}
                     THEN e[2] = "rename" ELSE e[2] = csShown[s][e[1]]

(* The sheet is that of the first who asked, each who asks is in the queue    *)
(* once and nobody waits without being in it; what is half decided is what   *)
(* comes before the conflict on the screen.                                *)
SheetOfFirst ==
  /\ IF csQueue = <<>> THEN csSheet = NoSheet ELSE csSheet.id = Prompt.id /\ csSheet.index \in DOMAIN Prompt.conflicts
  /\ \A s \in Askers : csWaits[s].state = "asks" <=> \E i \in DOMAIN csQueue : csQueue[i].id = s
  /\ \A i, j \in DOMAIN csQueue : csQueue[i].id = csQueue[j].id => i = j
  /\ csQueue # <<>> => {csSheet.decisions[i][1] : i \in DOMAIN csSheet.decisions}
                         = TargetsOf(SubSeq(Prompt.conflicts, 1, csSheet.index - 1))

(* What stays on its server is moved, not copied, whatever is toggled; a send *)
(* that asks again asks with the verb it was given.                        *)
VerbHolds ==
  \A i \in DOMAIN csQueue :
    /\ csQueue[i].direction = "move" => csQueue[i].verb = "move" /\ (i = 1 => csSheet.verb = "move")
    /\ csRound[csQueue[i].id] # "" => csQueue[i].verb = csRound[csQueue[i].id]

SheetsSafe == DecidedAsShown /\ SheetOfFirst /\ VerbHolds
=============================================================================
