------------------------------- MODULE FileOps -------------------------------
(***************************************************************************)
(* The long file operations: copying and moving on this computer           *)
(* (localFsHandlers.ts, local:copyFiles), and deleting here, on a server   *)
(* (ftpHandlers.ts, ftp:deleteBatch) or for an agent (agentOps.ts).  The   *)
(* sources are the file "lone" and the folder "top" with the file "near"   *)
(* and the folder "sub", which holds the file "deep".  Meanwhile somebody  *)
(* else may put the file "new" into one of the folders.                    *)
(***************************************************************************)
EXTENDS Naturals, Sequences, FiniteSets, Filtering

VARIABLES foKind,      \* which operation
          foThere,     \* entries that are there
          foNewIn,     \* the folder the new file is in, "none" before it comes
          foDest,      \* [source file -> what stands at its destination]
          foWork,      \* what is left of the list of files or targets
          foAt,        \* where the handler is
          foGone,      \* files moved so far, or entries deleted by the operation
          foStatus,    \* of its job
          foCancelled  \* the job is in the manager's set of cancelled ones

fileOpsVars == <<foKind, foThere, foNewIn, foDest, foWork, foAt, foGone, foStatus, foCancelled>>

Files == {"near", "deep", "lone"}
Above(e) == CASE e \in {"near", "sub"} -> "top" [] e = "deep" -> "sub" [] e = "new" -> foNewIn
              [] OTHER -> "none"
Inside(d) == {e \in foThere : Above(e) = d}
Below(d) == Inside(d) \union UNION {Inside(e) : e \in Inside(d)}
RemoveIfEmpty(d) == IF Inside(d) = {} THEN foThere \ {d} ELSE foThere

Copying == foKind \in {"copy", "move"}
Untouched == UNCHANGED <<foKind, foNewIn>>

-----------------------------------------------------------------------------
(* requestCancel takes effect on an active job only; the loops poll it.     *)
RequestCancel ==
  /\ foStatus = "active" /\ ~foCancelled
  /\ foCancelled' = TRUE
  /\ Untouched /\ UNCHANGED <<foThere, foDest, foWork, foAt, foGone, foStatus>>

NewFileArrives ==
  /\ foNewIn = "none" /\ foAt # "end"
  /\ foNewIn' \in foThere \intersect {"top", "sub"}
  /\ foThere' = foThere \union {"new"}
  /\ UNCHANGED <<foKind, foDest, foWork, foAt, foGone, foStatus, foCancelled>>

(* markCancelled takes the job out of the set of cancelled ones.            *)
JobEnds(status) ==
  /\ foStatus' = status
  /\ foCancelled' = (foCancelled /\ status # "cancelled")
  /\ foAt' = "tidy" /\ foWork' = <<>>

Goes(at, rest) == foAt' = at /\ foWork' = rest /\ UNCHANGED <<foStatus, foCancelled>>

CancelSeen ==
  /\ foAt = "next" /\ foWork # <<>> /\ foCancelled
  /\ JobEnds("cancelled")
  /\ Untouched /\ UNCHANGED <<foThere, foDest, foGone>>

(* copyFiles, deleteBatch and startDelete; only the last looks once more after its last target.  *)
WorkDone ==
  /\ foAt = "next" /\ foWork = <<>>
  /\ JobEnds(IF foKind = "agent" /\ foCancelled THEN "cancelled" ELSE "completed")
  /\ Untouched /\ UNCHANGED <<foThere, foDest, foGone>>

-----------------------------------------------------------------------------
(* local:copyFiles                                                          *)

Collected ==
  /\ foAt = "begin"
  /\ foWork' = IF Copying THEN Only(<<"deep", "near", "new", "lone">>, foThere)
               ELSE <<"top", "lone">>
  /\ foAt' = "next" /\ foStatus' = "active"
  /\ Untouched /\ UNCHANGED <<foThere, foDest, foGone, foCancelled>>

(* What the handler makes of an error: the end that was asked for.          *)
Broken == JobEnds(IF foCancelled THEN "cancelled" ELSE "failed")

(* The write stream empties what stands at the destination.                 *)
CopyOpens ==
  /\ Copying /\ foAt = "next" /\ foWork # <<>> /\ ~foCancelled
  /\ foDest' = [foDest EXCEPT ![Head(foWork)] = "partial"]
  /\ Goes("stream", foWork)
  /\ Untouched /\ UNCHANGED <<foThere, foGone>>

FolderNotMade ==
  /\ Copying /\ foAt = "next" /\ foWork # <<>> /\ ~foCancelled
  /\ Broken
  /\ Untouched /\ UNCHANGED <<foThere, foDest, foGone>>

CopyFinishes ==
  /\ foAt = "stream"
  /\ foDest' = [foDest EXCEPT ![Head(foWork)] = "whole"]
  /\ IF foKind = "move" THEN Goes("original", foWork) ELSE Goes("next", Tail(foWork))
  /\ Untouched /\ UNCHANGED <<foThere, foGone>>

(* A chunk finds the job cancelled, or a stream fails: the file is closed and the partial copy removed,
   unless that fails too, which nobody is told.                                                       *)
CopyBreaks ==
  /\ foAt = "stream"
  /\ \E left \in {"none", "stuck"} : foDest' = [foDest EXCEPT ![Head(foWork)] = left]
  /\ Broken
  /\ Untouched /\ UNCHANGED <<foThere, foGone>>

OriginalGoes ==
  /\ foAt = "original"
  /\ foThere' = foThere \ {Head(foWork)}
  /\ foGone' = foGone \union {Head(foWork)}
  /\ Goes("next", Tail(foWork))
  /\ Untouched /\ UNCHANGED foDest

OriginalStays ==
  /\ foAt = "original"
  /\ Broken
  /\ Untouched /\ UNCHANGED <<foThere, foDest, foGone>>

(* removeEmptiedDirs: the folders above what was moved, the deepest first; one rmdir at a time.        *)
Emptied == {d \in {"top", "sub"} : \E f \in foGone : Above(f) = d \/ (Above(f) # "none" /\ Above(Above(f)) = d)}
Tidies ==
  /\ foAt \in {"tidy", "tidy top"}
  /\ IF ~Copying \/ Emptied = {} THEN foAt' = "end" /\ UNCHANGED foThere
     ELSE IF foAt = "tidy" /\ "sub" \in Emptied THEN foAt' = "tidy top" /\ foThere' = RemoveIfEmpty("sub")
     ELSE foAt' = "end" /\ foThere' = RemoveIfEmpty("top")
  /\ Untouched /\ UNCHANGED <<foDest, foWork, foGone, foStatus, foCancelled>>

-----------------------------------------------------------------------------
(* Deleting.  On this computer a folder goes with all that is below it.     *)

TargetGoes ==
  /\ foAt = "next" /\ foWork # <<>> /\ ~foCancelled /\ ~Copying
  /\ foKind # "local" => Head(foWork) # "top"
  /\ LET gone == {Head(foWork)} \union Below(Head(foWork))
     IN  foThere' = foThere \ gone /\ foGone' = foGone \union gone
  /\ Goes("next", Tail(foWork))
  /\ Untouched /\ UNCHANGED foDest

(* removeRemoteDirRecursive: everything is listed, then the files go and the folders, deepest first. *)
ListedBelow == Only(<<"deep", "near", "new", "sub">>, Below("top")) \o <<"top">>

FolderListed ==
  /\ foAt = "next" /\ foWork # <<>> /\ ~foCancelled
  /\ foKind \in {"ftp", "agent"} /\ Head(foWork) = "top"
  /\ Goes("inside", ListedBelow \o Tail(foWork))
  /\ Untouched /\ UNCHANGED <<foThere, foDest, foGone>>

(* RMD of a folder that is not empty is refused, and so is what is not there.                        *)
EntryGoes ==
  /\ foAt = "inside" /\ ~(foKind = "agent" /\ foCancelled)
  /\ Head(foWork) \in foThere /\ Inside(Head(foWork)) = {}
  /\ foThere' = foThere \ {Head(foWork)}
  /\ foGone' = foGone \union {Head(foWork)}
  /\ Goes(IF Head(foWork) = "top" THEN "next" ELSE "inside", Tail(foWork))
  /\ Untouched /\ UNCHANGED foDest

(* Only the agent's deletion looks for a cancel within a folder; it leaves the rest and ends cancelled. *)
CancelInside ==
  /\ foAt = "inside" /\ foKind = "agent" /\ foCancelled
  /\ JobEnds("cancelled")
  /\ Untouched /\ UNCHANGED <<foThere, foDest, foGone>>

(* A command fails: the job fails, a cancel or not.                                                     *)
DeleteFails ==
  /\ ~Copying /\ foWork # <<>>
  /\ foAt = "inside" \/ (foAt = "next" /\ ~foCancelled)
  /\ JobEnds("failed")
  /\ Untouched /\ UNCHANGED <<foThere, foDest, foGone>>

-----------------------------------------------------------------------------
FileOpsInit ==
  /\ foKind \in {"copy", "move", "local", "ftp", "agent"}
  /\ foThere = {"near", "deep", "lone", "top", "sub"}
  /\ foNewIn = "none"
  /\ foDest \in [Files \union {"new"} -> {"none", "old"}]
  /\ foWork = <<>>
  /\ foAt = "begin"
  /\ foGone = {}
  /\ foStatus = "none"
  /\ foCancelled = FALSE

FileOpsProgress ==
  \/ Collected \/ CancelSeen \/ WorkDone
  \/ CopyOpens \/ FolderNotMade \/ CopyFinishes \/ CopyBreaks \/ OriginalGoes \/ OriginalStays \/ Tidies
  \/ TargetGoes \/ FolderListed \/ EntryGoes \/ CancelInside \/ DeleteFails

FileOpsNext == FileOpsProgress \/ RequestCancel \/ NewFileArrives

FileOpsSpec == FileOpsInit /\ [][FileOpsNext]_fileOpsVars /\ WF_fileOpsVars(FileOpsProgress)

-----------------------------------------------------------------------------
FileOpsTypeOK ==
  /\ foThere \subseteq Files \union {"new", "top", "sub"}
  /\ foDest \in [Files \union {"new"} -> {"none", "old", "partial", "stuck", "whole"}]
  /\ foStatus \in {"none", "active", "completed", "cancelled", "failed"}
  /\ foAt \in {"begin", "next", "stream", "original", "inside", "tidy", "tidy top", "end"}

(* Copying or moving, with cancels and failures anywhere, a source file is where it was or whole at its
   destination (F1: what has not been copied stays).                                                 *)
MoveLosesNothing ==
  /\ Copying => \A f \in Files : f \in foThere \/ foDest[f] = "whole"
  /\ foKind = "copy" => Files \subseteq foThere

(* Only what the operation was about disappears: a file somebody puts into a folder while it is moved or
   deleted on a server stays, with the folders above it (F2, F16).  The recursive removal on this
   computer takes what it finds.                                                                      *)
StrangersStay ==
  (foKind # "local" /\ foNewIn # "none" /\ "new" \notin foGone) =>
    {"new", foNewIn, Above(foNewIn)} \ {"none"} \subseteq foThere
NoOrphans == \A e \in foThere : Above(e) = "none" \/ Above(e) \in foThere

(* No partial copy is left that could be removed.                                                    *)
NoPartialLeft ==
  foAt \in {"next", "original", "tidy", "tidy top", "end"} => \A f \in DOMAIN foDest : foDest[f] # "partial"

(* An end says what happened: completed is all of it, cancelled was asked for, and of a move that went well
   nothing is left but what others put there.                                                         *)
EndsTruthfully ==
  /\ (foAt = "end" /\ foStatus = "completed") =>
       IF Copying THEN /\ \A f \in Files : foDest[f] = "whole"
                       /\ foKind = "move" => foThere \subseteq {"new", foNewIn, Above(foNewIn)}
       ELSE {"lone", "top"} \intersect foThere = {}
  /\ foStatus = "cancelled" => ~foCancelled

FileOpsSafe ==
  FileOpsTypeOK /\ MoveLosesNothing /\ StrangersStay /\ NoOrphans /\ NoPartialLeft /\ EndsTruthfully

FileOpsSettle == []<>(foAt = "end")
=============================================================================
