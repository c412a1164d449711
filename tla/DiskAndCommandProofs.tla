------------------------ MODULE DiskAndCommandProofs ------------------------
(***************************************************************************)
(* The theorems about what this computer keeps and what agents ask for.    *)
(* FoInv, McInv, SwInv and DbInv are the inductive invariants of the long  *)
(* file operations, the caches, the slabs of a download and the database;  *)
(* ToolInv, RdInv and LnInv those of the agents' tools, of what they read, *)
(* and of the command line.  The last two theorems are that all of it      *)
(* holds whichever service runs.                                           *)
(***************************************************************************)
EXTENDS MCServices

-----------------------------------------------------------------------------
(* The long file operations (FileOps).                                     *)

FoNames == Files \cup {"new", "sub", "top"}
Under == {"deep", "near", "new", "sub"}
FoOver == {"tidy", "tidy top", "end"}

FoTypes ==
  /\ FileOpsTypeOK
  /\ foKind \in {"copy", "move", "local", "ftp", "agent"}
  /\ foNewIn \in {"none", "top", "sub"} /\ (foNewIn = "none" => "new" \notin foThere)
  /\ foWork \in Seq(FoNames) /\ Once(foWork)
  /\ foGone \subseteq FoNames
  /\ foCancelled \in BOOLEAN

(* Which stages an operation has.                                          *)
FoStages ==
  /\ foAt = "begin" => /\ Files \cup {"top", "sub"} \subseteq foThere /\ foStatus = "none" /\ foGone = {}
  /\ foAt \in {"stream", "original"} => Copying /\ foWork # <<>>
  /\ foAt = "original" => foKind = "move"
  /\ foAt = "inside" => ~Copying
  /\ foAt \in FoOver <=> foStatus \in {"completed", "cancelled", "failed"}
  /\ foStatus = "cancelled" => ~foCancelled

(* What is left to be copied is there, and what is not left was copied.     *)
FoCopies ==
  /\ Copying /\ foAt \in {"next", "stream", "original"} =>
       /\ InSeq(foWork) \subseteq foThere \cap (Files \cup {"new"})
       /\ \A f \in Files : f \notin InSeq(foWork) => foDest[f] = "whole" /\ (foKind = "move" => f \notin foThere)
  /\ foAt = "original" => foDest[Head(foWork)] = "whole"
  /\ \A f \in DOMAIN foDest : foDest[f] = "partial" => foAt = "stream" /\ f = Head(foWork)
  /\ foKind = "move" => \A f \in Files : f \in foThere \/ f \in foGone

(* The targets that are still there are left to be deleted.  Behind what    *)
(* was listed of the folder come the folder and the other target.          *)
FoDeletes ==
  /\ ~Copying /\ foAt \in {"next", "inside"} => {"lone", "top"} \cap foThere \subseteq InSeq(foWork)
  /\ ~Copying /\ foAt = "next" => InSeq(foWork) \subseteq {"lone", "top"}
  /\ foAt = "inside" => \E i \in 1..Len(foWork) : /\ foWork[i] = "top"
                                                 /\ \A k \in 1..Len(foWork) : k > i => foWork[k] = "lone"

(* A move that went well: the folders go but for what others put there.     *)
FoMoved ==
  /\ \A f \in Files : foDest[f] = "whole"
  /\ foKind = "move" =>
       /\ Files \cap foThere = {}
       /\ foAt # "tidy" /\ "sub" \in foThere => foNewIn = "sub" /\ "new" \in foThere
       /\ foAt = "end" /\ "top" \in foThere => "new" \in foThere

FoEnds ==
  foStatus = "completed" => IF Copying THEN FoMoved ELSE {"lone", "top"} \cap foThere = {}

FoInv ==
  /\ FoTypes /\ FoStages /\ FoCopies /\ FoDeletes /\ FoEnds
  /\ MoveLosesNothing /\ NoOrphans
  /\ foKind # "local" /\ foNewIn # "none" /\ "new" \notin foGone => "new" \in foThere

LEMMA FoStarts == FileOpsInit => FoInv
<1> SUFFICES ASSUME FileOpsInit PROVE FoInv
  OBVIOUS
<1>1. foWork \in Seq(FoNames) /\ Once(foWork)
  BY EmptySeq DEF FileOpsInit, Once
<1>2. FoTypes
  BY <1>1 DEF FileOpsInit, FoTypes, FileOpsTypeOK, FoNames, Files
<1>3. FoStages /\ FoCopies /\ FoDeletes /\ FoEnds
  BY DEF FileOpsInit, FoStages, FoCopies, FoDeletes, FoEnds, FoOver, Files, Copying
<1>4. MoveLosesNothing /\ NoOrphans
  BY DEF FileOpsInit, MoveLosesNothing, NoOrphans, Files, Above
<1> QED BY <1>2, <1>3, <1>4 DEF FileOpsInit, FoInv

-----------------------------------------------------------------------------
(* What is within a folder.                                                *)
LEMMA FoTree ==
  ASSUME FoInv
  PROVE  /\ Inside("top") = foThere \cap ({"near", "sub"} \cup IF foNewIn = "top" THEN {"new"} ELSE {})
         /\ Inside("sub") = foThere \cap ({"deep"} \cup IF foNewIn = "sub" THEN {"new"} ELSE {})
         /\ \A e \in {"near", "deep", "lone", "new"} : Inside(e) = {}
         /\ Below("lone") = {}
         /\ Below("top") \subseteq Under \cap foThere
         /\ "sub" \in foThere => foThere \cap Under \subseteq Below("top")
<1>1. \A e \in FoNames : Above(e) = IF e \in {"near", "sub"} THEN "top" ELSE IF e = "deep" THEN "sub"
                                    ELSE IF e = "new" THEN foNewIn ELSE "none"
  BY DEF FoNames, Files, Above
<1>2. foThere \subseteq FoNames /\ foNewIn \in {"none", "top", "sub"} /\ (foNewIn = "none" => "new" \notin foThere)
  BY DEF FoInv, FoTypes, FileOpsTypeOK, FoNames
<1>3. /\ Inside("top") = foThere \cap ({"near", "sub"} \cup IF foNewIn = "top" THEN {"new"} ELSE {})
      /\ Inside("sub") = foThere \cap ({"deep"} \cup IF foNewIn = "sub" THEN {"new"} ELSE {})
      /\ \A e \in {"near", "deep", "lone", "new"} : Inside(e) = {}
  BY <1>1, <1>2 DEF FoNames, Files, Inside
<1>4. Below("lone") = {}
  BY <1>3 DEF Below
<1>5. Below("top") = Inside("top") \cup UNION {Inside(e) : e \in Inside("top")}
  BY DEF Below
<1>6. Below("top") \subseteq Under \cap foThere
  BY <1>3, <1>5 DEF Under
<1>7. ASSUME "sub" \in foThere PROVE foThere \cap Under \subseteq Below("top")
  <2>1. "sub" \in Inside("top") /\ Inside("sub") \subseteq Below("top") /\ Inside("top") \subseteq Below("top")
    BY <1>3, <1>5, <1>7
  <2> QED BY <1>2, <1>3, <2>1 DEF Under
<1> QED BY <1>3, <1>4, <1>6, <1>7

(* The end of a job: nothing is left of its work.                           *)
LEMMA FoJobEnds ==
  ASSUME FoInv, foAt \notin FoOver, NEW st \in {"completed", "cancelled", "failed"}, JobEnds(st),
         st = "completed" => foAt = "next" /\ foWork = <<>>,
         UNCHANGED <<foKind, foThere, foNewIn, foGone>>,
         foDest' \in [DOMAIN foDest -> {"none", "old", "partial", "stuck", "whole"}],
         \A f \in DOMAIN foDest : foDest'[f] # "partial" /\ (f \in Files /\ foDest[f] = "whole" => foDest'[f] = "whole"
                                                            \/ (f \in foThere /\ st # "completed"))
  PROVE  FoInv'
<1>1. foWork' \in Seq(FoNames) /\ Once(foWork') /\ foWork' = <<>> /\ InSeq(foWork') = {}
  BY EmptySeq DEF JobEnds, Once, InSeq
<1>2. FoTypes'
  BY <1>1 DEF FoInv, FoTypes, FileOpsTypeOK, JobEnds, FoNames
<1>3. FoStages'
  BY DEF FoInv, FoTypes, FoStages, FoOver, JobEnds
<1>4. FoCopies' /\ FoDeletes'
  BY DEF FoInv, FoCopies, FoDeletes, JobEnds
<1>5. MoveLosesNothing'
  BY DEF FoInv, FoTypes, FileOpsTypeOK, MoveLosesNothing, Copying
<1>6. FoEnds'
  <2> SUFFICES ASSUME st = "completed" PROVE FoEnds'
    BY DEF FoEnds, JobEnds
  <2>1. InSeq(foWork) = {} /\ foAt = "next"
    BY EmptySeq DEF InSeq
  <2>2. CASE Copying
    <3>1. \A f \in Files : foDest[f] = "whole" /\ (foKind = "move" => f \notin foThere)
      BY <2>1, <2>2 DEF FoInv, FoCopies
    <3>2. \A f \in Files : foDest'[f] = "whole"
      BY <3>1 DEF FoInv, FoTypes, FileOpsTypeOK
    <3>3. FoMoved'
      BY <3>1, <3>2 DEF FoMoved, JobEnds
    <3> QED BY <2>2, <3>3 DEF FoEnds, Copying
  <2>3. CASE ~Copying
    BY <2>1, <2>3 DEF FoInv, FoDeletes, FoEnds, Copying
  <2> QED BY <2>2, <2>3
<1>7. NoOrphans' /\ (foKind # "local" /\ foNewIn # "none" /\ "new" \notin foGone => "new" \in foThere)'
  BY DEF FoInv, NoOrphans, Above
<1> QED BY <1>2, <1>3, <1>4, <1>5, <1>6, <1>7 DEF FoInv

LEMMA FoStops ==
  ASSUME FoInv, CancelSeen \/ WorkDone \/ FolderNotMade \/ OriginalStays \/ CancelInside \/ DeleteFails
  PROVE  FoInv'
<1>1. foAt \notin FoOver /\ (foAt # "stream" => \A f \in DOMAIN foDest : foDest[f] # "partial")
  BY DEF CancelSeen, WorkDone, FolderNotMade, OriginalStays, CancelInside, DeleteFails, FoOver, FoInv, FoCopies
<1>2. foAt # "stream" /\ UNCHANGED <<foKind, foThere, foNewIn, foGone, foDest>>
  BY DEF CancelSeen, WorkDone, FolderNotMade, OriginalStays, CancelInside, DeleteFails, Untouched
<1>3. PICK st \in {"completed", "cancelled", "failed"} :
        JobEnds(st) /\ (st = "completed" => foAt = "next" /\ foWork = <<>>)
  BY DEF CancelSeen, WorkDone, FolderNotMade, OriginalStays, CancelInside, DeleteFails, Broken
<1>4. foDest' \in [DOMAIN foDest -> {"none", "old", "partial", "stuck", "whole"}]
  BY <1>2 DEF FoInv, FoTypes, FileOpsTypeOK
<1> QED BY <1>1, <1>2, <1>3, <1>4, FoJobEnds

LEMMA FoCopyBreaks ==
  ASSUME FoInv, CopyBreaks PROVE FoInv'
<1>1. /\ foAt = "stream" /\ foAt \notin FoOver /\ Copying /\ foWork # <<>>
      /\ UNCHANGED <<foKind, foThere, foNewIn, foGone>>
  BY DEF CopyBreaks, Untouched, FoOver, FoInv, FoStages
<1>2. PICK left \in {"none", "stuck"} : foDest' = [foDest EXCEPT ![Head(foWork)] = left]
  BY DEF CopyBreaks
<1>3. PICK st \in {"cancelled", "failed"} : JobEnds(st)
  BY DEF CopyBreaks, Broken
<1>4. Head(foWork) \in foThere
  BY <1>1, TailFacts DEF FoInv, FoTypes, FoCopies
<1>5. foDest' \in [DOMAIN foDest -> {"none", "old", "partial", "stuck", "whole"}]
  BY <1>2 DEF FoInv, FoTypes, FileOpsTypeOK
<1>6. \A f \in DOMAIN foDest : foDest'[f] # "partial"
  BY <1>2 DEF FoInv, FoCopies, FoTypes, FileOpsTypeOK
<1>7. \A f \in DOMAIN foDest : f \in Files /\ foDest[f] = "whole" => foDest'[f] = "whole" \/ f \in foThere
  BY <1>2, <1>4 DEF FoInv, FoTypes, FileOpsTypeOK
<1> QED BY <1>1, <1>3, <1>5, <1>6, <1>7, FoJobEnds

LEMMA FoCancelAsked ==
  ASSUME FoInv, RequestCancel PROVE FoInv'
<1>1. /\ foStatus = "active" /\ foCancelled' = TRUE
      /\ UNCHANGED <<foKind, foNewIn, foThere, foDest, foWork, foAt, foGone, foStatus>>
  BY DEF RequestCancel, Untouched
<1>2. FoTypes' /\ FoStages'
  BY <1>1 DEF FoInv, FoTypes, FoStages, FileOpsTypeOK, FoOver, Copying
<1>3. FoCopies' /\ FoDeletes' /\ FoEnds'
  BY <1>1 DEF FoInv, FoCopies, FoDeletes, FoEnds, FoMoved, Copying
<1>4. MoveLosesNothing' /\ NoOrphans' /\ (foKind # "local" /\ foNewIn # "none" /\ "new" \notin foGone => "new" \in foThere)'
  BY <1>1 DEF FoInv, MoveLosesNothing, NoOrphans, Above, Copying
<1> QED BY <1>2, <1>3, <1>4 DEF FoInv

LEMMA FoNewFile ==
  ASSUME FoInv, NewFileArrives PROVE FoInv'
<1>1. /\ foNewIn = "none" /\ foAt # "end" /\ foNewIn' \in foThere \cap {"top", "sub"}
      /\ foThere' = foThere \cup {"new"}
      /\ UNCHANGED <<foKind, foDest, foWork, foAt, foGone, foStatus, foCancelled>>
  BY DEF NewFileArrives
<1>2. FoTypes' /\ FoStages'
  BY <1>1 DEF FoInv, FoTypes, FoStages, FileOpsTypeOK, FoOver, Copying, Files
<1>3. FoCopies'
  BY <1>1 DEF FoInv, FoCopies, Copying, Files
<1>4. FoDeletes'
  BY <1>1 DEF FoInv, FoDeletes, Copying
<1>5. FoEnds'
  BY <1>1 DEF FoInv, FoEnds, FoMoved, Copying, Files
<1>6. MoveLosesNothing'
  BY <1>1 DEF FoInv, MoveLosesNothing, Copying
<1>7. NoOrphans'
  <2>1. \A e \in foThere \ {"new"} : Above(e)' = Above(e)
    BY <1>1 DEF Above
  <2>2. Above("new")' = foNewIn'
    BY DEF Above
  <2> QED BY <1>1, <2>1, <2>2 DEF FoInv, NoOrphans
<1> QED BY <1>1, <1>2, <1>3, <1>4, <1>5, <1>6, <1>7 DEF FoInv

LEMMA FoCollects ==
  ASSUME FoInv, Collected PROVE FoInv'
<1>1. /\ foAt = "begin" /\ foAt' = "next" /\ foStatus' = "active"
      /\ foWork' = IF Copying THEN Only(<<"deep", "near", "new", "lone">>, foThere) ELSE <<"top", "lone">>
      /\ UNCHANGED <<foKind, foNewIn, foThere, foDest, foGone, foCancelled>>
  BY DEF Collected, Untouched
<1>2. /\ <<"deep", "near", "new", "lone">> \in Seq(FoNames) /\ Once(<<"deep", "near", "new", "lone">>)
      /\ InSeq(<<"deep", "near", "new", "lone">>) = Files \cup {"new"}
  BY DEF FoNames, Files, Once, InSeq
<1>3. /\ <<"top", "lone">> \in Seq(FoNames) /\ Once(<<"top", "lone">>)
      /\ InSeq(<<"top", "lone">>) = {"top", "lone"}
  BY DEF FoNames, Files, Once, InSeq
<1>4. CASE Copying
  <2>1. foWork' \in Seq(FoNames) /\ Once(foWork') /\ InSeq(foWork') = (Files \cup {"new"}) \cap foThere
    BY <1>1, <1>2, <1>4, OnlyFacts
  <2>2. Files \subseteq InSeq(foWork')
    BY <1>1, <2>1 DEF FoInv, FoStages
  <2>3. FoTypes' /\ FoStages'
    BY <1>1, <2>1 DEF FoInv, FoTypes, FoStages, FileOpsTypeOK, FoOver, Copying
  <2>4. FoCopies' /\ FoDeletes' /\ FoEnds'
    BY <1>1, <1>4, <2>1, <2>2 DEF FoInv, FoStages, FoCopies, FoDeletes, FoEnds, Copying
  <2> QED BY <1>1, <2>3, <2>4 DEF FoInv, MoveLosesNothing, NoOrphans, Above, Copying
<1>5. CASE ~Copying
  <2>1. foWork' \in Seq(FoNames) /\ Once(foWork') /\ InSeq(foWork') = {"top", "lone"}
    BY <1>1, <1>3, <1>5
  <2>3. FoTypes' /\ FoStages'
    BY <1>1, <2>1 DEF FoInv, FoTypes, FoStages, FileOpsTypeOK, FoOver, Copying
  <2>4. FoCopies' /\ FoDeletes' /\ FoEnds'
    BY <1>1, <1>5, <2>1 DEF FoInv, FoStages, FoCopies, FoDeletes, FoEnds, Copying
  <2> QED BY <1>1, <2>3, <2>4 DEF FoInv, MoveLosesNothing, NoOrphans, Above, Copying
<1> QED BY <1>4, <1>5

LEMMA FoCopyOpens ==
  ASSUME FoInv, CopyOpens PROVE FoInv'
<1>1. /\ Copying /\ foAt = "next" /\ foWork # <<>> /\ foAt' = "stream" /\ foWork' = foWork
      /\ foDest' = [foDest EXCEPT ![Head(foWork)] = "partial"]
      /\ UNCHANGED <<foKind, foNewIn, foThere, foGone, foStatus, foCancelled>>
  BY DEF CopyOpens, Goes, Untouched
<1>2. Head(foWork) \in InSeq(foWork) /\ Head(foWork) \in foThere /\ Head(foWork) \in Files \cup {"new"}
  BY <1>1, TailFacts DEF FoInv, FoTypes, FoCopies
<1>3. FoTypes' /\ FoStages'
  BY <1>1, <1>2 DEF FoInv, FoTypes, FoStages, FileOpsTypeOK, FoOver, Copying
<1>4. FoCopies'
  BY <1>1, <1>2 DEF FoInv, FoTypes, FileOpsTypeOK, FoCopies, Copying
<1>5. FoDeletes' /\ FoEnds'
  BY <1>1 DEF FoInv, FoStages, FoOver, FoDeletes, FoEnds, Copying
<1>6. MoveLosesNothing' /\ NoOrphans'
  BY <1>1, <1>2 DEF FoInv, FoTypes, FileOpsTypeOK, MoveLosesNothing, NoOrphans, Above, Copying
<1> QED BY <1>1, <1>3, <1>4, <1>5, <1>6 DEF FoInv

LEMMA FoCopyFinishes ==
  ASSUME FoInv, CopyFinishes PROVE FoInv'
<1>1. /\ foAt = "stream" /\ Copying /\ foWork # <<>>
      /\ foDest' = [foDest EXCEPT ![Head(foWork)] = "whole"]
      /\ foAt' = (IF foKind = "move" THEN "original" ELSE "next")
      /\ foWork' = (IF foKind = "move" THEN foWork ELSE Tail(foWork))
      /\ UNCHANGED <<foKind, foNewIn, foThere, foGone, foStatus, foCancelled>>
  BY DEF CopyFinishes, Goes, Untouched, FoInv, FoStages
<1>2. /\ Head(foWork) \in InSeq(foWork) /\ Head(foWork) \in foThere /\ Head(foWork) \in Files \cup {"new"}
      /\ Tail(foWork) \in Seq(FoNames) /\ Once(Tail(foWork))
      /\ InSeq(Tail(foWork)) = InSeq(foWork) \ {Head(foWork)}
  BY <1>1, TailFacts DEF FoInv, FoTypes, FoCopies
<1>3. FoTypes'
  BY <1>1, <1>2 DEF FoInv, FoTypes, FileOpsTypeOK
<1>4. FoStages'
  BY <1>1 DEF FoInv, FoStages, FoOver, Copying
<1>5. FoCopies'
  <2>1. CASE foKind = "move"
    BY <1>1, <1>2, <2>1 DEF FoInv, FoTypes, FileOpsTypeOK, FoCopies, Copying
  <2>2. CASE foKind # "move"
    BY <1>1, <1>2, <2>2 DEF FoInv, FoTypes, FileOpsTypeOK, FoCopies, Copying
  <2> QED BY <2>1, <2>2
<1>6. FoDeletes' /\ FoEnds'
  BY <1>1 DEF FoInv, FoStages, FoOver, FoDeletes, FoEnds, Copying
<1>7. MoveLosesNothing' /\ NoOrphans'
  BY <1>1, <1>2 DEF FoInv, FoTypes, FileOpsTypeOK, MoveLosesNothing, NoOrphans, Above, Copying
<1> QED BY <1>1, <1>3, <1>4, <1>5, <1>6, <1>7 DEF FoInv

LEMMA FoOriginalGoes ==
  ASSUME FoInv, OriginalGoes PROVE FoInv'
<1> DEFINE h == Head(foWork)
<1>1. /\ foAt = "original" /\ foKind = "move" /\ Copying /\ foWork # <<>>
      /\ foThere' = foThere \ {h} /\ foGone' = foGone \cup {h}
      /\ foAt' = "next" /\ foWork' = Tail(foWork)
      /\ UNCHANGED <<foKind, foNewIn, foDest, foStatus, foCancelled>>
  BY DEF OriginalGoes, Goes, Untouched, FoInv, FoStages
<1>2. /\ h \in InSeq(foWork) /\ h \in Files \cup {"new"}
      /\ Tail(foWork) \in Seq(FoNames) /\ Once(Tail(foWork))
      /\ InSeq(Tail(foWork)) = InSeq(foWork) \ {h}
      /\ foDest[h] = "whole"
  BY <1>1, TailFacts DEF FoInv, FoTypes, FoCopies
<1> HIDE DEF h
<1>3. FoTypes'
  BY <1>1, <1>2 DEF FoInv, FoTypes, FileOpsTypeOK, FoNames
<1>4. FoStages'
  BY <1>1 DEF FoInv, FoStages, FoOver, Copying
<1>5. FoCopies'
  BY <1>1, <1>2 DEF FoInv, FoTypes, FileOpsTypeOK, FoCopies, Copying
<1>6. FoDeletes' /\ FoEnds'
  BY <1>1 DEF FoInv, FoStages, FoOver, FoDeletes, FoEnds, Copying
<1>7. MoveLosesNothing'
  BY <1>1, <1>2 DEF FoInv, MoveLosesNothing, Copying
<1>8. NoOrphans'
  <2>1. Inside(h) = {}
    BY <1>2, FoTree DEF Files
  <2>2. \A e \in foThere : Above(e) # h /\ Above(e)' = Above(e)
    BY <1>1, <2>1 DEF Inside, Above
  <2> QED BY <1>1, <2>2 DEF FoInv, NoOrphans
<1> QED BY <1>1, <1>3, <1>4, <1>5, <1>6, <1>7, <1>8 DEF FoInv

(* The emptied folders go: sub first, then top.                             *)
LEMMA FoTidies ==
  ASSUME FoInv, Tidies PROVE FoInv'
<1>1. /\ foAt \in {"tidy", "tidy top"} /\ foAt \in FoOver /\ foAt' \in {"tidy top", "end"}
      /\ UNCHANGED <<foKind, foNewIn, foDest, foWork, foGone, foStatus, foCancelled>>
  BY DEF Tidies, Untouched, FoOver
<1>2. \/ foThere' = foThere
      \/ foThere' = foThere \ {"sub"} /\ Inside("sub") = {}
      \/ foThere' = foThere \ {"top"} /\ Inside("top") = {}
  BY DEF Tidies, RemoveIfEmpty
<1>3. FoTypes'
  BY <1>1, <1>2 DEF FoInv, FoTypes, FileOpsTypeOK
<1>4. FoStages'
  BY <1>1 DEF FoInv, FoStages, FoOver, Copying
<1>5. \A f \in Files : f \in foThere' <=> f \in foThere
  BY <1>2 DEF Files
<1>6. FoCopies' /\ FoDeletes'
  BY <1>1, <1>5 DEF FoInv, FoCopies, FoDeletes, Copying
<1>7. MoveLosesNothing'
  BY <1>1, <1>5 DEF FoInv, MoveLosesNothing, Copying
<1>8. NoOrphans'
  <2>1. \A e \in foThere : Above(e)' = Above(e)
    BY <1>1 DEF Above
  <2> QED BY <1>2, <2>1 DEF FoInv, NoOrphans, Inside
<1>9. FoEnds'
  <2> SUFFICES ASSUME foStatus = "completed" PROVE FoEnds'
    BY <1>1 DEF FoEnds
  <2>1. CASE ~Copying
    BY <1>1, <1>2, <2>1 DEF FoInv, FoEnds, Copying
  <2>2. CASE Copying /\ foKind # "move"
    BY <1>1, <2>2 DEF FoInv, FoEnds, FoMoved, Copying
  <2>3. CASE foKind = "move"
    <3>1. FoMoved /\ Files \cap foThere = {} /\ Files \subseteq foGone
      BY <2>3 DEF FoInv, FoEnds, FoMoved, FoCopies, Copying
    <3>2. Emptied = {"top", "sub"}
      <4>1. Above("deep") = "sub" /\ Above("near") = "top" /\ Above("sub") = "top"
        BY DEF Above
      <4> QED BY <3>1, <4>1 DEF Emptied, Files
    <3>3. CASE foAt = "tidy"
      <4>1. foAt' = "tidy top" /\ foThere' = RemoveIfEmpty("sub")
        BY <2>3, <3>2, <3>3 DEF Tidies, Copying
      <4>2. "sub" \in foThere' => foNewIn = "sub" /\ "new" \in foThere'
        BY <3>1, <4>1, FoTree DEF RemoveIfEmpty, Files
      <4>3. FoMoved'
        BY <1>1, <1>5, <2>3, <3>1, <4>1, <4>2 DEF FoMoved
      <4> QED BY <1>1, <2>3, <4>3 DEF FoEnds, Copying
    <3>4. CASE foAt = "tidy top"
      <4>1. foAt' = "end" /\ foThere' = RemoveIfEmpty("top")
        BY <2>3, <3>2, <3>4 DEF Tidies, Copying
      <4>2. "top" \in foThere' => "new" \in foThere'
        BY <2>3, <3>1, <3>4, <4>1, FoTree DEF RemoveIfEmpty, Files, FoMoved
      <4>3. "sub" \in foThere' => foNewIn = "sub" /\ "new" \in foThere'
        BY <2>3, <3>1, <3>4, <4>1 DEF RemoveIfEmpty, FoMoved
      <4>4. FoMoved'
        BY <1>1, <1>5, <2>3, <3>1, <4>1, <4>2, <4>3 DEF FoMoved
      <4> QED BY <1>1, <2>3, <4>4 DEF FoEnds, Copying
    <3> QED BY <1>1, <3>3, <3>4
  <2> QED BY <2>1, <2>2, <2>3
<1> QED BY <1>1, <1>2, <1>3, <1>4, <1>6, <1>7, <1>8, <1>9 DEF FoInv

LEMMA FoTargetGoes ==
  ASSUME FoInv, TargetGoes PROVE FoInv'
<1> DEFINE h == Head(foWork)
           gone == {h} \cup Below(h)
<1>1. /\ foAt = "next" /\ ~Copying /\ foWork # <<>> /\ (foKind # "local" => h # "top")
      /\ foThere' = foThere \ gone /\ foGone' = foGone \cup gone
      /\ foAt' = "next" /\ foWork' = Tail(foWork)
      /\ UNCHANGED <<foKind, foNewIn, foDest, foStatus, foCancelled>>
  BY DEF TargetGoes, Goes, Untouched
<1>2. /\ h \in {"lone", "top"}
      /\ Tail(foWork) \in Seq(FoNames) /\ Once(Tail(foWork))
      /\ InSeq(Tail(foWork)) = InSeq(foWork) \ {h}
  BY <1>1, TailFacts DEF FoInv, FoTypes, FoDeletes
<1> HIDE DEF h
<1>3. \/ h = "lone" /\ gone = {"lone"}
      \/ h = "top" /\ gone \subseteq {"top"} \cup Under /\ ("sub" \in foThere => foThere \cap Under \subseteq gone)
  BY <1>2, FoTree
<1>4. "top" \in gone => h = "top" /\ Inside("top") \subseteq gone
  BY <1>2, <1>3 DEF Below
<1>5. h \in gone /\ (h # "top" => gone = {"lone"}) /\ gone \subseteq FoNames
  BY <1>3 DEF FoNames, Files, Under
<1> HIDE DEF gone
<1>6. FoTypes'
  BY <1>1, <1>2, <1>5 DEF FoInv, FoTypes, FileOpsTypeOK
<1>7. FoStages' /\ FoCopies' /\ FoEnds' /\ MoveLosesNothing'
  BY <1>1 DEF FoInv, FoStages, FoCopies, FoEnds, MoveLosesNothing, FoOver, Copying
<1>8. FoDeletes'
  BY <1>1, <1>2, <1>5 DEF FoInv, FoDeletes, Copying
<1>9. NoOrphans'
  <2>1. \A e \in foThere : Above(e)' = Above(e)
    BY <1>1 DEF Above
  <2>2. ASSUME NEW e \in foThere, e \notin gone, Above(e) \in gone PROVE FALSE
    <3>1. Above(e) \in {"none", "top", "sub"}
      BY DEF Above, FoInv, FoTypes
    <3>2. Above(e) # "top"
      BY <1>4, <2>2 DEF Inside
    <3>3. Above(e) = "sub" /\ h = "top"
      BY <1>5, <2>2, <3>1, <3>2 DEF FoNames, Files
    <3>4. e \in {"deep", "new"}
      BY <3>3 DEF Above
    <3>5. "sub" \in foThere
      BY <3>3 DEF FoInv, NoOrphans
    <3> QED BY <1>3, <2>2, <3>3, <3>4, <3>5 DEF Under
  <2> QED BY <1>1, <2>1, <2>2 DEF FoInv, NoOrphans
<1>10. foKind # "local" /\ foNewIn # "none" /\ "new" \notin foGone' => "new" \in foThere'
  BY <1>1, <1>5 DEF FoInv
<1> QED BY <1>1, <1>6, <1>7, <1>8, <1>9, <1>10 DEF FoInv

LEMMA FoFolderListed ==
  ASSUME FoInv, FolderListed PROVE FoInv'
<1> DEFINE under == Only(<<"deep", "near", "new", "sub">>, Below("top"))
           one == <<"top">>
           listed == under \o one
           rest == Tail(foWork)
<1>1. /\ foAt = "next" /\ ~Copying /\ foWork # <<>> /\ foKind # "local" /\ Head(foWork) = "top"
      /\ foAt' = "inside" /\ foWork' = listed \o rest
      /\ UNCHANGED <<foKind, foNewIn, foThere, foGone, foDest, foStatus, foCancelled>>
  <2>1. ListedBelow = listed
    BY Zenon DEF ListedBelow
  <2> HIDE DEF listed
  <2> QED BY <2>1 DEF FolderListed, Goes, Untouched, Copying
<1>2. /\ rest \in Seq(FoNames) /\ Once(rest) /\ "top" \in InSeq(foWork)
      /\ InSeq(rest) = InSeq(foWork) \ {"top"} /\ InSeq(foWork) \subseteq {"lone", "top"}
  BY <1>1, TailFacts DEF FoInv, FoTypes, FoDeletes
<1>3. /\ <<"deep", "near", "new", "sub">> \in Seq(FoNames) /\ Once(<<"deep", "near", "new", "sub">>)
      /\ InSeq(<<"deep", "near", "new", "sub">>) = Under
  BY DEF FoNames, Files, Once, InSeq, Under
<1>4. under \in Seq(FoNames) /\ Once(under) /\ InSeq(under) \subseteq Under
  BY <1>3, OnlyFacts
<1>5. one \in Seq(FoNames) /\ Once(one) /\ InSeq(one) = {"top"} /\ Len(one) = 1
      /\ one[1] = "top"
  BY SingleFacts DEF FoNames, Files
<1> HIDE DEF under, rest, one
<1>6. /\ listed \in Seq(FoNames) /\ Once(listed) /\ InSeq(listed) \subseteq Under \cup {"top"}
      /\ Len(listed) = Len(under) + 1 /\ listed[Len(listed)] = "top" /\ Len(listed) \in Nat \ {0}
  <2>1. Len(under) \in Nat
    BY <1>4
  <2>2. /\ Len(listed) = Len(under) + 1
        /\ listed[Len(under) + 1] = one[Len(under) + 1 - Len(under)]
    BY <1>4, <1>5, <2>1, ConcatProperties
  <2>3. InSeq(under) \cap InSeq(one) = {}
    BY <1>4, <1>5 DEF Under
  <2>4. /\ listed \in Seq(FoNames) /\ Once(listed) /\ InSeq(listed) = InSeq(under) \cup {"top"}
    BY <1>4, <1>5, <2>3, ConcatFacts
  <2> HIDE DEF listed
  <2> QED BY <1>4, <1>5, <2>1, <2>2, <2>4
<1> HIDE DEF listed
<1>7. /\ foWork' \in Seq(FoNames) /\ Once(foWork')
      /\ InSeq(foWork') = InSeq(listed) \cup InSeq(rest) /\ "top" \in InSeq(listed)
      /\ Len(foWork') = Len(listed) + Len(rest)
      /\ \A i \in 1..Len(listed) + Len(rest) : foWork'[i] = IF i <= Len(listed) THEN listed[i] ELSE rest[i - Len(listed)]
  <2>1. InSeq(listed) \cap InSeq(rest) = {}
    BY <1>2, <1>6 DEF Under
  <2>2. /\ listed \o rest \in Seq(FoNames) /\ Once(listed \o rest)
        /\ InSeq(listed \o rest) = InSeq(listed) \cup InSeq(rest)
    BY <1>2, <1>6, <2>1, ConcatFacts
  <2>3. /\ Len(listed \o rest) = Len(listed) + Len(rest)
        /\ \A i \in 1..Len(listed) + Len(rest) :
             (listed \o rest)[i] = IF i <= Len(listed) THEN listed[i] ELSE rest[i - Len(listed)]
    <3> HIDE DEF FoNames
    <3>1. listed \in Seq(FoNames) /\ rest \in Seq(FoNames)
      BY <1>2, <1>6
    <3> QED BY <3>1, ConcatProperties
  <2>4. "top" \in InSeq(listed)
    BY <1>6 DEF InSeq
  <2> QED BY <1>1, <2>2, <2>3, <2>4
<1>8. FoTypes' /\ FoStages'
  BY <1>1, <1>7 DEF FoInv, FoTypes, FoStages, FileOpsTypeOK, FoOver, Copying
<1>9. FoCopies' /\ FoEnds' /\ MoveLosesNothing'
  BY <1>1 DEF FoInv, FoStages, FoCopies, FoEnds, MoveLosesNothing, FoOver, Copying
<1>10. FoDeletes'
  <2>1. {"lone", "top"} \cap foThere \subseteq InSeq(foWork')
    BY <1>1, <1>2, <1>7 DEF FoInv, FoDeletes, Copying
  <2>2. /\ Len(listed) \in 1..Len(foWork') /\ foWork'[Len(listed)] = "top"
        /\ \A k \in 1..Len(foWork') : k > Len(listed) => foWork'[k] = "lone"
    <3>1. Len(rest) \in Nat
      BY <1>2
    <3>2. \A k \in 1..Len(rest) : rest[k] = "lone"
      BY <1>2 DEF InSeq
    <3> QED BY <1>6, <1>7, <3>1, <3>2
  <2> QED BY <1>1, <2>1, <2>2 DEF FoDeletes, Copying
<1>11. NoOrphans' /\ (foKind # "local" /\ foNewIn # "none" /\ "new" \notin foGone => "new" \in foThere)'
  BY <1>1 DEF FoInv, NoOrphans, Above
<1> QED BY <1>8, <1>9, <1>10, <1>11 DEF FoInv

LEMMA FoEntryGoes ==
  ASSUME FoInv, EntryGoes PROVE FoInv'
<1> DEFINE h == Head(foWork)
           rest == Tail(foWork)
<1>1. /\ foAt = "inside" /\ ~Copying /\ h \in foThere /\ Inside(h) = {}
      /\ foThere' = foThere \ {h} /\ foGone' = foGone \cup {h}
      /\ foAt' = (IF h = "top" THEN "next" ELSE "inside") /\ foWork' = rest
      /\ UNCHANGED <<foKind, foNewIn, foDest, foStatus, foCancelled>>
  BY DEF EntryGoes, Goes, Untouched, FoInv, FoStages
<1>2. PICK i \in 1..Len(foWork) : foWork[i] = "top" /\ \A k \in 1..Len(foWork) : k > i => foWork[k] = "lone"
  BY <1>1 DEF FoInv, FoDeletes
<1>3. foWork \in Seq(FoNames) /\ Once(foWork) /\ Len(foWork) \in Nat /\ foWork # <<>>
  BY <1>2, EmptySeq DEF FoInv, FoTypes
<1>4. /\ h \in InSeq(foWork) /\ rest \in Seq(FoNames) /\ Once(rest)
      /\ InSeq(rest) = InSeq(foWork) \ {h}
      /\ h = foWork[1] /\ Len(rest) = Len(foWork) - 1 /\ \A k \in 1..Len(rest) : rest[k] = foWork[k + 1]
  BY <1>3, TailFacts
<1>5. h \in FoNames
  BY <1>3, <1>4, InSeqFacts
<1> HIDE DEF h, rest
<1>6. FoTypes'
  BY <1>1, <1>4, <1>5 DEF FoInv, FoTypes, FileOpsTypeOK
<1>7. FoStages' /\ FoCopies' /\ FoEnds' /\ MoveLosesNothing'
  BY <1>1 DEF FoInv, FoStages, FoCopies, FoEnds, MoveLosesNothing, FoOver, Copying
<1>8. {"lone", "top"} \cap foThere' \subseteq InSeq(foWork')
  BY <1>1, <1>4 DEF FoInv, FoDeletes
<1>9. FoDeletes'
  <2>1. CASE h = "top"
    <3>1. i = 1
      <4>1. 1 \in 1..Len(foWork) /\ foWork[1] = foWork[i]
        BY <1>2, <1>3, <1>4, <2>1
      <4>2. \A j, k \in 1..Len(foWork) : foWork[j] = foWork[k] => j = k
        BY <1>3 DEF Once
      <4> QED BY <4>1, <4>2
    <3>2. \A k \in 1..Len(rest) : rest[k] = "lone"
      BY <1>2, <1>3, <1>4, <3>1
    <3> QED BY <1>1, <1>8, <2>1, <3>2 DEF FoDeletes, Copying, InSeq
  <2>2. CASE h # "top"
    <3>1. i - 1 \in 1..Len(rest) /\ rest[i - 1] = "top" /\ \A k \in 1..Len(rest) : k > i - 1 => rest[k] = "lone"
      BY <1>2, <1>3, <1>4, <2>2
    <3> QED BY <1>1, <1>8, <2>2, <3>1 DEF FoDeletes, Copying
  <2> QED BY <2>1, <2>2
<1>10. NoOrphans'
  <2>1. \A e \in foThere : Above(e)' = Above(e) /\ Above(e) # h
    BY <1>1 DEF Above, Inside
  <2> QED BY <1>1, <2>1 DEF FoInv, NoOrphans
<1> QED BY <1>1, <1>6, <1>7, <1>9, <1>10 DEF FoInv

-----------------------------------------------------------------------------
(* The inductive invariant of a long operation, wherever it is cancelled or *)
(* fails, and wherever somebody else puts a file meanwhile.                 *)
THEOREM FileOpsInvariance == FileOpsInit /\ [][FileOpsNext]_fileOpsVars => []FoInv
<1>1. ASSUME FoInv, [FileOpsNext]_fileOpsVars PROVE FoInv'
  <2>1. CASE UNCHANGED fileOpsVars
    <3>1. (FoTypes /\ FoStages /\ FoCopies)'
      BY <1>1, <2>1 DEF fileOpsVars, FoInv, FoTypes, FoStages, FoCopies, FileOpsTypeOK, FoOver, Copying
    <3>2. (FoDeletes /\ FoEnds)'
      BY <1>1, <2>1 DEF fileOpsVars, FoInv, FoDeletes, FoEnds, FoMoved, Copying
    <3>3. (MoveLosesNothing /\ NoOrphans)'
      BY <1>1, <2>1 DEF fileOpsVars, FoInv, MoveLosesNothing, NoOrphans, Copying, Above
    <3> QED BY <1>1, <2>1, <3>1, <3>2, <3>3 DEF FoInv, fileOpsVars
  <2>2. CASE CancelSeen \/ WorkDone \/ FolderNotMade \/ OriginalStays \/ CancelInside \/ DeleteFails
    BY <1>1, <2>2, FoStops
  <2>3. CASE Collected \/ CopyOpens \/ CopyFinishes \/ CopyBreaks \/ OriginalGoes \/ Tidies
    BY <1>1, <2>3, FoCollects, FoCopyOpens, FoCopyFinishes, FoCopyBreaks, FoOriginalGoes, FoTidies
  <2>4. CASE TargetGoes \/ FolderListed \/ EntryGoes \/ RequestCancel \/ NewFileArrives
    BY <1>1, <2>4, FoTargetGoes, FoFolderListed, FoEntryGoes, FoCancelAsked, FoNewFile
  <2> QED BY <1>1, <2>1, <2>2, <2>3, <2>4 DEF FileOpsNext, FileOpsProgress
<1> QED BY FoStarts, <1>1, PTL

LEMMA FoInvGives == FoInv => FileOpsSafe
<1> SUFFICES ASSUME FoInv PROVE FileOpsSafe
  OBVIOUS
<1>1. FileOpsTypeOK /\ MoveLosesNothing /\ NoOrphans
  BY DEF FoInv, FoTypes
<1>2. StrangersStay
  <2>1. Above("new") = foNewIn /\ Above("sub") = "top" /\ Above("top") = "none"
    BY DEF Above
  <2> QED BY <2>1 DEF FoInv, FoTypes, StrangersStay, NoOrphans
<1>3. NoPartialLeft
  BY DEF FoInv, FoCopies, NoPartialLeft
<1>4. EndsTruthfully
  <2>1. foStatus = "cancelled" => ~foCancelled
    BY DEF FoInv, FoStages
  <2>2. foAt = "end" /\ foStatus = "completed" /\ ~Copying => {"lone", "top"} \cap foThere = {}
    BY DEF FoInv, FoEnds
  <2>3. ASSUME foAt = "end", foStatus = "completed", Copying
        PROVE  /\ \A f \in Files : foDest[f] = "whole"
               /\ foKind = "move" => foThere \subseteq {"new", foNewIn, Above(foNewIn)}
    <3>1. FoMoved
      BY <2>3 DEF FoInv, FoEnds
    <3>2. ASSUME foKind = "move" PROVE foThere \subseteq {"new", foNewIn, Above(foNewIn)}
      <4>1. foThere \subseteq {"new", "top", "sub"}
        BY <3>1, <3>2 DEF FoInv, FoTypes, FileOpsTypeOK, FoMoved, Files
      <4>2. Above("sub") = "top"
        BY DEF Above
      <4>3. "top" \in foThere => foNewIn \in {"top", "sub"}
        BY <2>3, <3>1, <3>2 DEF FoInv, FoTypes, FoMoved
      <4>4. "sub" \in foThere => foNewIn = "sub"
        BY <2>3, <3>1, <3>2 DEF FoMoved
      <4> QED BY <4>1, <4>2, <4>3, <4>4
    <3> QED BY <3>1, <3>2 DEF FoMoved
  <2> QED BY <2>1, <2>2, <2>3 DEF EndsTruthfully
<1> QED BY <1>1, <1>2, <1>3, <1>4 DEF FileOpsSafe

(* A copy, a move or a deletion loses nothing it was not about: what has not *)
(* been copied stays where it was, a file that somebody else put there stays *)
(* with its folders, no partial copy is left, and an end says what happened. *)
THEOREM LongOperationsAreSafe == FileOpsSpec => []FileOpsSafe
BY FileOpsInvariance, FoInvGives, PTL DEF FileOpsSpec

-----------------------------------------------------------------------------
(* The receiving end of a download (SlabWriter).                           *)

SomePiece == {p \in [slab : Slabs, from : 0..SlabSize, to : 0..SlabSize] : p.from < p.to}

(* The bytes of ps, one piece behind the other, are those from base on.    *)
Laid(m, ps, base) ==
  \A i \in 1..Len(ps) : \A j \in (ps[i].from + 1)..ps[i].to :
    m[ps[i].slab][j] = base + PartSums(Lengths(ps))[i - 1] + (j - ps[i].from - 1)

LEMMA SwPieces ==
  ASSUME NEW ps \in Seq(SomePiece)
  PROVE  /\ Len(ps) \in Nat /\ DOMAIN ps = 1..Len(ps)
         /\ \A i \in 1..Len(ps) :
              /\ ps[i] \in SomePiece /\ ps[i].slab \in Slabs
              /\ ps[i].from \in Nat /\ ps[i].to \in Nat /\ ps[i].from < ps[i].to /\ ps[i].to <= SlabSize
<1>1. Len(ps) \in Nat /\ DOMAIN ps = 1..Len(ps) /\ \A i \in 1..Len(ps) : ps[i] \in SomePiece
  BY LenProperties, ElementOfSeq
<1>2. \A p \in SomePiece : p.slab \in Slabs /\ p.from \in Nat /\ p.to \in Nat
                           /\ p.from < p.to /\ p.to <= SlabSize
  BY SlabAssumption DEF SomePiece
<1> QED BY <1>1, <1>2

LEMMA SwTotals ==
  ASSUME NEW ps \in Seq(SomePiece)
  PROVE  /\ Lengths(ps) \in Seq(Nat) /\ Lengths(ps) \in Seq(Int) /\ Len(Lengths(ps)) = Len(ps)
         /\ \A i \in 1..Len(ps) :
              /\ Lengths(ps)[i] = ps[i].to - ps[i].from
              /\ PartSums(Lengths(ps))[i] = PartSums(Lengths(ps))[i - 1] + (ps[i].to - ps[i].from)
              /\ PartSums(Lengths(ps))[i] <= Total(ps)
         /\ \A n \in 0..Len(ps) : PartSums(Lengths(ps))[n] \in Nat
         /\ PartSums(Lengths(ps))[0] = 0
         /\ Total(ps) = PartSums(Lengths(ps))[Len(ps)] /\ Total(ps) \in Nat
<1> DEFINE L == Lengths(ps)
<1>1. /\ Len(ps) \in Nat /\ DOMAIN ps = 1..Len(ps)
      /\ \A i \in 1..Len(ps) : ps[i].to - ps[i].from \in Nat
  BY SwPieces
<1>2. L = [i \in 1..Len(ps) |-> ps[i].to - ps[i].from]
  BY <1>1 DEF Lengths
<1>3. L \in Seq(Nat) /\ Len(L) = Len(ps) /\ \A i \in 1..Len(ps) : L[i] = ps[i].to - ps[i].from
  <2>1. L \in [1..Len(ps) -> Nat]
    BY <1>1, <1>2
  <2> HIDE DEF L
  <2>2. L \in Seq(Nat)
    BY <1>1, <2>1, SeqDef
  <2>3. Len(L) = Len(ps)
    BY <1>1, <2>1, <2>2, LenProperties
  <2>4. \A i \in 1..Len(ps) : L[i] = ps[i].to - ps[i].from
    BY <1>2
  <2> QED BY <2>2, <2>3, <2>4
<1> HIDE DEF L
<1>4. L \in Seq(Int)
  BY <1>3
<1>5. AddsUp(PartSums(L), L) /\ \A n \in 0..Len(ps) : PartSums(L)[n] \in Int
  BY <1>3, <1>4, SumsFacts
<1>6. \A n \in 0..Len(ps) : PartSums(L)[n] \in Nat /\ PartSums(L)[n] <= PartSums(L)[Len(ps)]
  <2> TAKE n \in 0..Len(ps)
  <2>1. 0 \in 0..Len(L) /\ n \in 0..Len(L) /\ n \in 0..Len(L) /\ Len(ps) \in n..Len(L)
    BY <1>1, <1>3
  <2>2. PartSums(L)[0] <= PartSums(L)[n] /\ PartSums(L)[n] <= PartSums(L)[Len(ps)]
    BY <1>3, <2>1, SumsGrow
  <2>3. PartSums(L)[0] = 0 /\ PartSums(L)[n] \in Int
    BY <1>5 DEF AddsUp
  <2> QED BY <2>2, <2>3
<1>7. Total(ps) = PartSums(L)[Len(ps)]
  BY <1>3 DEF Total, SumOf, L
<1>8. \A i \in 1..Len(ps) : /\ PartSums(L)[i] = PartSums(L)[i - 1] + (ps[i].to - ps[i].from)
                            /\ i \in 0..Len(ps)
  BY <1>1, <1>3, <1>5 DEF AddsUp
<1>9. PartSums(L)[0] = 0 /\ Len(ps) \in 0..Len(ps)
  BY <1>1, <1>5 DEF AddsUp
<1> QED BY <1>3, <1>4, <1>6, <1>7, <1>8, <1>9 DEF L

LEMMA SwConcat ==
  ASSUME NEW a \in Seq(SomePiece), NEW b \in Seq(SomePiece)
  PROVE  /\ a \o b \in Seq(SomePiece) /\ Len(a \o b) = Len(a) + Len(b)
         /\ \A i \in 1..Len(a) : (a \o b)[i] = a[i] /\ PartSums(Lengths(a \o b))[i - 1] = PartSums(Lengths(a))[i - 1]
         /\ \A i \in 1..Len(b) :
              /\ (a \o b)[Len(a) + i] = b[i]
              /\ PartSums(Lengths(a \o b))[(Len(a) + i) - 1] = Total(a) + PartSums(Lengths(b))[i - 1]
         /\ Total(a \o b) = Total(a) + Total(b)
<1> DEFINE r == a \o b
<1>1. /\ r \in Seq(SomePiece) /\ Len(r) = Len(a) + Len(b)
      /\ \A i \in 1..Len(a) + Len(b) : r[i] = IF i <= Len(a) THEN a[i] ELSE b[i - Len(a)]
  BY ConcatProperties
<1>2. Len(a) \in Nat /\ Len(b) \in Nat
  BY LenProperties
<1> HIDE DEF r
<1>3. \A i \in 1..Len(a) : i \in 1..Len(r) /\ r[i] = a[i]
  BY <1>1, <1>2
<1>4. ASSUME NEW i \in 1..Len(b)
      PROVE  Len(a) + i \in 1..Len(r) /\ r[Len(a) + i] = b[i]
  <2>1. Len(a) + i \in 1..Len(a) + Len(b) /\ ~(Len(a) + i <= Len(a)) /\ (Len(a) + i) - Len(a) = i
    BY <1>2
  <2> QED BY <1>1, <2>1
<1>5. /\ Lengths(a) \in Seq(Int) /\ Len(Lengths(a)) = Len(a) /\ \A i \in 1..Len(a) : Lengths(a)[i] = a[i].to - a[i].from
      /\ Lengths(b) \in Seq(Int) /\ Len(Lengths(b)) = Len(b) /\ \A i \in 1..Len(b) : Lengths(b)[i] = b[i].to - b[i].from
      /\ Lengths(r) \in Seq(Int) /\ Len(Lengths(r)) = Len(r) /\ \A i \in 1..Len(r) : Lengths(r)[i] = r[i].to - r[i].from
  BY <1>1, SwTotals
<1>6. Lengths(r) = Lengths(a) \o Lengths(b)
  <2> DEFINE c == Lengths(a) \o Lengths(b)
  <2>1. /\ c \in Seq(Int) /\ Len(c) = Len(a) + Len(b)
        /\ \A i \in 1..Len(a) + Len(b) : c[i] = IF i <= Len(a) THEN Lengths(a)[i] ELSE Lengths(b)[i - Len(a)]
    <3>1. Lengths(a) \in Seq(Int) /\ Lengths(b) \in Seq(Int)
      BY <1>5
    <3>2. /\ c \in Seq(Int) /\ Len(c) = Len(Lengths(a)) + Len(Lengths(b))
          /\ \A i \in 1..Len(Lengths(a)) + Len(Lengths(b)) :
               c[i] = IF i <= Len(Lengths(a)) THEN Lengths(a)[i] ELSE Lengths(b)[i - Len(Lengths(a))]
      BY <3>1, ConcatProperties
    <3>3. Len(Lengths(a)) = Len(a) /\ Len(Lengths(b)) = Len(b)
      BY <1>5
    <3> HIDE DEF c
    <3> QED BY <3>2, <3>3, Zenon
  <2> HIDE DEF c
  <2>2. ASSUME NEW i \in 1..Len(r) PROVE Lengths(r)[i] = c[i]
    <3>1. CASE i <= Len(a)
      <4>1. i \in 1..Len(a)
        BY <1>1, <1>2, <3>1
      <4>2. r[i] = a[i] /\ c[i] = Lengths(a)[i]
        BY <1>1, <1>3, <2>1, <3>1, <4>1
      <4> QED BY <1>5, <4>1, <4>2
    <3>2. CASE ~(i <= Len(a))
      <4>1. i - Len(a) \in 1..Len(b)
        BY <1>1, <1>2, <3>2
      <4>2. r[i] = b[i - Len(a)] /\ c[i] = Lengths(b)[i - Len(a)]
        BY <1>1, <2>1, <3>2
      <4> QED BY <1>5, <4>1, <4>2
    <3> QED BY <3>1, <3>2
  <2>3. Lengths(r) = c
    BY <1>1, <1>5, <2>1, <2>2, SeqEqual
  <2> QED BY <2>3 DEF c
<1>7. /\ \A n \in 0..Len(a) : PartSums(Lengths(r))[n] = PartSums(Lengths(a))[n]
      /\ \A n \in 0..Len(b) : PartSums(Lengths(r))[Len(a) + n] = SumOf(Lengths(a)) + PartSums(Lengths(b))[n]
  <2>1. /\ Lengths(a) \in Seq(Int) /\ Lengths(b) \in Seq(Int)
        /\ Len(Lengths(a)) = Len(a) /\ Len(Lengths(b)) = Len(b)
    BY <1>5
  <2> DEFINE c == Lengths(a) \o Lengths(b)
  <2>2. /\ \A n \in 0..Len(Lengths(a)) : PartSums(c)[n] = PartSums(Lengths(a))[n]
        /\ \A n \in 0..Len(Lengths(b)) :
             PartSums(c)[Len(Lengths(a)) + n] = SumOf(Lengths(a)) + PartSums(Lengths(b))[n]
    BY <2>1, SumsOfConcat
  <2>3. Lengths(r) = c
    BY <1>6
  <2> HIDE DEF c
  <2> QED BY <2>1, <2>2, <2>3, Zenon
<1>8. SumOf(Lengths(a)) = Total(a)
  BY DEF Total
<1>9. Total(r) = PartSums(Lengths(r))[Len(r)] /\ Total(b) = PartSums(Lengths(b))[Len(b)]
  BY <1>1, SwTotals
<1>10. Total(r) = Total(a) + Total(b)
  BY <1>1, <1>2, <1>7, <1>8, <1>9
<1>11. \A i \in 1..Len(a) : i - 1 \in 0..Len(a)
  BY <1>2
<1>12. \A i \in 1..Len(b) : i - 1 \in 0..Len(b) /\ (Len(a) + i) - 1 = Len(a) + (i - 1)
  BY <1>2
<1>13. \A i \in 1..Len(b) : PartSums(Lengths(r))[(Len(a) + i) - 1] = Total(a) + PartSums(Lengths(b))[i - 1]
  BY <1>7, <1>8, <1>12
<1> QED BY <1>1, <1>3, <1>4, <1>7, <1>10, <1>11, <1>13 DEF r

LEMMA SwLaidConcat ==
  ASSUME NEW a \in Seq(SomePiece), NEW b \in Seq(SomePiece), NEW m, NEW base \in Int
  PROVE  Laid(m, a \o b, base) <=> Laid(m, a, base) /\ Laid(m, b, base + Total(a))
<1> DEFINE r == a \o b
<1>1. /\ r \in Seq(SomePiece) /\ Len(r) = Len(a) + Len(b) /\ Total(a) \in Nat
      /\ \A i \in 1..Len(a) : r[i] = a[i] /\ PartSums(Lengths(r))[i - 1] = PartSums(Lengths(a))[i - 1]
      /\ \A i \in 1..Len(b) :
           /\ r[Len(a) + i] = b[i]
           /\ PartSums(Lengths(r))[(Len(a) + i) - 1] = Total(a) + PartSums(Lengths(b))[i - 1]
  BY SwConcat, SwTotals
<1>2. Len(a) \in Nat /\ Len(b) \in Nat
  BY LenProperties
<1> HIDE DEF r
<1>3. \A i \in 1..Len(a) : i \in 1..Len(r)
  BY <1>1, <1>2
<1>4. \A i \in 1..Len(b) : Len(a) + i \in 1..Len(r) /\ PartSums(Lengths(b))[i - 1] \in Nat
  <2>1. \A i \in 1..Len(b) : i - 1 \in 0..Len(b) /\ Len(a) + i \in 1..Len(a) + Len(b)
    BY <1>2
  <2>2. \A n \in 0..Len(b) : PartSums(Lengths(b))[n] \in Nat
    BY SwTotals
  <2> QED BY <1>1, <2>1, <2>2
<1>5. ASSUME NEW i \in 1..Len(b)
      PROVE  base + PartSums(Lengths(r))[(Len(a) + i) - 1] = base + Total(a) + PartSums(Lengths(b))[i - 1]
  <2>1. /\ PartSums(Lengths(b))[i - 1] \in Nat /\ Total(a) \in Nat
        /\ PartSums(Lengths(r))[(Len(a) + i) - 1] = Total(a) + PartSums(Lengths(b))[i - 1]
    BY <1>1, <1>4
  <2> QED BY <2>1
<1>6. ASSUME Laid(m, r, base) PROVE Laid(m, a, base)
  BY <1>1, <1>3, <1>6 DEF Laid
<1>7. ASSUME Laid(m, r, base) PROVE Laid(m, b, base + Total(a))
  <2> SUFFICES ASSUME NEW i \in 1..Len(b), NEW j \in (b[i].from + 1)..b[i].to
               PROVE  m[b[i].slab][j] = base + Total(a) + PartSums(Lengths(b))[i - 1] + (j - b[i].from - 1)
    BY DEF Laid
  <2>1. Len(a) + i \in 1..Len(r) /\ r[Len(a) + i] = b[i]
    BY <1>1, <1>4
  <2>2. m[b[i].slab][j] = base + PartSums(Lengths(r))[(Len(a) + i) - 1] + (j - b[i].from - 1)
    BY <1>7, <2>1 DEF Laid
  <2> QED BY <1>5, <2>2
<1>8. ASSUME Laid(m, a, base), Laid(m, b, base + Total(a)) PROVE Laid(m, r, base)
  <2> SUFFICES ASSUME NEW i \in 1..Len(r), NEW j \in (r[i].from + 1)..r[i].to
               PROVE  m[r[i].slab][j] = base + PartSums(Lengths(r))[i - 1] + (j - r[i].from - 1)
    BY DEF Laid
  <2>1. CASE i <= Len(a)
    <3>1. i \in 1..Len(a)
      BY <1>1, <1>2, <2>1
    <3>2. r[i] = a[i] /\ PartSums(Lengths(r))[i - 1] = PartSums(Lengths(a))[i - 1]
      BY <1>1, <3>1
    <3> QED BY <1>8, <3>1, <3>2 DEF Laid
  <2>2. CASE ~(i <= Len(a))
    <3>1. PICK k \in 1..Len(b) : i = Len(a) + k
      <4>1. i - Len(a) \in 1..Len(b) /\ i = Len(a) + (i - Len(a))
        BY <1>1, <1>2, <2>2
      <4> QED BY <4>1
    <3>2. r[i] = b[k]
      BY <1>1, <3>1
    <3>3. m[b[k].slab][j] = base + Total(a) + PartSums(Lengths(b))[k - 1] + (j - b[k].from - 1)
      BY <1>8, <3>2 DEF Laid
    <3> QED BY <1>5, <3>1, <3>2, <3>3
  <2> QED BY <2>1, <2>2
<1> QED BY <1>6, <1>7, <1>8 DEF r

LEMMA SwCounted ==
  ASSUME NEW ps \in Seq(SomePiece), NEW s
  PROVE  /\ PiecesIn(ps, s) \in Nat
         /\ PiecesIn(ps, s) = 0 <=> \A i \in 1..Len(ps) : ps[i].slab # s
<1> DEFINE S == {i \in 1..Len(ps) : ps[i].slab = s}
<1>1. Len(ps) \in Nat /\ DOMAIN ps = 1..Len(ps)
  BY SwPieces
<1>2. PiecesIn(ps, s) = Cardinality(S)
  BY <1>1 DEF PiecesIn
<1>3. IsFiniteSet(1..Len(ps)) /\ S \subseteq 1..Len(ps)
  BY <1>1, FS_Interval
<1>4. S = {} <=> \A i \in 1..Len(ps) : ps[i].slab # s
  OBVIOUS
<1> HIDE DEF S
<1>5. IsFiniteSet(S)
  BY <1>3, FS_Subset
<1>6. Cardinality(S) \in Nat /\ (Cardinality(S) = 0 <=> S = {})
  BY <1>5, FS_CardinalityType, FS_EmptySet
<1> QED BY <1>2, <1>4, <1>6

LEMMA SwCountConcat ==
  ASSUME NEW a \in Seq(SomePiece), NEW b \in Seq(SomePiece), NEW s
  PROVE  PiecesIn(a \o b, s) = PiecesIn(a, s) + PiecesIn(b, s)
<1> DEFINE r == a \o b
           A == {i \in 1..Len(a) : a[i].slab = s}
           B == {i \in 1..Len(b) : b[i].slab = s}
           C == {i \in 1..Len(r) : r[i].slab = s}
           D == {i \in C : i > Len(a)}
<1>1. /\ r \in Seq(SomePiece) /\ Len(r) = Len(a) + Len(b)
      /\ \A i \in 1..Len(a) : r[i] = a[i]
      /\ \A i \in 1..Len(b) : r[Len(a) + i] = b[i]
  BY SwConcat
<1>2. /\ Len(a) \in Nat /\ Len(b) \in Nat /\ Len(r) \in Nat
      /\ DOMAIN a = 1..Len(a) /\ DOMAIN b = 1..Len(b) /\ DOMAIN r = 1..Len(r)
  BY <1>1, SwPieces
<1> HIDE DEF r
<1>3. PiecesIn(a, s) = Cardinality(A) /\ PiecesIn(b, s) = Cardinality(B) /\ PiecesIn(r, s) = Cardinality(C)
  BY <1>2 DEF PiecesIn
<1>4. \A i \in 1..Len(r) : i \in A <=> i \in C /\ i <= Len(a)
  BY <1>1, <1>2
<1>5. A \subseteq 1..Len(r) /\ C \subseteq 1..Len(r)
  BY <1>1, <1>2
<1>6. \A i \in 1..Len(b) : i \in B <=> Len(a) + i \in D
  <2> TAKE i \in 1..Len(b)
  <2>1. Len(a) + i \in 1..Len(r) /\ Len(a) + i > Len(a)
    BY <1>1, <1>2
  <2> QED BY <1>1, <2>1
<1>7. \A k \in D : k - Len(a) \in 1..Len(b) /\ Len(a) + (k - Len(a)) = k
  BY <1>1, <1>2
<1>8. C = A \cup D /\ A \cap D = {}
  <2>1. \A k \in 1..Len(r) : k \in D <=> k \in C /\ ~(k <= Len(a))
    BY <1>2
  <2>2. D \subseteq 1..Len(r)
    BY <1>5
  <2> HIDE DEF A, C, D
  <2> QED BY <1>4, <1>5, <2>1, <2>2
<1>9. IsFiniteSet(1..Len(r)) /\ IsFiniteSet(1..Len(b)) /\ D \subseteq 1..Len(r) /\ B \subseteq 1..Len(b)
  <2>1. IsFiniteSet(1..Len(r)) /\ IsFiniteSet(1..Len(b))
    BY <1>2, FS_Interval
  <2>2. D \subseteq 1..Len(r) /\ B \subseteq 1..Len(b)
    BY <1>5
  <2> QED BY <2>1, <2>2
<1>10. IsFiniteSet(A) /\ IsFiniteSet(D) /\ IsFiniteSet(B)
  <2> HIDE DEF A, B, C, D
  <2> QED BY <1>5, <1>9, FS_Subset
<1> HIDE DEF A, C
<1>11. Cardinality(B) = Cardinality(D)
  <2> DEFINE f == [i \in B |-> Len(a) + i]
  <2>1. f \in Bijection(B, D)
    <3>1. \A i \in B : f[i] \in D
      BY <1>6
    <3>2. \A i, k \in B : f[i] = f[k] => i = k
      BY <1>2
    <3>3. \A k \in D : \E i \in B : f[i] = k
      <4> TAKE k \in D
      <4>1. k - Len(a) \in 1..Len(b) /\ Len(a) + (k - Len(a)) = k
        BY <1>7
      <4>2. k - Len(a) \in B
        BY <1>6, <4>1
      <4> HIDE DEF B, D
      <4>3. f[k - Len(a)] = k
        BY <4>1, <4>2
      <4> QED BY <4>2, <4>3
    <3>4. f \in [B -> D]
      BY <3>1
    <3> HIDE DEF f, B, D
    <3> QED BY <3>2, <3>3, <3>4 DEF Bijection, Injection, Surjection, IsInjective
  <2>2. ExistsBijection(B, D)
    BY <2>1 DEF ExistsBijection
  <2> HIDE DEF B, D
  <2> QED BY <1>10, <2>2, FS_Bijection
<1> HIDE DEF B, D
<1>12. Cardinality(A \cup D) = Cardinality(A) + Cardinality(D) - Cardinality(A \cap D)
  BY <1>10, FS_Union
<1>13. Cardinality(A \cap D) = 0 /\ Cardinality(A) \in Nat /\ Cardinality(D) \in Nat
  BY <1>8, <1>10, FS_EmptySet, FS_CardinalityType
<1>14. Cardinality(C) = Cardinality(A) + Cardinality(B)
  BY <1>8, <1>11, <1>12, <1>13
<1> QED BY <1>3, <1>14 DEF r

LEMMA SwSingle ==
  ASSUME NEW p \in SomePiece
  PROVE  /\ <<p>> \in Seq(SomePiece) /\ Len(<<p>>) = 1 /\ <<p>>[1] = p
         /\ Total(<<p>>) = p.to - p.from
         /\ PartSums(Lengths(<<p>>))[0] = 0
         /\ \A s : PiecesIn(<<p>>, s) = IF p.slab = s THEN 1 ELSE 0
<1> DEFINE a == <<p>>
<1>1. a \in Seq(SomePiece) /\ Len(a) = 1 /\ a[1] = p
  OBVIOUS
<1> HIDE DEF a
<1>2. DOMAIN a = 1..1
  BY <1>1, LenProperties
<1>3. /\ PartSums(Lengths(a))[1] = PartSums(Lengths(a))[1 - 1] + (p.to - p.from)
      /\ PartSums(Lengths(a))[0] = 0 /\ Total(a) = PartSums(Lengths(a))[1]
  <2>1. 1 \in 1..Len(a)
    BY <1>1
  <2> QED BY <1>1, <2>1, SwTotals
<1>4. Total(a) = p.to - p.from
  <2>1. p.to - p.from \in Int
    BY SlabAssumption DEF SomePiece
  <2> QED BY <1>3, <2>1
<1>5. ASSUME NEW s PROVE PiecesIn(a, s) = IF p.slab = s THEN 1 ELSE 0
  <2> DEFINE S == {i \in DOMAIN a : a[i].slab = s}
  <2>1. S = IF p.slab = s THEN {1} ELSE {}
    BY <1>1, <1>2
  <2>2. Cardinality({1}) = 1 /\ Cardinality({}) = 0
    BY FS_EmptySet, FS_Singleton
  <2> HIDE DEF S
  <2>3. Cardinality(S) = IF p.slab = s THEN 1 ELSE 0
    BY <2>1, <2>2
  <2> QED BY <2>3 DEF PiecesIn, S
<1> QED BY <1>1, <1>3, <1>4, <1>5 DEF a

LEMMA SwNone ==
  /\ <<>> \in Seq(SomePiece) /\ Len(<<>>) = 0 /\ Total(<<>>) = 0
  /\ \A s : PiecesIn(<<>>, s) = 0
  /\ \A m, base : Laid(m, <<>>, base)
  /\ \A a \in Seq(SomePiece) : a \o <<>> = a /\ <<>> \o a = a
<1> DEFINE e == <<>>
<1>1. e \in Seq(SomePiece) /\ Len(e) = 0
  OBVIOUS
<1>2. \A a \in Seq(SomePiece) : a \o e = a /\ e \o a = a
  BY ConcatEmptySeq
<1> HIDE DEF e
<1>3. Total(e) = 0
  BY <1>1, SwTotals
<1>4. ASSUME NEW s PROVE PiecesIn(e, s) = 0
  <2>1. \A i \in 1..Len(e) : e[i].slab # s
    BY <1>1
  <2> QED BY <1>1, <2>1, SwCounted
<1>5. \A m, base : Laid(m, e, base)
  BY <1>1 DEF Laid
<1> QED BY <1>1, <1>2, <1>3, <1>4, <1>5 DEF e

(* A piece more.                                                           *)
LEMMA SwAppend ==
  ASSUME NEW ps \in Seq(SomePiece), NEW p \in SomePiece
  PROVE  /\ Append(ps, p) = ps \o <<p>> /\ Append(ps, p) \in Seq(SomePiece)
         /\ Len(Append(ps, p)) = Len(ps) + 1
         /\ \A i \in 1..Len(ps) : Append(ps, p)[i] = ps[i]
         /\ Append(ps, p)[Len(ps) + 1] = p
         /\ Total(Append(ps, p)) = Total(ps) + (p.to - p.from)
         /\ \A s : PiecesIn(Append(ps, p), s) = PiecesIn(ps, s) + (IF p.slab = s THEN 1 ELSE 0)
<1>1. Append(ps, p) = ps \o <<p>>
  BY AppendIsConcat
<1> DEFINE a == <<p>>
<1>2. /\ a \in Seq(SomePiece) /\ Len(a) = 1 /\ a[1] = p /\ Total(a) = p.to - p.from
      /\ \A s : PiecesIn(a, s) = IF p.slab = s THEN 1 ELSE 0
  BY SwSingle
<1> HIDE DEF a
<1>3. /\ ps \o a \in Seq(SomePiece) /\ Len(ps \o a) = Len(ps) + 1
      /\ \A i \in 1..Len(ps) : (ps \o a)[i] = ps[i]
      /\ (ps \o a)[Len(ps) + 1] = p
      /\ Total(ps \o a) = Total(ps) + (p.to - p.from)
  <2>1. /\ ps \o a \in Seq(SomePiece) /\ Len(ps \o a) = Len(ps) + Len(a)
        /\ \A i \in 1..Len(ps) : (ps \o a)[i] = ps[i]
        /\ \A i \in 1..Len(a) : (ps \o a)[Len(ps) + i] = a[i]
        /\ Total(ps \o a) = Total(ps) + Total(a)
    BY <1>2, SwConcat
  <2> QED BY <1>2, <2>1
<1>4. \A s : PiecesIn(ps \o a, s) = PiecesIn(ps, s) + (IF p.slab = s THEN 1 ELSE 0)
  BY <1>2, SwCountConcat
<1> QED BY <1>1, <1>3, <1>4 DEF a

LEMMA SwLaidAppend ==
  ASSUME NEW ps \in Seq(SomePiece), NEW p \in SomePiece, NEW m, NEW base \in Int,
         Laid(m, ps, base),
         \A j \in (p.from + 1)..p.to : m[p.slab][j] = base + Total(ps) + (j - p.from - 1)
  PROVE  Laid(m, Append(ps, p), base)
<1> DEFINE a == <<p>>
<1>1. a \in Seq(SomePiece) /\ Len(a) = 1 /\ a[1] = p /\ PartSums(Lengths(a))[0] = 0
  BY SwSingle
<1>2. Append(ps, p) = ps \o a /\ Total(ps) \in Nat
  BY SwAppend, SwTotals
<1> HIDE DEF a
<1>3. Laid(m, a, base + Total(ps))
  <2> SUFFICES ASSUME NEW j \in (p.from + 1)..p.to
               PROVE  m[p.slab][j] = base + Total(ps) + PartSums(Lengths(a))[1 - 1] + (j - p.from - 1)
    BY <1>1 DEF Laid
  <2>1. m[p.slab][j] = base + Total(ps) + (j - p.from - 1)
    OBVIOUS
  <2>2. PartSums(Lengths(a))[1 - 1] = 0
    BY <1>1
  <2> QED BY <1>2, <2>1, <2>2
<1> QED BY <1>1, <1>2, <1>3, SwLaidConcat

LEMMA SwLaidStays ==
  ASSUME NEW ps \in Seq(SomePiece), NEW m, NEW m2, NEW base, Laid(m, ps, base),
         \A i \in 1..Len(ps) : \A j \in (ps[i].from + 1)..ps[i].to : m2[ps[i].slab][j] = m[ps[i].slab][j]
  PROVE  Laid(m2, ps, base)
BY DEF Laid

(* Each byte of a write is where the pieces say.                           *)
LEMMA SwByteAt ==
  ASSUME NEW ps \in Seq(SomePiece), NEW base \in Int, Laid(bytesIn, ps, base),
         NEW k \in Nat, k < Total(ps)
  PROVE  ByteAt(ps, k) = base + k
<1> DEFINE P(n) == PartSums(Lengths(ps))[n]
           T == {n \in 0..Len(ps) : k < P(n)}
           at == CHOOSE i \in DOMAIN ps : Covers(ps, i, k)
<1>1. /\ Len(ps) \in Nat /\ DOMAIN ps = 1..Len(ps)
      /\ \A i \in 1..Len(ps) :
              /\ ps[i].from \in Nat /\ ps[i].to \in Nat /\ ps[i].from < ps[i].to
  BY SwPieces
<1>2. /\ \A n \in 0..Len(ps) : P(n) \in Nat
      /\ P(0) = 0 /\ Total(ps) = P(Len(ps))
      /\ \A i \in 1..Len(ps) : P(i) = P(i - 1) + (ps[i].to - ps[i].from)
  BY SwTotals
<1> HIDE DEF P
<1>3. \E i \in DOMAIN ps : Covers(ps, i, k)
  <2>1. T \subseteq Nat /\ Len(ps) \in T
    BY <1>1, <1>2
  <2> HIDE DEF T
  <2>2. PICK n \in T : \A y \in T : n <= y
    BY <2>1, LeastOf
  <2> USE DEF T
  <2>3. n \in 1..Len(ps) /\ k < P(n)
    BY <1>2, <2>2
  <2>4. n - 1 \in 0..Len(ps) /\ n - 1 \notin T
    BY <1>1, <2>2, <2>3
  <2>5. P(n - 1) <= k
    BY <1>2, <2>4
  <2> QED BY <1>1, <2>3, <2>5 DEF Covers, P
<1>4. at \in 1..Len(ps) /\ Covers(ps, at, k)
  BY <1>1, <1>3
<1>5. ByteAt(ps, k) = bytesIn[ps[at].slab][ps[at].from + 1 + k - P(at - 1)]
  BY Zenon DEF ByteAt, P
<1> HIDE DEF at
<1>6. at - 1 \in 0..Len(ps)
  BY <1>1, <1>4
<1>7. P(at - 1) <= k /\ k < P(at)
  BY <1>4 DEF P, Covers
<1> DEFINE j == ps[at].from + 1 + k - P(at - 1)
<1>8. P(at - 1) <= k /\ k < P(at - 1) + (ps[at].to - ps[at].from) /\ P(at - 1) \in Nat
  BY <1>2, <1>4, <1>6, <1>7
<1>9. j \in (ps[at].from + 1)..ps[at].to /\ P(at - 1) + (j - ps[at].from - 1) = k /\ j \in Int
  <2>1. /\ \E x \in Nat : x = ps[at].from
        /\ \E y \in Nat : y = ps[at].to
        /\ \E z \in Nat : z = P(at - 1)
    BY <1>1, <1>4, <1>8
  <2>2. PICK x \in Nat : x = ps[at].from
    BY <2>1
  <2>3. PICK y \in Nat : y = ps[at].to
    BY <2>1
  <2>4. PICK z \in Nat : z = P(at - 1)
    BY <2>1
  <2>5. z <= k /\ k < z + (y - x) /\ j = x + 1 + k - z
    BY <1>8, <2>2, <2>3, <2>4
  <2> HIDE DEF j
  <2>6. j \in (x + 1)..y /\ z + (j - x - 1) = k /\ j \in Int
    BY <2>5
  <2> QED BY <2>2, <2>3, <2>4, <2>6
<1> HIDE DEF j
<1>10. bytesIn[ps[at].slab][j] = base + P(at - 1) + (j - ps[at].from - 1)
  BY <1>4, <1>9 DEF Laid, P
<1>11. base + P(at - 1) + (j - ps[at].from - 1) = base + k
  <2>1. ps[at].from \in Int /\ P(at - 1) \in Int
    BY <1>1, <1>4, <1>8
  <2> QED BY <1>9, <2>1
<1> QED BY <1>5, <1>10, <1>11 DEF j

-----------------------------------------------------------------------------
(* What has been submitted and is not yet written.                         *)
Backlog == writev \o pieces

(* The slabs with references r, other than x.                              *)
HeldBeside(r, x) == {s \in Slabs : r[s] > 0 /\ s # x}

SwTypes ==
  /\ sends \in Nat /\ received \in 0..sends
  /\ rangeFinal \in BOOLEAN /\ rangeLength \in 1..RangeLength
  /\ socketAt \in {"open", "ended", "closed"}
  /\ slab \in Slabs \cup {NoSlab} /\ fill \in 0..SlabSize /\ sent \in 0..fill
  /\ partialTimer \in BOOLEAN /\ refs \in [Slabs -> Nat]
  /\ bytesIn \in [Slabs -> [1..SlabSize -> Int]]
  /\ pieces \in Seq(SomePiece) /\ writev \in Seq(SomePiece) /\ room \in Int
  /\ slabsQueued \in Nat /\ paused \in BOOLEAN
  /\ written \in Nat /\ inFile \in [0..RangeLength -> Int]
  /\ writerEnd \in {"none", "ended", "done", "overflow", "error"}
  /\ writerStopped \in BOOLEAN /\ fdClosed \in BOOLEAN

(* Who holds the slabs; a socket that reads leaves room for one more.      *)
SwSlabs ==
  /\ \A s \in Slabs : refs[s] = PiecesIn(Backlog, s) + (IF s = slab THEN 1 ELSE 0)
  /\ slabsQueued = Cardinality(HeldBeside(refs, slab))
  /\ slabsQueued <= SlabCount - 1
  /\ socketAt = "open" /\ ~paused => slabsQueued <= SlabCount - 2
  /\ paused => slab = NoSlab
  /\ slab = NoSlab => fill = 0 /\ sent = 0
  /\ \A i \in 1..Len(Backlog) : Backlog[i].slab = slab => Backlog[i].to <= sent

(* The bytes that are not yet in the file follow those that are, those of  *)
(* the socket's slab last.                                                 *)
SwBytes ==
  /\ Laid(bytesIn, Backlog, written)
  /\ ~Destroyed =>
       /\ received = written + Total(Backlog) + (fill - sent)
       /\ \A j \in (sent + 1)..fill : bytesIn[slab][j] = written + Total(Backlog) + (j - sent - 1)

SwRoom ==
  writev # <<>> =>
    \/ room = rangeLength - written
    \/ Total(writev) < rangeLength - written /\ rangeLength - written <= room

SwEnds ==
  /\ writev = <<>> => pieces = <<>>
  /\ writerEnd = "ended" => socketAt = "ended"
  /\ socketAt = "ended" => writerEnd # "none" /\ slab = NoSlab
  /\ socketAt = "closed" => Destroyed
  /\ writerStopped => writerEnd # "none"
  /\ writerStopped /\ ~Destroyed => writev = <<>>
  /\ fdClosed => writerStopped /\ writev = <<>>
  /\ writerEnd = "done" => writev = <<>> /\ written = rangeLength /\ ~rangeFinal

SwFile ==
  /\ written <= rangeLength
  /\ \A o \in 0..RangeLength : inFile[o] = IF o < written THEN o ELSE Foreign

SwInv == SwTypes /\ SwSlabs /\ SwBytes /\ SwRoom /\ SwEnds /\ SwFile

-----------------------------------------------------------------------------
LEMMA SwBacklog ==
  ASSUME writev \in Seq(SomePiece), pieces \in Seq(SomePiece)
  PROVE  /\ Backlog \in Seq(SomePiece) /\ Len(Backlog) \in Nat
         /\ Total(Backlog) = Total(writev) + Total(pieces)
         /\ Total(Backlog) \in Nat /\ Total(writev) \in Nat /\ Total(pieces) \in Nat
         /\ \A s : /\ PiecesIn(Backlog, s) = PiecesIn(writev, s) + PiecesIn(pieces, s)
                   /\ PiecesIn(Backlog, s) \in Nat
                   /\ PiecesIn(writev, s) \in Nat /\ PiecesIn(pieces, s) \in Nat
<1>1. Backlog \in Seq(SomePiece) /\ Total(Backlog) = Total(writev) + Total(pieces)
  BY SwConcat DEF Backlog
<1>2. \A s : PiecesIn(Backlog, s) = PiecesIn(writev, s) + PiecesIn(pieces, s)
  BY SwCountConcat DEF Backlog
<1>3. Len(Backlog) \in Nat /\ Total(Backlog) \in Nat /\ Total(writev) \in Nat /\ Total(pieces) \in Nat
  BY <1>1, SwPieces, SwTotals
<1>4. \A s : /\ PiecesIn(Backlog, s) \in Nat
             /\ PiecesIn(writev, s) \in Nat /\ PiecesIn(pieces, s) \in Nat
  BY <1>1, SwCounted
<1> QED BY <1>1, <1>2, <1>3, <1>4

(* A new piece stands last.                                                *)
LEMMA SwWrites ==
  ASSUME writev \in Seq(SomePiece), pieces \in Seq(SomePiece), NEW p \in SomePiece,
         writev = <<>> => pieces = <<>>, Write(p)
  PROVE  /\ writev' \in Seq(SomePiece) /\ pieces' \in Seq(SomePiece) /\ writev' # <<>>
         /\ Backlog' = Append(Backlog, p)
         /\ writev # <<>> => writev' = writev /\ room' = room
         /\ writev = <<>> => room' = rangeLength - written
<1>1. CASE writev = <<>>
  <2>1. writev' = <<p>> /\ room' = rangeLength - written /\ pieces = <<>> /\ pieces' = <<>>
    BY <1>1 DEF Write
  <2>2. <<p>> \in Seq(SomePiece) /\ <<p>> # <<>>
    BY SwSingle
  <2>3. Backlog = <<>> /\ Backlog' = <<p>> /\ Append(Backlog, p) = <<p>>
    <3>1. <<p>> \o <<>> = <<p>> /\ <<>> \o <<>> = <<>> /\ <<>> \o <<p>> = <<p>>
      BY <2>2, SwNone
    <3>2. Append(<<>>, p) = <<>> \o <<p>>
      BY SwNone, SwAppend
    <3>3. Backlog = <<>> /\ Backlog' = <<p>>
      BY <1>1, <2>1, <3>1 DEF Backlog
    <3> QED BY <3>1, <3>2, <3>3
  <2> QED BY <1>1, <2>1, <2>2, <2>3
<1>2. CASE writev # <<>>
  <2>1. pieces' = Append(pieces, p) /\ writev' = writev /\ room' = room
    BY <1>2 DEF Write
  <2>2. Append(pieces, p) \in Seq(SomePiece) /\ Append(pieces, p) = pieces \o <<p>>
    BY SwAppend
  <2>3. Backlog \in Seq(SomePiece) /\ Append(Backlog, p) = Backlog \o <<p>>
    BY SwBacklog, SwAppend
  <2>4. writev \o (pieces \o <<p>>) = (writev \o pieces) \o <<p>>
    BY SwSingle, ConcatAssociative
  <2>5. Backlog' = Append(Backlog, p)
    BY <2>1, <2>2, <2>3, <2>4, Zenon DEF Backlog
  <2> QED BY <1>2, <2>1, <2>2, <2>5
<1> QED BY <1>1, <1>2

(* Bytes of slabs that are held stay.                                      *)
LEMMA SwKept ==
  ASSUME NEW ps \in Seq(SomePiece), NEW base, NEW m, Laid(bytesIn, ps, base),
         \A s \in Slabs : PiecesIn(ps, s) > 0 => m[s] = bytesIn[s]
  PROVE  Laid(m, ps, base)
<1>1. ASSUME NEW i \in 1..Len(ps) PROVE m[ps[i].slab] = bytesIn[ps[i].slab]
  <2>1. ps[i].slab \in Slabs
    BY SwPieces
  <2>2. PiecesIn(ps, ps[i].slab) \in Nat /\ PiecesIn(ps, ps[i].slab) # 0
    BY SwCounted
  <2>3. PiecesIn(ps, ps[i].slab) > 0
    BY <2>2
  <2> QED BY <2>1, <2>3
<1> QED BY <1>1, SwLaidStays

LEMMA SlabsFinite == ASSUME NEW S, S \subseteq Slabs PROVE IsFiniteSet(S) /\ Cardinality(S) \in Nat
<1>1. IsFiniteSet(Slabs)
  BY SlabAssumption, FS_Interval DEF Slabs
<1> QED BY <1>1, FS_Subset, FS_CardinalityType

(* What the return of slabs to the pool does.                              *)
LEMMA SwSettles ==
  ASSUME SwTypes, NEW r \in [Slabs -> Nat], NEW q \in Nat, NEW x,
         Settle(r, bytesIn, q),
         \A s \in Slabs : r[s] > 0 => refs[s] > 0,
         q = Cardinality(HeldBeside(refs, x)),
         \A s \in Slabs : s = x /\ refs[s] > 0 => r[s] > 0
  PROVE  /\ refs' = r /\ bytesIn' \in [Slabs -> [1..SlabSize -> Int]]
         /\ \A s \in Slabs : r[s] > 0 => bytesIn'[s] = bytesIn[s]
         /\ slabsQueued' \in Nat /\ slabsQueued' <= q
         /\ slabsQueued' = Cardinality(HeldBeside(r, x))
         /\ paused' \in BOOLEAN /\ (paused' => paused)
         /\ paused /\ ~paused' => slabsQueued' <= SlabCount - 2
<1> DEFINE back == {s \in Slabs : refs[s] > 0 /\ r[s] = 0}
           U == HeldBeside(refs, x)
           V == HeldBeside(r, x)
           other == [i \in 1..SlabSize |-> Foreign]
<1>1. /\ refs' = r
      /\ bytesIn' = [s \in Slabs |-> IF s \in back THEN other ELSE bytesIn[s]]
      /\ slabsQueued' = q - Cardinality(back)
      /\ paused' = (paused /\ (back = {} \/ q - Cardinality(back) >= SlabCount - 1))
  BY DEF Settle
<1>2. /\ refs \in [Slabs -> Nat] /\ bytesIn \in [Slabs -> [1..SlabSize -> Int]] /\ paused \in BOOLEAN
  BY DEF SwTypes
<1>3. other \in [1..SlabSize -> Int]
  BY DEF Foreign
<1>4. back \subseteq U /\ V = U \ back
  <2>1. \A s \in Slabs : refs[s] \in Nat /\ r[s] \in Nat
    BY <1>2
  <2>2. \A s \in Slabs : s \in V <=> s \in U /\ s \notin back
    BY <2>1 DEF HeldBeside
  <2>3. \A s \in Slabs : s \in back => s \in U
    BY <2>1 DEF HeldBeside
  <2>4. V \subseteq Slabs /\ U \subseteq Slabs /\ back \subseteq Slabs
    BY DEF HeldBeside
  <2> HIDE DEF back, U, V
  <2> QED BY <2>2, <2>3, <2>4
<1>5. \A s \in Slabs : r[s] > 0 => s \notin back
  BY <1>2
<1>6. U \subseteq Slabs
  BY DEF HeldBeside
<1> HIDE DEF back, U, V, other
<1>7. /\ IsFiniteSet(U) /\ Cardinality(U) \in Nat /\ IsFiniteSet(back) /\ Cardinality(back) \in Nat
      /\ Cardinality(V) \in Nat
  BY <1>4, <1>6, SlabsFinite
<1>8. Cardinality(V) = Cardinality(U) - Cardinality(back)
  <2>1. Cardinality(U \ back) = Cardinality(U) - Cardinality(U \cap back)
    BY <1>7, FS_Difference
  <2>2. U \cap back = back
    BY <1>4
  <2> QED BY <1>4, <2>1, <2>2
<1>9. q = Cardinality(U)
  BY DEF U
<1>10. slabsQueued' = Cardinality(V) /\ slabsQueued' \in Nat /\ slabsQueued' <= q
  BY <1>1, <1>7, <1>8, <1>9
<1>11. bytesIn' \in [Slabs -> [1..SlabSize -> Int]] /\ \A s \in Slabs : r[s] > 0 => bytesIn'[s] = bytesIn[s]
  BY <1>1, <1>2, <1>3, <1>5
<1>12. paused' \in BOOLEAN /\ (paused' => paused)
  BY <1>1, <1>2
<1>13. paused /\ ~paused' => slabsQueued' <= SlabCount - 2
  <2>1. SlabCount \in Nat
    BY SlabAssumption
  <2>2. paused /\ ~paused' => ~(slabsQueued' >= SlabCount - 1)
    BY <1>1
  <2> QED BY <1>10, <2>1, <2>2
<1> QED BY <1>1, <1>10, <1>11, <1>12, <1>13 DEF V

LEMMA SwStarts == SlabInit => SwInv
<1> SUFFICES ASSUME SlabInit PROVE SwInv
  OBVIOUS
<1> USE SlabAssumption
<1>1. SwTypes
  <2>1. sends \in Nat /\ received \in 0..sends /\ rangeLength \in 1..RangeLength
    BY DEF SlabInit
  <2>2. refs \in [Slabs -> Nat] /\ bytesIn \in [Slabs -> [1..SlabSize -> Int]]
        /\ inFile \in [0..RangeLength -> Int]
    BY DEF SlabInit, Foreign
  <2>3. pieces \in Seq(SomePiece) /\ writev \in Seq(SomePiece)
    BY SwNone DEF SlabInit
  <2>4. fill \in 0..SlabSize /\ sent \in 0..fill /\ slab \in Slabs \cup {NoSlab}
    BY DEF SlabInit
  <2>5. /\ rangeFinal \in BOOLEAN /\ socketAt \in {"open", "ended", "closed"}
        /\ writerEnd \in {"none", "ended", "done", "overflow", "error"}
        /\ partialTimer \in BOOLEAN /\ paused \in BOOLEAN
        /\ writerStopped \in BOOLEAN /\ fdClosed \in BOOLEAN
    BY Zenon DEF SlabInit
  <2>6. room \in Int /\ slabsQueued \in Nat /\ written \in Nat
    BY DEF SlabInit
  <2> QED BY <2>1, <2>2, <2>3, <2>4, <2>5, <2>6, Zenon DEF SwTypes
<1>2. Backlog = <<>> /\ writev = <<>> /\ pieces = <<>> /\ writerEnd = "none"
  BY SwNone DEF SlabInit, Backlog
<1>3. SwSlabs
  <2>1. HeldBeside(refs, slab) = {}
    BY DEF SlabInit, HeldBeside
  <2>2. Cardinality({}) = 0
    BY FS_EmptySet
  <2>3. \A s \in Slabs : refs[s] = PiecesIn(Backlog, s) + (IF s = slab THEN 1 ELSE 0)
    BY <1>2, SwNone DEF SlabInit, Slabs, NoSlab
  <2>4. Len(Backlog) = 0
    BY <1>2, SwNone
  <2>5. \A i \in 1..Len(Backlog) : FALSE
    BY <2>4
  <2>6. /\ slabsQueued = 0 /\ paused = FALSE /\ fill = 0 /\ sent = 0
        /\ slabsQueued <= SlabCount - 1 /\ slabsQueued <= SlabCount - 2
    BY DEF SlabInit
  <2>7. slabsQueued = Cardinality(HeldBeside(refs, slab))
    BY <2>1, <2>2, <2>6, Zenon
  <2> QED BY <2>3, <2>5, <2>6, <2>7 DEF SwSlabs
<1>4. SwBytes
  <2>1. Laid(bytesIn, Backlog, written) /\ Total(Backlog) = 0
    BY <1>2, SwNone
  <2> QED BY <2>1 DEF SwBytes, SlabInit
<1>5. SwRoom /\ SwEnds /\ SwFile
  BY <1>2 DEF SlabInit, SwRoom, SwEnds, SwFile, Destroyed
<1> QED BY <1>1, <1>3, <1>4, <1>5 DEF SwInv

(* What every step may use.                                                *)
LEMMA SwFacts ==
  ASSUME SwInv
  PROVE  /\ SwTypes /\ Backlog \in Seq(SomePiece) /\ Len(Backlog) \in Nat /\ Total(Backlog) \in Nat
         /\ slab \in Slabs => slab # NoSlab
         /\ NoSlab \notin Slabs
         /\ \A s \in Slabs : PiecesIn(Backlog, s) \in Nat /\ refs[s] \in Nat
         /\ \A i \in 1..Len(Backlog) :
              /\ Backlog[i].slab \in Slabs /\ Backlog[i].from \in Nat /\ Backlog[i].to \in Nat
<1>1. SwTypes /\ writev \in Seq(SomePiece) /\ pieces \in Seq(SomePiece) /\ refs \in [Slabs -> Nat]
  BY DEF SwInv, SwTypes
<1>2. NoSlab \notin Slabs
  BY DEF Slabs, NoSlab
<1>3. Backlog \in Seq(SomePiece) /\ Len(Backlog) \in Nat /\ Total(Backlog) \in Nat
      /\ \A s : PiecesIn(Backlog, s) \in Nat
  BY <1>1, SwBacklog
<1>4. \A i \in 1..Len(Backlog) : Backlog[i].slab \in Slabs /\ Backlog[i].from \in Nat /\ Backlog[i].to \in Nat
  BY <1>3, SwPieces
<1> QED BY <1>1, <1>2, <1>3, <1>4

LEMMA SwReceives ==
  ASSUME SwInv, NEW n \in 1..SlabSize, Receive(n)
  PROVE  SwInv'
<1> DEFINE held(s) == [refs EXCEPT ![s] = IF slab = NoSlab THEN 1 ELSE @]
           got(s) == [bytesIn EXCEPT ![s] = [i \in 1..SlabSize |->
                        IF i \in (fill + 1)..(fill + n) THEN received + i - fill - 1 ELSE @[i]]]
           TakenNot(s) ==
             /\ Ending
             /\ slab' = s /\ refs' = held(s) /\ bytesIn' = got(s)
             /\ UNCHANGED <<fill, sent, partialTimer, pieces, writev, room, slabsQueued, paused>>
           Partly(s) ==
             /\ ~Ending /\ fill + n < SlabSize
             /\ slab' = s /\ refs' = held(s) /\ bytesIn' = got(s)
             /\ fill' = fill + n /\ partialTimer' = TRUE
             /\ UNCHANGED <<sent, pieces, writev, room, slabsQueued, paused>>
           Full(s) ==
             /\ ~Ending /\ fill + n = SlabSize
             /\ Write(Piece(s, sent, SlabSize))
             /\ slab' = NoSlab /\ fill' = 0 /\ sent' = 0 /\ partialTimer' = FALSE
             /\ refs' = [PieceRef(held(s), s) EXCEPT ![s] = @ - 1]
             /\ bytesIn' = got(s)
             /\ slabsQueued' = slabsQueued + 1
             /\ paused' = (slabsQueued + 1 >= SlabCount - 1)
<1>1. /\ socketAt = "open" /\ ~paused /\ received + n <= sends /\ fill + n <= SlabSize
      /\ received' = received + n
      /\ sends' = sends /\ rangeFinal' = rangeFinal /\ rangeLength' = rangeLength
      /\ socketAt' = socketAt /\ written' = written /\ inFile' = inFile /\ fdClosed' = fdClosed
      /\ writerEnd' = writerEnd /\ writerStopped' = writerStopped
  BY DEF Receive, rangeVars, fileVars
<1>2. PICK s \in Slabs :
        /\ IF slab # NoSlab THEN s = slab ELSE refs[s] = 0
        /\ TakenNot(s) \/ Partly(s) \/ Full(s)
  <2>1. \E s \in Slabs :
          /\ IF slab # NoSlab THEN s = slab
             ELSE refs[s] = 0 /\ \A t \in 1..(s - 1) : refs[t] # 0
          /\ TakenNot(s) \/ Partly(s) \/ Full(s)
    BY Zenon DEF Receive
  <2> HIDE DEF TakenNot, Partly, Full
  <2> QED BY <2>1
<1> HIDE DEF TakenNot, Partly, Full, held, got
<1>3. /\ Backlog \in Seq(SomePiece) /\ Len(Backlog) \in Nat /\ Total(Backlog) \in Nat
      /\ NoSlab \notin Slabs /\ s # NoSlab
      /\ \A t \in Slabs : PiecesIn(Backlog, t) \in Nat /\ refs[t] \in Nat
      /\ \A i \in 1..Len(Backlog) :
              /\ Backlog[i].slab \in Slabs /\ Backlog[i].from \in Nat /\ Backlog[i].to \in Nat
  BY SwFacts
<1>4. /\ sends \in Nat /\ received \in Nat /\ received <= sends
      /\ fill \in Nat /\ fill <= SlabSize /\ sent \in Nat /\ sent <= fill
      /\ refs \in [Slabs -> Nat] /\ bytesIn \in [Slabs -> [1..SlabSize -> Int]]
      /\ pieces \in Seq(SomePiece) /\ writev \in Seq(SomePiece)
      /\ slabsQueued \in Nat /\ written \in Nat /\ SlabSize \in Nat /\ n \in Nat /\ n > 0
      /\ SlabCount \in Nat
  BY SlabAssumption DEF SwInv, SwTypes
<1>5. /\ \A t \in Slabs : refs[t] = PiecesIn(Backlog, t) + (IF t = slab THEN 1 ELSE 0)
      /\ slabsQueued = Cardinality(HeldBeside(refs, slab))
      /\ slabsQueued <= SlabCount - 2
      /\ slab = NoSlab => fill = 0 /\ sent = 0
      /\ \A i \in 1..Len(Backlog) : Backlog[i].slab = slab => Backlog[i].to <= sent
  BY <1>1 DEF SwInv, SwSlabs
<1>6. /\ held(s) \in [Slabs -> Nat]
      /\ \A t \in Slabs : held(s)[t] = PiecesIn(Backlog, t) + (IF t = s THEN 1 ELSE 0)
  <2>1. held(s) = [t \in Slabs |-> IF t = s THEN (IF slab = NoSlab THEN 1 ELSE refs[s]) ELSE refs[t]]
    BY <1>4 DEF held
  <2>2. CASE slab = NoSlab
    BY <1>2, <1>3, <1>5, <2>1, <2>2
  <2>3. CASE slab # NoSlab
    BY <1>2, <1>3, <1>5, <2>1, <2>3
  <2> QED BY <2>2, <2>3
<1>7. \A i \in 1..Len(Backlog) : Backlog[i].slab = s => Backlog[i].to <= sent
  <2>1. CASE slab = NoSlab
    <3>1. PiecesIn(Backlog, s) = 0
      BY <1>2, <1>3, <1>5, <2>1
    <3> QED BY <1>3, <3>1, SwCounted
  <2>2. CASE slab # NoSlab
    BY <1>2, <1>5, <2>2
  <2> QED BY <2>1, <2>2
<1>8. /\ got(s) \in [Slabs -> [1..SlabSize -> Int]]
      /\ \A t \in Slabs : t # s => got(s)[t] = bytesIn[t]
      /\ \A j \in 1..SlabSize : got(s)[s][j] = IF j \in (fill + 1)..(fill + n) THEN received + j - fill - 1
                                                ELSE bytesIn[s][j]
  <2> DEFINE new == [i \in 1..SlabSize |->
                       IF i \in (fill + 1)..(fill + n) THEN received + i - fill - 1 ELSE bytesIn[s][i]]
  <2>1. new \in [1..SlabSize -> Int]
    BY <1>4
  <2>2. got(s) = [bytesIn EXCEPT ![s] = new]
    BY DEF got
  <2>3. \A j \in 1..SlabSize : new[j] = IF j \in (fill + 1)..(fill + n) THEN received + j - fill - 1
                                        ELSE bytesIn[s][j]
    OBVIOUS
  <2> HIDE DEF new
  <2>4. /\ got(s) \in [Slabs -> [1..SlabSize -> Int]] /\ got(s)[s] = new
        /\ \A t \in Slabs : t # s => got(s)[t] = bytesIn[t]
    BY <1>4, <2>1, <2>2
  <2> QED BY <2>3, <2>4
<1>9. Laid(got(s), Backlog, written)
  <2>1. Laid(bytesIn, Backlog, written)
    BY DEF SwInv, SwBytes
  <2>2. ASSUME NEW i \in 1..Len(Backlog), NEW j \in (Backlog[i].from + 1)..Backlog[i].to
        PROVE  got(s)[Backlog[i].slab][j] = bytesIn[Backlog[i].slab][j]
    <3>1. CASE Backlog[i].slab # s
      BY <1>3, <1>8, <3>1
    <3>2. CASE Backlog[i].slab = s
      <4>1. Backlog[i].to <= sent /\ Backlog[i].from \in Nat /\ Backlog[i].to \in Nat
        BY <1>3, <1>7, <3>2
      <4>2. j \in 1..SlabSize /\ j \notin (fill + 1)..(fill + n)
        <5>1. Backlog[i].to \in Int /\ Backlog[i].from \in Int /\ j <= Backlog[i].to /\ j >= Backlog[i].from + 1
          BY <4>1
        <5>2. /\ fill \in Nat /\ fill <= SlabSize /\ sent \in Nat /\ sent <= fill /\ SlabSize \in Nat /\ n \in Nat
          BY <1>4
        <5>3. j \in Int /\ j >= 1 /\ j <= sent
          BY <4>1, <5>1, <5>2
        <5> QED BY <5>2, <5>3
      <4> QED BY <1>8, <3>2, <4>2
    <3> QED BY <3>1, <3>2
  <2> QED BY <1>3, <2>1, <2>2, SwLaidStays
<1>10. ~Destroyed =>
         /\ received + n = written + Total(Backlog) + ((fill + n) - sent)
         /\ \A j \in (sent + 1)..(fill + n) : got(s)[s][j] = written + Total(Backlog) + (j - sent - 1)
  <2> SUFFICES ASSUME ~Destroyed
               PROVE  /\ received + n = written + Total(Backlog) + ((fill + n) - sent)
                      /\ \A j \in (sent + 1)..(fill + n) :
                           got(s)[s][j] = written + Total(Backlog) + (j - sent - 1)
    OBVIOUS
  <2>1. /\ received = written + Total(Backlog) + (fill - sent)
        /\ \A j \in (sent + 1)..fill : bytesIn[slab][j] = written + Total(Backlog) + (j - sent - 1)
    BY DEF SwInv, SwBytes
  <2>2. received + n = written + Total(Backlog) + ((fill + n) - sent)
    BY <1>3, <1>4, <2>1
  <2>3. ASSUME NEW j \in (sent + 1)..(fill + n)
        PROVE  got(s)[s][j] = written + Total(Backlog) + (j - sent - 1)
    <3>1. j \in 1..SlabSize /\ j \in Int
      BY <1>1, <1>4
    <3>2. CASE j <= fill
      <4>1. slab # NoSlab
        BY <1>4, <1>5, <3>2
      <4>2. j \in (sent + 1)..fill /\ j \notin (fill + 1)..(fill + n)
        BY <1>4, <3>1, <3>2
      <4>3. got(s)[s][j] = bytesIn[s][j] /\ s = slab
        BY <1>2, <1>8, <3>1, <4>1, <4>2
      <4> QED BY <2>1, <4>2, <4>3
    <3>3. CASE ~(j <= fill)
      <4>1. j \in (fill + 1)..(fill + n)
        BY <1>4, <3>1, <3>3
      <4>2. got(s)[s][j] = received + j - fill - 1
        BY <1>8, <3>1, <4>1
      <4> QED BY <1>3, <1>4, <2>1, <3>1, <4>2
    <3> QED BY <3>2, <3>3
  <2> QED BY <2>2, <2>3
<1>11. HeldBeside(held(s), s) = HeldBeside(refs, slab)
  <2>1. \A t \in Slabs : held(s)[t] > 0 /\ t # s <=> refs[t] > 0 /\ t # slab
    <3>1. CASE slab = NoSlab
      BY <1>2, <1>3, <1>5, <1>6, <3>1
    <3>2. CASE slab # NoSlab
      BY <1>2, <1>3, <1>5, <1>6, <3>2
    <3> QED BY <3>1, <3>2
  <2> QED BY <2>1 DEF HeldBeside
<1>12. SwFile'
  <2>1. SwFile
    BY DEF SwInv
  <2> QED BY <1>1, <2>1 DEF SwFile
<1>13. CASE TakenNot(s) \/ Partly(s)
  <2>1. /\ slab' = s /\ refs' = held(s) /\ bytesIn' = got(s)
        /\ sent' = sent /\ pieces' = pieces /\ writev' = writev /\ room' = room
        /\ slabsQueued' = slabsQueued /\ paused' = paused
        /\ fill' \in Nat /\ fill' <= SlabSize /\ sent <= fill'
    BY <1>1, <1>4, <1>13 DEF TakenNot, Partly
  <2>2. Backlog' = Backlog
    BY <2>1 DEF Backlog
  <2>3. SwTypes'
    <3>1. partialTimer' \in BOOLEAN
      BY <1>13, Zenon DEF TakenNot, Partly, SwInv, SwTypes
    <3>2. received' \in 0..sends' /\ fill' \in 0..SlabSize /\ sent' \in 0..fill'
      BY <1>1, <1>4, <2>1
    <3>3. refs' \in [Slabs -> Nat] /\ bytesIn' \in [Slabs -> [1..SlabSize -> Int]]
          /\ slab' \in Slabs \cup {NoSlab}
      BY <1>6, <1>8, <2>1
    <3>4. SwTypes
      BY DEF SwInv
    <3> QED BY <1>1, <2>1, <3>1, <3>2, <3>3, <3>4, Zenon DEF SwTypes
  <2>4. SwSlabs'
    <3>1. \A t \in Slabs : refs'[t] = PiecesIn(Backlog', t) + (IF t = slab' THEN 1 ELSE 0)
      BY <1>6, <2>1, <2>2
    <3>2. slabsQueued' = Cardinality(HeldBeside(refs', slab'))
      BY <1>5, <1>11, <2>1
    <3>3. \A i \in 1..Len(Backlog') : Backlog'[i].slab = slab' => Backlog'[i].to <= sent'
      BY <1>7, <2>1, <2>2
    <3>4. slabsQueued' <= SlabCount - 1 /\ slabsQueued' <= SlabCount - 2 /\ ~paused' /\ slab' # NoSlab
      BY <1>1, <1>3, <1>4, <1>5, <2>1
    <3> QED BY <3>1, <3>2, <3>3, <3>4 DEF SwSlabs
  <2>5. SwBytes'
    <3>1. Laid(bytesIn', Backlog', written')
      BY <1>1, <1>9, <2>1, <2>2
    <3>2. Destroyed' <=> Destroyed
      BY <1>1 DEF Destroyed
    <3>3. ~Destroyed => fill' = fill + n
      <4>1. Ending => Destroyed
        BY <1>1, Zenon DEF Ending, Destroyed, SwInv, SwEnds
      <4> QED BY <1>13, <4>1 DEF TakenNot, Partly
    <3>4. ~Destroyed => /\ received' = written' + Total(Backlog') + (fill' - sent')
                        /\ \A j \in (sent' + 1)..fill' :
                             bytesIn'[slab'][j] = written' + Total(Backlog') + (j - sent' - 1)
      BY <1>1, <1>10, <2>1, <2>2, <3>3
    <3> QED BY <3>1, <3>2, <3>4, Zenon DEF SwBytes
  <2>6. SwRoom' /\ SwEnds'
    <3>1. SwRoom /\ SwEnds /\ slab' # NoSlab
      BY <1>3, <2>1 DEF SwInv
    <3> QED BY <1>1, <2>1, <3>1 DEF SwRoom, SwEnds, Destroyed
  <2> QED BY <1>12, <2>3, <2>4, <2>5, <2>6 DEF SwInv
<1>14. CASE Full(s)
  <2> DEFINE p == Piece(s, sent, SlabSize)
  <2>1. /\ slab' = NoSlab /\ fill' = 0 /\ sent' = 0 /\ partialTimer' = FALSE
        /\ refs' = [PieceRef(held(s), s) EXCEPT ![s] = @ - 1] /\ bytesIn' = got(s)
        /\ slabsQueued' = slabsQueued + 1 /\ paused' = (slabsQueued + 1 >= SlabCount - 1)
        /\ fill + n = SlabSize /\ ~Ending /\ Write(p)
    BY <1>14 DEF Full
  <2>2. p \in SomePiece /\ p.slab = s /\ p.from = sent /\ p.to = SlabSize
    BY <1>4, <2>1 DEF Piece, SomePiece
  <2> HIDE DEF p
  <2>3. writev = <<>> => pieces = <<>>
    BY DEF SwInv, SwEnds
  <2>4. /\ writev' \in Seq(SomePiece) /\ pieces' \in Seq(SomePiece) /\ writev' # <<>>
        /\ Backlog' = Append(Backlog, p)
        /\ writev # <<>> => writev' = writev /\ room' = room
        /\ writev = <<>> => room' = rangeLength - written
    BY <1>4, <2>1, <2>2, <2>3, SwWrites
  <2>5. /\ Append(Backlog, p) \in Seq(SomePiece)
        /\ Total(Append(Backlog, p)) = Total(Backlog) + (SlabSize - sent)
        /\ \A t : PiecesIn(Append(Backlog, p), t) = PiecesIn(Backlog, t) + (IF s = t THEN 1 ELSE 0)
    <3>1. /\ Append(Backlog, p) \in Seq(SomePiece)
          /\ Total(Append(Backlog, p)) = Total(Backlog) + (p.to - p.from)
          /\ \A t : PiecesIn(Append(Backlog, p), t) = PiecesIn(Backlog, t) + (IF p.slab = t THEN 1 ELSE 0)
      BY <1>3, <2>2, SwAppend
    <3> QED BY <2>2, <3>1
  <2>6. refs' = held(s)
    <3>1. PieceRef(held(s), s) = [held(s) EXCEPT ![s] = held(s)[s] + 1]
      BY DEF PieceRef
    <3>2. held(s)[s] \in Nat
      BY <1>6
    <3>3. \A t \in Slabs : refs'[t] = held(s)[t]
      BY <1>6, <2>1, <3>1, <3>2
    <3>4. DOMAIN refs' = Slabs /\ refs' = [t \in Slabs |-> refs'[t]]
      BY <1>6, <2>1, <3>1
    <3> QED BY <1>6, <3>3, <3>4
  <2>7. slab \notin Slabs \/ slab = s
    BY <1>2, <1>3
  <2>8. SwTypes'
    <3>1. received' \in 0..sends' /\ fill' \in 0..SlabSize /\ sent' \in 0..fill' /\ slabsQueued' \in Nat
      BY <1>1, <1>4, <2>1
    <3>2. partialTimer' \in BOOLEAN /\ paused' \in BOOLEAN /\ slab' \in Slabs \cup {NoSlab}
      <4>1. slabsQueued + 1 \in Int /\ SlabCount - 1 \in Int
        BY <1>4
      <4>2. paused' = (slabsQueued + 1 >= SlabCount - 1)
        BY <2>1
      <4>3. paused' \in BOOLEAN
        BY <4>1, <4>2
      <4> QED BY <2>1, <4>3, Zenon
    <3>3. room' \in Int
      <4>1. room \in Int /\ rangeLength \in Int
        BY SlabAssumption DEF SwInv, SwTypes
      <4> QED BY <1>4, <2>4, <4>1
    <3>4. SwTypes
      BY DEF SwInv
    <3>5. refs' \in [Slabs -> Nat] /\ bytesIn' \in [Slabs -> [1..SlabSize -> Int]]
      BY <1>6, <1>8, <2>1, <2>6
    <3> QED BY <1>1, <2>4, <3>1, <3>2, <3>3, <3>4, <3>5, Zenon DEF SwTypes
  <2>9. SwSlabs'
    <3>1. \A t \in Slabs : refs'[t] = PiecesIn(Backlog', t) + (IF t = slab' THEN 1 ELSE 0)
      BY <1>3, <1>6, <2>1, <2>4, <2>5, <2>6
    <3>2. slabsQueued' = Cardinality(HeldBeside(refs', slab'))
      <4>1. HeldBeside(refs', slab') = HeldBeside(refs, slab) \cup {s}
        <5>1. \A t \in Slabs : refs'[t] > 0 <=> (held(s)[t] > 0 /\ t # s) \/ t = s
          BY <1>3, <1>6, <2>6
        <5>2. \A t \in Slabs : t # slab'
          BY <1>3, <2>1
        <5>3. HeldBeside(refs', slab') = HeldBeside(held(s), s) \cup {s}
          BY <5>1, <5>2 DEF HeldBeside
        <5> QED BY <1>11, <5>3
      <4>2. s \notin HeldBeside(refs, slab)
        BY <1>11 DEF HeldBeside
      <4>3. IsFiniteSet(HeldBeside(refs, slab)) /\ Cardinality(HeldBeside(refs, slab)) \in Nat
        BY SlabsFinite DEF HeldBeside
      <4>4. Cardinality(HeldBeside(refs, slab) \cup {s}) = Cardinality(HeldBeside(refs, slab)) + 1
        BY <4>2, <4>3, FS_AddElement
      <4> QED BY <1>5, <2>1, <4>1, <4>4
    <3>3. \A i \in 1..Len(Backlog') : Backlog'[i].slab # slab'
      <4>1. \A i \in 1..Len(Backlog') : Backlog'[i].slab \in Slabs
        BY <2>4, <2>5, SwPieces
      <4> QED BY <1>3, <2>1, <4>1
    <3>4. slabsQueued' <= SlabCount - 1 /\ (~paused' => slabsQueued' <= SlabCount - 2)
      <4>1. slabsQueued + 1 <= SlabCount - 1
        BY <1>4, <1>5
      <4>2. ~(slabsQueued + 1 >= SlabCount - 1) => slabsQueued + 1 <= SlabCount - 2
        BY <1>4
      <4>3. ~paused' => ~(slabsQueued + 1 >= SlabCount - 1)
        BY <2>1, Zenon
      <4> QED BY <2>1, <4>1, <4>2, <4>3
    <3> QED BY <2>1, <3>1, <3>2, <3>3, <3>4 DEF SwSlabs
  <2>10. SwBytes'
    <3>1. ~Destroyed /\ ~Destroyed'
      BY <1>1, <2>1 DEF Ending, Destroyed
    <3>2. \A j \in (p.from + 1)..p.to : got(s)[p.slab][j] = written + Total(Backlog) + (j - p.from - 1)
      BY <1>10, <2>1, <2>2, <3>1
    <3>3. Laid(got(s), Append(Backlog, p), written)
      <4>1. written \in Int /\ Backlog \in Seq(SomePiece)
        BY <1>3, <1>4
      <4> QED BY <1>9, <2>2, <3>2, <4>1, SwLaidAppend
    <3>4. received + n = written + (Total(Backlog) + (SlabSize - sent))
      <4>1. received + n = written + Total(Backlog) + ((fill + n) - sent) /\ fill + n = SlabSize
        BY <1>10, <2>1, <3>1
      <4>2. written \in Nat /\ Total(Backlog) \in Nat /\ sent \in Nat /\ SlabSize \in Nat
        BY <1>3, <1>4
      <4> QED BY <4>1, <4>2
    <3>5. received' = written' + Total(Backlog') + (fill' - sent')
      <4>1. written' + Total(Backlog') = received'
        BY <1>1, <2>4, <2>5, <3>4
      <4>2. received' \in Int /\ fill' - sent' = 0
        BY <1>1, <1>4, <2>1
      <4> QED BY <4>1, <4>2
    <3>6. \A j \in (sent' + 1)..fill' : FALSE
      BY <2>1
    <3> QED BY <1>1, <2>1, <2>4, <3>3, <3>5, <3>6 DEF SwBytes
  <2>11. SwRoom'
    BY <1>1, <2>4 DEF SwInv, SwRoom
  <2>12. SwEnds'
    <3>1. writerEnd = "none" /\ ~writerStopped
      BY <2>1 DEF Ending
    <3>2. SwEnds
      BY DEF SwInv
    <3> QED BY <1>1, <2>4, <3>1, <3>2 DEF SwEnds, Destroyed
  <2> QED BY <1>12, <2>8, <2>9, <2>10, <2>11, <2>12 DEF SwInv
<1> QED BY <1>2, <1>13, <1>14

LEMMA SwFlushes == SwInv /\ FlushPartial => SwInv'
<1> SUFFICES ASSUME SwInv, FlushPartial PROVE SwInv'
  OBVIOUS
<1>1. /\ partialTimer' = FALSE /\ sent' = fill
      /\ sends' = sends /\ rangeFinal' = rangeFinal /\ rangeLength' = rangeLength
      /\ received' = received /\ socketAt' = socketAt /\ slab' = slab /\ fill' = fill
      /\ bytesIn' = bytesIn /\ slabsQueued' = slabsQueued /\ paused' = paused
      /\ written' = written /\ inFile' = inFile /\ fdClosed' = fdClosed
      /\ writerEnd' = writerEnd /\ writerStopped' = writerStopped
  BY DEF FlushPartial, rangeVars, fileVars
<1>2. /\ Backlog \in Seq(SomePiece) /\ Len(Backlog) \in Nat /\ Total(Backlog) \in Nat
      /\ NoSlab \notin Slabs
      /\ \A t \in Slabs : PiecesIn(Backlog, t) \in Nat /\ refs[t] \in Nat
      /\ \A i \in 1..Len(Backlog) : Backlog[i].to \in Nat
  BY SwFacts
<1>3. /\ fill \in Nat /\ fill <= SlabSize /\ sent \in Nat /\ sent <= fill /\ SlabSize \in Nat
      /\ refs \in [Slabs -> Nat] /\ slab \in Slabs \cup {NoSlab}
      /\ pieces \in Seq(SomePiece) /\ writev \in Seq(SomePiece)
      /\ written \in Nat /\ received \in Nat /\ room \in Int /\ rangeLength \in Int
  BY SlabAssumption DEF SwInv, SwTypes
<1>4. /\ \A t \in Slabs : refs[t] = PiecesIn(Backlog, t) + (IF t = slab THEN 1 ELSE 0)
      /\ slabsQueued = Cardinality(HeldBeside(refs, slab))
      /\ slabsQueued <= SlabCount - 1
      /\ socketAt = "open" /\ ~paused => slabsQueued <= SlabCount - 2
      /\ paused => slab = NoSlab
      /\ slab = NoSlab => fill = 0 /\ sent = 0
      /\ \A i \in 1..Len(Backlog) : Backlog[i].slab = slab => Backlog[i].to <= sent
  BY DEF SwInv, SwSlabs
<1>5. SwFile'
  BY <1>1 DEF SwInv, SwFile
<1>6. Ending => Destroyed \/ slab = NoSlab
  BY DEF Ending, Destroyed, SwInv, SwEnds
<1>7. CASE Ending \/ fill = sent
  <2>1. refs' = refs /\ pieces' = pieces /\ writev' = writev /\ room' = room
    BY <1>7 DEF FlushPartial
  <2>2. Backlog' = Backlog
    BY <2>1 DEF Backlog
  <2>3. SwTypes'
    <3>1. sent' \in 0..fill' /\ partialTimer' \in BOOLEAN
      <4>1. sent' \in 0..fill'
        BY <1>1, <1>3
      <4> QED BY <1>1, <4>1, Zenon
    <3>2. SwTypes
      BY DEF SwInv
    <3> QED BY <1>1, <2>1, <3>1, <3>2, Zenon DEF SwTypes
  <2>4. SwSlabs'
    <3>1. \A i \in 1..Len(Backlog) : Backlog[i].slab = slab => Backlog[i].to <= fill
      <4>1. \A i \in 1..Len(Backlog) : Backlog[i].to \in Nat
        BY <1>2
      <4>2. \A i \in 1..Len(Backlog) : Backlog[i].slab = slab => Backlog[i].to <= sent
        BY <1>4
      <4>3. sent \in Nat /\ fill \in Nat /\ sent <= fill
        BY <1>3
      <4> QED BY <4>1, <4>2, <4>3
    <3>2. slabsQueued' = Cardinality(HeldBeside(refs', slab'))
      BY <1>1, <1>4, <2>1
    <3> QED BY <1>1, <1>4, <2>1, <2>2, <3>1, <3>2 DEF SwSlabs
  <2>5. SwBytes'
    <3>1. SwBytes /\ (Destroyed \/ fill = sent)
      BY <1>3, <1>4, <1>6, <1>7 DEF SwInv
    <3>2. Destroyed' <=> Destroyed
      BY <1>1 DEF Destroyed
    <3>3. CASE Destroyed
      BY <1>1, <2>2, <3>1, <3>2, <3>3 DEF SwBytes
    <3>4. CASE fill = sent
      <4>1. sent' = sent
        BY <1>1, <3>4
      <4> QED BY <1>1, <2>2, <3>1, <3>2, <4>1, Zenon DEF SwBytes
    <3> QED BY <3>1, <3>3, <3>4
  <2>6. SwRoom' /\ SwEnds'
    BY <1>1, <2>1 DEF SwInv, SwRoom, SwEnds, Destroyed
  <2> QED BY <1>5, <2>3, <2>4, <2>5, <2>6 DEF SwInv
<1>8. CASE ~Ending /\ fill # sent
  <2> DEFINE p == Piece(slab, sent, fill)
  <2>1. refs' = PieceRef(refs, slab) /\ Write(p)
    BY <1>8 DEF FlushPartial
  <2>2. slab \in Slabs
    BY <1>3, <1>4, <1>8
  <2>3. p \in SomePiece /\ p.slab = slab /\ p.from = sent /\ p.to = fill
    BY <1>3, <1>8, <2>2 DEF Piece, SomePiece
  <2> HIDE DEF p
  <2>4. writev = <<>> => pieces = <<>>
    BY DEF SwInv, SwEnds
  <2>5. /\ writev' \in Seq(SomePiece) /\ pieces' \in Seq(SomePiece) /\ writev' # <<>>
        /\ Backlog' = Append(Backlog, p)
        /\ writev # <<>> => writev' = writev /\ room' = room
        /\ writev = <<>> => room' = rangeLength - written
    BY <1>3, <2>1, <2>3, <2>4, SwWrites
  <2>6. /\ Append(Backlog, p) \in Seq(SomePiece) /\ Len(Append(Backlog, p)) = Len(Backlog) + 1
        /\ \A i \in 1..Len(Backlog) : Append(Backlog, p)[i] = Backlog[i]
        /\ Append(Backlog, p)[Len(Backlog) + 1] = p
        /\ Total(Append(Backlog, p)) = Total(Backlog) + (p.to - p.from)
        /\ \A t : PiecesIn(Append(Backlog, p), t) = PiecesIn(Backlog, t) + (IF p.slab = t THEN 1 ELSE 0)
    BY <1>2, <2>3, SwAppend
  <2>7. refs' \in [Slabs -> Nat] /\ \A t \in Slabs : refs'[t] = refs[t] + (IF t = slab THEN 1 ELSE 0)
    <3>1. refs' = [refs EXCEPT ![slab] = refs[slab] + 1]
      BY <2>1 DEF PieceRef
    <3> QED BY <1>3, <2>2, <3>1
  <2>8. SwTypes'
    <3>1. sent' \in 0..fill' /\ partialTimer' \in BOOLEAN /\ room' \in Int
      <4>1. sent' \in 0..fill' /\ room' \in Int
        BY <1>1, <1>3, <2>5
      <4> QED BY <1>1, <4>1, Zenon
    <3>2. SwTypes
      BY DEF SwInv
    <3> QED BY <1>1, <2>5, <2>7, <3>1, <3>2, Zenon DEF SwTypes
  <2>9. SwSlabs'
    <3>1. \A t \in Slabs : refs'[t] = PiecesIn(Backlog', t) + (IF t = slab' THEN 1 ELSE 0)
      BY <1>1, <1>2, <1>4, <2>3, <2>5, <2>6, <2>7
    <3>2. slabsQueued' = Cardinality(HeldBeside(refs', slab'))
      <4>1. \A t \in Slabs : refs'[t] > 0 /\ t # slab <=> refs[t] > 0 /\ t # slab
        BY <1>2, <2>7
      <4>2. HeldBeside(refs', slab) = HeldBeside(refs, slab)
        BY <4>1 DEF HeldBeside
      <4> QED BY <1>1, <1>4, <4>2
    <3>3. ASSUME NEW i \in 1..Len(Backlog') PROVE Backlog'[i].slab = slab' => Backlog'[i].to <= sent'
      <4>1. CASE i \in 1..Len(Backlog)
        BY <1>1, <1>2, <1>3, <1>4, <2>5, <2>6, <4>1
      <4>2. CASE i = Len(Backlog) + 1
        BY <1>1, <1>3, <2>3, <2>5, <2>6, <4>2
      <4>3. i \in 1..Len(Backlog) \/ i = Len(Backlog) + 1
        BY <1>2, <2>5, <2>6
      <4> QED BY <4>1, <4>2, <4>3
    <3> QED BY <1>1, <1>4, <2>2, <3>1, <3>2, <3>3 DEF SwSlabs
  <2>10. SwBytes'
    <3>1. ~Destroyed
      BY <1>8 DEF Ending, Destroyed
    <3>2. /\ Laid(bytesIn, Backlog, written)
          /\ received = written + Total(Backlog) + (fill - sent)
          /\ \A j \in (sent + 1)..fill : bytesIn[slab][j] = written + Total(Backlog) + (j - sent - 1)
      BY <3>1 DEF SwInv, SwBytes
    <3>3. \A j \in (p.from + 1)..p.to : bytesIn[p.slab][j] = written + Total(Backlog) + (j - p.from - 1)
      BY <2>3, <3>2
    <3>4. Laid(bytesIn, Append(Backlog, p), written)
      <4>1. written \in Int /\ Backlog \in Seq(SomePiece)
        BY <1>2, <1>3
      <4> QED BY <2>3, <3>2, <3>3, <4>1, SwLaidAppend
    <3>5. received' = written' + Total(Backlog') + (fill' - sent')
      <4>1. Total(Backlog') = Total(Backlog) + (fill - sent) /\ fill' - sent' = 0
        BY <1>1, <1>3, <2>3, <2>5, <2>6
      <4> QED BY <1>1, <1>2, <1>3, <3>2, <4>1
    <3>6. \A j \in (sent' + 1)..fill' : FALSE
      BY <1>1, <1>3
    <3> QED BY <1>1, <2>5, <3>4, <3>5, <3>6 DEF SwBytes
  <2>11. SwRoom'
    BY <1>1, <2>5 DEF SwInv, SwRoom
  <2>12. SwEnds'
    <3>1. writerEnd = "none" /\ ~writerStopped
      BY <1>8 DEF Ending
    <3>2. SwEnds
      BY DEF SwInv
    <3> QED BY <1>1, <2>5, <3>1, <3>2 DEF SwEnds, Destroyed
  <2> QED BY <1>5, <2>8, <2>9, <2>10, <2>11, <2>12 DEF SwInv
<1> QED BY <1>7, <1>8

(* The socket lets go of its slab.                                         *)
LEMMA SwLetsGo ==
  ASSUME SwInv, socketAt = "open", socketAt' # "open",
         NEW r \in [Slabs -> Nat], NEW ps \in Seq(SomePiece), LetGo(r, ps),
         Backlog' \in Seq(SomePiece),
         \A s \in Slabs : r[s] = PiecesIn(ps, s) + PiecesIn(Backlog', s) + (IF s = slab THEN 1 ELSE 0),
         \A s \in Slabs : PiecesIn(Backlog', s) > 0 => refs[s] > 0
  PROVE  /\ SwSlabs'
         /\ slab' = NoSlab /\ fill' = 0 /\ sent' = 0 /\ partialTimer' = FALSE
         /\ refs' \in [Slabs -> Nat] /\ bytesIn' \in [Slabs -> [1..SlabSize -> Int]]
         /\ slabsQueued' \in Nat /\ paused' \in BOOLEAN
         /\ \A s \in Slabs : PiecesIn(Backlog', s) > 0 => bytesIn'[s] = bytesIn[s]
<1> DEFINE R == [s \in Slabs |-> PiecesIn(Backlog', s)]
           q == IF slab = NoSlab THEN slabsQueued ELSE slabsQueued + 1
<1>1. slab' = NoSlab /\ fill' = 0 /\ sent' = 0 /\ partialTimer' = FALSE
  BY DEF LetGo
<1>2. /\ NoSlab \notin Slabs /\ SwTypes
      /\ \A t \in Slabs : PiecesIn(Backlog, t) \in Nat /\ refs[t] \in Nat
  BY SwFacts
<1>3. \A t \in Slabs : PiecesIn(ps, t) \in Nat /\ PiecesIn(Backlog', t) \in Nat
  BY SwCounted
<1>4. /\ refs \in [Slabs -> Nat] /\ slab \in Slabs \cup {NoSlab} /\ slabsQueued \in Nat
      /\ SlabCount \in Nat /\ paused \in BOOLEAN
  BY <1>2, SlabAssumption DEF SwTypes
<1>5. /\ \A t \in Slabs : refs[t] = PiecesIn(Backlog, t) + (IF t = slab THEN 1 ELSE 0)
      /\ slabsQueued = Cardinality(HeldBeside(refs, slab))
      /\ slabsQueued <= SlabCount - 1
      /\ ~paused => slabsQueued <= SlabCount - 2
      /\ paused => slab = NoSlab
  BY DEF SwInv, SwSlabs
<1>6. R \in [Slabs -> Nat] /\ \A t \in Slabs : R[t] = PiecesIn(Backlog', t)
  BY <1>3
<1>7. Settle(R, bytesIn, q)
  <2>1. CASE slab = NoSlab
    <3>1. Settle(Without(r, ps), bytesIn, slabsQueued)
      BY <2>1 DEF LetGo
    <3>2. \A t \in Slabs : r[t] - PiecesIn(ps, t) = PiecesIn(Backlog', t)
      BY <1>2, <1>3, <2>1
    <3>3. Without(r, ps) = R
      BY <3>2 DEF Without
    <3> QED BY <2>1, <3>1, <3>3
  <2>2. CASE slab # NoSlab
    <3> DEFINE W == Without(r, ps)
    <3>1. Settle([W EXCEPT ![slab] = @ - 1], bytesIn, slabsQueued + 1)
      BY <2>2 DEF LetGo
    <3>2. \A t \in Slabs : W[t] = PiecesIn(Backlog', t) + (IF t = slab THEN 1 ELSE 0)
      <4>1. \A t \in Slabs : r[t] - PiecesIn(ps, t) = PiecesIn(Backlog', t) + (IF t = slab THEN 1 ELSE 0)
        BY <1>3
      <4> QED BY <4>1 DEF Without
    <3>3. W = [t \in Slabs |-> W[t]]
      BY DEF Without
    <3> HIDE DEF W, R
    <3>4. \A t \in Slabs : [W EXCEPT ![slab] = @ - 1][t] = PiecesIn(Backlog', t)
      <4>1. slab \in Slabs
        BY <1>4, <2>2
      <4> QED BY <1>3, <3>2, <3>3, <4>1
    <3>5. [W EXCEPT ![slab] = @ - 1] = R
      <4>1. [W EXCEPT ![slab] = @ - 1] = [t \in Slabs |-> [W EXCEPT ![slab] = @ - 1][t]]
        BY <3>3
      <4>2. R = [t \in Slabs |-> R[t]]
        BY <1>6
      <4> QED BY <1>6, <3>4, <4>1, <4>2
    <3> QED BY <2>2, <3>1, <3>5
  <2> QED BY <2>1, <2>2
<1>8. q = Cardinality(HeldBeside(refs, NoSlab)) /\ q \in Nat /\ q <= SlabCount - 1
  <2>1. CASE slab = NoSlab
    BY <1>4, <1>5, <2>1
  <2>2. CASE slab # NoSlab
    <3>1. slab \in Slabs /\ slab \notin HeldBeside(refs, slab)
      BY <1>4, <2>2 DEF HeldBeside
    <3>2. \A t \in Slabs : refs[t] > 0 /\ t # NoSlab <=> (refs[t] > 0 /\ t # slab) \/ t = slab
      BY <1>2, <1>5
    <3>3. HeldBeside(refs, NoSlab) = HeldBeside(refs, slab) \cup {slab}
      BY <3>1, <3>2 DEF HeldBeside
    <3>4. IsFiniteSet(HeldBeside(refs, slab))
      BY SlabsFinite DEF HeldBeside
    <3>5. Cardinality(HeldBeside(refs, slab) \cup {slab}) = Cardinality(HeldBeside(refs, slab)) + 1
      BY <3>1, <3>4, FS_AddElement
    <3>6. ~paused
      BY <1>5, <2>2
    <3> QED BY <1>4, <1>5, <2>2, <3>3, <3>5, <3>6
  <2> QED BY <2>1, <2>2
<1>9. \A s \in Slabs : R[s] > 0 => refs[s] > 0
  BY <1>6
<1> HIDE DEF R, q
<1>10. /\ refs' = R /\ bytesIn' \in [Slabs -> [1..SlabSize -> Int]]
       /\ \A s \in Slabs : R[s] > 0 => bytesIn'[s] = bytesIn[s]
       /\ slabsQueued' \in Nat /\ slabsQueued' <= q
       /\ slabsQueued' = Cardinality(HeldBeside(R, NoSlab))
       /\ paused' \in BOOLEAN
  <2>1. \A s \in Slabs : s = NoSlab /\ refs[s] > 0 => R[s] > 0
    BY <1>2
  <2>2. q = Cardinality(HeldBeside(refs, NoSlab)) /\ q \in Nat
    BY <1>8
  <2>3. /\ refs' = R /\ bytesIn' \in [Slabs -> [1..SlabSize -> Int]]
        /\ \A s \in Slabs : R[s] > 0 => bytesIn'[s] = bytesIn[s]
        /\ slabsQueued' \in Nat /\ slabsQueued' <= q
        /\ slabsQueued' = Cardinality(HeldBeside(R, NoSlab))
        /\ paused' \in BOOLEAN
    <3>1. R \in [Slabs -> Nat] /\ q \in Nat /\ SwTypes
      BY <1>2, <1>6, <2>2
    <3> QED BY <1>7, <1>9, <2>1, <2>2, <3>1, SwSettles
  <2> QED BY <2>3
<1>11. SwSlabs'
  <2>1. \A s \in Slabs : refs'[s] = PiecesIn(Backlog', s) + (IF s = slab' THEN 1 ELSE 0)
    BY <1>1, <1>2, <1>3, <1>6, <1>10
  <2>2. slabsQueued' = Cardinality(HeldBeside(refs', slab')) /\ slabsQueued' <= SlabCount - 1
    BY <1>1, <1>4, <1>8, <1>10
  <2>3. \A i \in 1..Len(Backlog') : Backlog'[i].slab # slab'
    BY <1>1, <1>2, SwPieces
  <2> QED BY <1>1, <2>1, <2>2, <2>3 DEF SwSlabs
<1> QED BY <1>1, <1>6, <1>10, <1>11

LEMMA SwSocketEnds == SwInv /\ SocketEnds => SwInv'
<1> SUFFICES ASSUME SwInv, SocketEnds PROVE SwInv'
  OBVIOUS
<1>1. /\ socketAt = "open" /\ ~paused /\ received = sends /\ socketAt' = "ended"
      /\ writerEnd' = IF writerEnd = "none" THEN "ended" ELSE writerEnd
      /\ sends' = sends /\ rangeFinal' = rangeFinal /\ rangeLength' = rangeLength
      /\ received' = received /\ written' = written /\ inFile' = inFile /\ fdClosed' = fdClosed
      /\ writerStopped' = writerStopped
  BY DEF SocketEnds, rangeVars, fileVars
<1>2. /\ Backlog \in Seq(SomePiece) /\ Total(Backlog) \in Nat /\ NoSlab \notin Slabs /\ SwTypes
      /\ \A t \in Slabs : PiecesIn(Backlog, t) \in Nat /\ refs[t] \in Nat
  BY SwFacts
<1>3. /\ fill \in Nat /\ fill <= SlabSize /\ sent \in Nat /\ sent <= fill /\ SlabSize \in Nat
      /\ refs \in [Slabs -> Nat] /\ slab \in Slabs \cup {NoSlab}
      /\ pieces \in Seq(SomePiece) /\ writev \in Seq(SomePiece)
      /\ written \in Nat /\ received \in Nat /\ room \in Int /\ rangeLength \in Int
  BY SlabAssumption DEF SwInv, SwTypes
<1>4. /\ \A t \in Slabs : refs[t] = PiecesIn(Backlog, t) + (IF t = slab THEN 1 ELSE 0)
      /\ slab = NoSlab => fill = 0 /\ sent = 0
  BY DEF SwInv, SwSlabs
<1>5. SwFile'
  BY <1>1 DEF SwInv, SwFile
<1>6. <<>> \in Seq(SomePiece) /\ \A t : PiecesIn(<<>>, t) = 0
  BY SwNone
<1>7. /\ Laid(bytesIn, Backlog, written)
      /\ ~Destroyed => /\ received = written + Total(Backlog) + (fill - sent)
                       /\ \A j \in (sent + 1)..fill : bytesIn[slab][j] = written + Total(Backlog) + (j - sent - 1)
  BY DEF SwInv, SwBytes
<1>8. /\ Destroyed' <=> Destroyed
      /\ Ending => Destroyed
      /\ (writerEnd # "ended" /\ ~fdClosed) \/ Ending
  BY <1>1 DEF Destroyed, Ending, SwInv, SwEnds
<1>9. writerEnd' \in {"none", "ended", "done", "overflow", "error"} /\ writerEnd' # "none"
  BY <1>1, <1>2 DEF SwTypes
<1>10. SwEnds /\ (writev = <<>> => pieces = <<>>)
  BY DEF SwInv, SwEnds
<1>11. CASE Ending \/ fill = sent
  <2>1. LetGo(refs, <<>>) /\ pieces' = pieces /\ writev' = writev /\ room' = room
    BY <1>11 DEF SocketEnds
  <2>2. Backlog' = Backlog
    BY <2>1 DEF Backlog
  <2>3. \A s \in Slabs : /\ refs[s] = PiecesIn(<<>>, s) + PiecesIn(Backlog', s) + (IF s = slab THEN 1 ELSE 0)
                         /\ PiecesIn(Backlog', s) > 0 => refs[s] > 0
    BY <1>2, <1>4, <1>6, <2>2
  <2>4. socketAt' # "open" /\ Backlog' \in Seq(SomePiece)
    BY <1>1, <1>2, <2>2
  <2>5. /\ SwSlabs'
        /\ slab' = NoSlab /\ fill' = 0 /\ sent' = 0 /\ partialTimer' = FALSE
        /\ refs' \in [Slabs -> Nat] /\ bytesIn' \in [Slabs -> [1..SlabSize -> Int]]
        /\ slabsQueued' \in Nat /\ paused' \in BOOLEAN
        /\ \A s \in Slabs : PiecesIn(Backlog', s) > 0 => bytesIn'[s] = bytesIn[s]
    BY <1>1, <1>3, <1>6, <2>1, <2>3, <2>4, SwLetsGo
  <2>6. SwTypes'
    <3>1. /\ fill' \in 0..SlabSize /\ sent' \in 0..fill' /\ slab' \in Slabs \cup {NoSlab}
          /\ socketAt' \in {"open", "ended", "closed"}
      BY <1>1, <1>3, <2>5
    <3>2. partialTimer' \in BOOLEAN
      BY <2>5, Zenon
    <3> QED BY <1>1, <1>2, <1>9, <2>1, <2>5, <3>1, <3>2, Zenon DEF SwTypes
  <2>7. SwBytes'
    <3>1. Laid(bytesIn', Backlog', written')
      BY <1>1, <1>2, <1>7, <2>2, <2>5, SwKept
    <3>2. ~Destroyed => received' = written' + Total(Backlog') + (fill' - sent')
      <4>1. ~Destroyed => fill = sent
        BY <1>8, <1>11
      <4> QED BY <1>1, <1>2, <1>3, <1>7, <2>2, <2>5, <4>1
    <3>3. \A j \in (sent' + 1)..fill' : FALSE
      BY <2>5
    <3> QED BY <1>8, <3>1, <3>2, <3>3 DEF SwBytes
  <2>8. SwRoom'
    BY <1>1, <2>1 DEF SwInv, SwRoom
  <2>9. SwEnds'
    <3>1. writerEnd' = "done" => writerEnd = "done"
      BY <1>1
    <3>2. (writev' = <<>> <=> writev = <<>>) /\ (pieces' = <<>> <=> pieces = <<>>)
      BY <2>1
    <3> QED BY <1>1, <1>8, <1>9, <1>10, <2>5, <3>1, <3>2 DEF SwEnds
  <2> QED BY <1>5, <2>5, <2>6, <2>7, <2>8, <2>9 DEF SwInv
<1>12. CASE ~Ending /\ fill # sent
  <2> DEFINE p == Piece(slab, sent, fill)
             r == PieceRef(refs, slab)
  <2>1. LetGo(r, <<>>) /\ Write(p)
    BY <1>12 DEF SocketEnds
  <2>2. slab \in Slabs
    BY <1>3, <1>4, <1>12
  <2>3. p \in SomePiece /\ p.slab = slab /\ p.from = sent /\ p.to = fill
    BY <1>3, <1>12, <2>2 DEF Piece, SomePiece
  <2>4. r \in [Slabs -> Nat] /\ \A t \in Slabs : r[t] = refs[t] + (IF t = slab THEN 1 ELSE 0)
    <3>1. r = [refs EXCEPT ![slab] = refs[slab] + 1]
      BY DEF PieceRef
    <3> QED BY <1>3, <2>2, <3>1
  <2> HIDE DEF p, r
  <2>5. /\ writev' \in Seq(SomePiece) /\ pieces' \in Seq(SomePiece) /\ writev' # <<>>
        /\ Backlog' = Append(Backlog, p)
        /\ writev # <<>> => writev' = writev /\ room' = room
        /\ writev = <<>> => room' = rangeLength - written
    BY <1>3, <1>10, <2>1, <2>3, SwWrites
  <2>6. /\ Append(Backlog, p) \in Seq(SomePiece)
        /\ Total(Append(Backlog, p)) = Total(Backlog) + (p.to - p.from)
        /\ \A t : PiecesIn(Append(Backlog, p), t) = PiecesIn(Backlog, t) + (IF p.slab = t THEN 1 ELSE 0)
    BY <1>2, <2>3, SwAppend
  <2>7. \A s \in Slabs : /\ r[s] = PiecesIn(<<>>, s) + PiecesIn(Backlog', s) + (IF s = slab THEN 1 ELSE 0)
                         /\ PiecesIn(Backlog', s) > 0 => refs[s] > 0
    BY <1>2, <1>4, <1>6, <2>3, <2>4, <2>5, <2>6
  <2>8. socketAt' # "open" /\ Backlog' \in Seq(SomePiece)
    BY <1>1, <2>5, <2>6
  <2>9. /\ SwSlabs'
        /\ slab' = NoSlab /\ fill' = 0 /\ sent' = 0 /\ partialTimer' = FALSE
        /\ refs' \in [Slabs -> Nat] /\ bytesIn' \in [Slabs -> [1..SlabSize -> Int]]
        /\ slabsQueued' \in Nat /\ paused' \in BOOLEAN
        /\ \A s \in Slabs : PiecesIn(Backlog', s) > 0 => bytesIn'[s] = bytesIn[s]
    BY <1>1, <1>6, <2>1, <2>4, <2>7, <2>8, SwLetsGo
  <2>10. SwTypes'
    <3>1. /\ fill' \in 0..SlabSize /\ sent' \in 0..fill' /\ slab' \in Slabs \cup {NoSlab}
          /\ socketAt' \in {"open", "ended", "closed"} /\ room' \in Int
      BY <1>1, <1>3, <2>5, <2>9
    <3>2. partialTimer' \in BOOLEAN
      BY <2>9, Zenon
    <3> QED BY <1>1, <1>2, <1>9, <2>5, <2>9, <3>1, <3>2, Zenon DEF SwTypes
  <2>11. SwBytes'
    <3>1. ~Destroyed
      BY <1>12 DEF Ending, Destroyed
    <3>2. \A j \in (p.from + 1)..p.to : bytesIn[p.slab][j] = written + Total(Backlog) + (j - p.from - 1)
      BY <1>7, <2>3, <3>1
    <3>3. Laid(bytesIn, Append(Backlog, p), written)
      <4>1. written \in Int /\ Backlog \in Seq(SomePiece)
        BY <1>2, <1>3
      <4> QED BY <1>7, <2>3, <3>2, <4>1, SwLaidAppend
    <3>4. Laid(bytesIn', Backlog', written')
      <4>1. Laid(bytesIn, Backlog', written)
        BY <2>5, <3>3
      <4>2. Laid(bytesIn', Backlog', written)
        BY <2>8, <2>9, <4>1, SwKept
      <4> QED BY <1>1, <4>2
    <3>5. received' = written' + Total(Backlog') + (fill' - sent')
      <4>1. Total(Backlog') = Total(Backlog) + (fill - sent) /\ fill' - sent' = 0
        BY <1>1, <1>3, <2>3, <2>5, <2>6, <2>9
      <4>2. received = written + Total(Backlog) + (fill - sent)
        BY <1>7, <3>1
      <4> QED BY <1>1, <1>2, <1>3, <4>1, <4>2
    <3>6. \A j \in (sent' + 1)..fill' : FALSE
      BY <2>9
    <3> QED BY <3>4, <3>5, <3>6 DEF SwBytes
  <2>12. SwRoom'
    BY <1>1, <2>5 DEF SwInv, SwRoom
  <2>13. SwEnds'
    <3>1. writerEnd = "none" /\ ~writerStopped /\ writerEnd' = "ended"
      BY <1>1, <1>12 DEF Ending
    <3> QED BY <1>1, <1>10, <2>5, <2>9, <3>1 DEF SwEnds, Destroyed
  <2> QED BY <1>5, <2>9, <2>10, <2>11, <2>12, <2>13 DEF SwInv
<1> QED BY <1>11, <1>12

LEMMA SwSocketCloses ==
  ASSUME SwInv, NEW heard \in BOOLEAN, SocketCloses(heard)
  PROVE  SwInv'
<1>1. /\ socketAt = "open" /\ socketAt' = "closed" /\ pieces' = <<>>
      /\ writerEnd' = IF writerEnd = "none" THEN "error" ELSE writerEnd
      /\ sends' = sends /\ rangeFinal' = rangeFinal /\ rangeLength' = rangeLength
      /\ received' = received /\ written' = written /\ inFile' = inFile /\ fdClosed' = fdClosed
      /\ writerStopped' = writerStopped /\ writev' = writev /\ room' = room
  BY DEF SocketCloses, rangeVars, fileVars
<1>2. /\ Backlog \in Seq(SomePiece) /\ Len(Backlog) \in Nat /\ NoSlab \notin Slabs /\ SwTypes
      /\ \A t \in Slabs : PiecesIn(Backlog, t) \in Nat /\ refs[t] \in Nat
  BY SwFacts
<1>3. /\ fill \in Nat /\ fill <= SlabSize /\ sent \in Nat /\ sent <= fill /\ SlabSize \in Nat
      /\ refs \in [Slabs -> Nat] /\ slab \in Slabs \cup {NoSlab} /\ slabsQueued \in Nat
      /\ pieces \in Seq(SomePiece) /\ writev \in Seq(SomePiece) /\ written \in Nat
      /\ SlabCount \in Nat
  BY SlabAssumption DEF SwInv, SwTypes
<1>4. /\ \A t \in Slabs : refs[t] = PiecesIn(Backlog, t) + (IF t = slab THEN 1 ELSE 0)
      /\ slabsQueued = Cardinality(HeldBeside(refs, slab)) /\ slabsQueued <= SlabCount - 1
      /\ paused => slab = NoSlab
      /\ slab = NoSlab => fill = 0 /\ sent = 0
      /\ \A i \in 1..Len(Backlog) : Backlog[i].slab = slab => Backlog[i].to <= sent
  BY DEF SwInv, SwSlabs
<1>5. SwFile'
  BY <1>1 DEF SwInv, SwFile
<1>6. Backlog' = writev
  <2>1. writev \o <<>> = writev
    BY <1>3, SwNone
  <2> QED BY <1>1, <2>1 DEF Backlog
<1>7. \A t \in Slabs : /\ PiecesIn(Backlog, t) = PiecesIn(writev, t) + PiecesIn(pieces, t)
                       /\ PiecesIn(writev, t) \in Nat /\ PiecesIn(pieces, t) \in Nat
  BY <1>3, SwBacklog
<1>8. \A t \in Slabs : refs[t] = PiecesIn(pieces, t) + PiecesIn(Backlog', t) + (IF t = slab THEN 1 ELSE 0)
  BY <1>4, <1>6, <1>7
<1>9. \A t \in Slabs : PiecesIn(Backlog', t) > 0 => refs[t] > 0
  BY <1>6, <1>7, <1>8
<1>10. /\ writerEnd' \in {"none", "ended", "done", "overflow", "error"} /\ Destroyed'
       /\ writerEnd' = "done" => writerEnd = "done"
  BY <1>1, <1>2 DEF SwTypes, Destroyed, SwInv, SwEnds
<1>11. Laid(bytesIn, writev, written)
  <2>1. Laid(bytesIn, writev \o pieces, written) /\ written \in Int
    BY <1>3 DEF SwInv, SwBytes, Backlog
  <2> QED BY <1>3, <2>1, SwLaidConcat
<1>12. /\ SwSlabs'
       /\ fill' \in Nat /\ fill' <= SlabSize /\ sent' \in Nat /\ sent' <= fill'
       /\ slab' \in Slabs \cup {NoSlab} /\ partialTimer' \in BOOLEAN
       /\ refs' \in [Slabs -> Nat] /\ bytesIn' \in [Slabs -> [1..SlabSize -> Int]]
       /\ slabsQueued' \in Nat /\ paused' \in BOOLEAN
       /\ \A s \in Slabs : PiecesIn(Backlog', s) > 0 => bytesIn'[s] = bytesIn[s]
  <2>1. CASE heard
    <3>1. LetGo(refs, pieces)
      BY <2>1 DEF SocketCloses
    <3>2. socketAt' # "open" /\ Backlog' \in Seq(SomePiece)
      BY <1>1, <1>3, <1>6
    <3>3. /\ SwSlabs'
          /\ slab' = NoSlab /\ fill' = 0 /\ sent' = 0 /\ partialTimer' = FALSE
          /\ refs' \in [Slabs -> Nat] /\ bytesIn' \in [Slabs -> [1..SlabSize -> Int]]
          /\ slabsQueued' \in Nat /\ paused' \in BOOLEAN
          /\ \A s \in Slabs : PiecesIn(Backlog', s) > 0 => bytesIn'[s] = bytesIn[s]
      BY <1>1, <1>3, <1>8, <1>9, <3>1, <3>2, SwLetsGo
    <3>4. partialTimer' \in BOOLEAN
      BY <3>3, Zenon
    <3>5. fill' \in Nat /\ fill' <= SlabSize /\ sent' \in Nat /\ sent' <= fill'
          /\ slab' \in Slabs \cup {NoSlab}
      BY <1>3, <3>3
    <3> QED BY <3>3, <3>4, <3>5
  <2>2. CASE ~heard
    <3> DEFINE R == [s \in Slabs |-> refs[s] - PiecesIn(pieces, s)]
    <3>1. /\ Settle(Without(refs, pieces), bytesIn, slabsQueued)
          /\ slab' = slab /\ fill' = fill /\ sent' = sent /\ partialTimer' = partialTimer
      BY <2>2 DEF SocketCloses
    <3>2. Settle(R, bytesIn, slabsQueued)
      BY <3>1 DEF Without
    <3>3. /\ R \in [Slabs -> Nat]
          /\ \A t \in Slabs : R[t] = PiecesIn(Backlog', t) + (IF t = slab THEN 1 ELSE 0)
      <4>1. \A t \in Slabs : /\ refs[t] - PiecesIn(pieces, t) \in Nat
                             /\ refs[t] - PiecesIn(pieces, t) = PiecesIn(Backlog', t) + (IF t = slab THEN 1 ELSE 0)
        BY <1>6, <1>7, <1>8
      <4> QED BY <4>1
    <3> HIDE DEF R
    <3>4. \A s \in Slabs : (R[s] > 0 => refs[s] > 0) /\ (s = slab /\ refs[s] > 0 => R[s] > 0)
      BY <1>6, <1>7, <1>8, <3>3
    <3>5. /\ refs' = R /\ bytesIn' \in [Slabs -> [1..SlabSize -> Int]]
          /\ \A s \in Slabs : R[s] > 0 => bytesIn'[s] = bytesIn[s]
          /\ slabsQueued' \in Nat /\ slabsQueued' <= slabsQueued
          /\ slabsQueued' = Cardinality(HeldBeside(R, slab))
          /\ paused' \in BOOLEAN /\ (paused' => paused)
      BY <1>2, <1>3, <1>4, <3>2, <3>3, <3>4, SwSettles
    <3>6. \A s \in Slabs : PiecesIn(Backlog', s) > 0 => R[s] > 0
      BY <1>6, <1>7, <3>3
    <3>7. ASSUME NEW i \in 1..Len(Backlog') PROVE Backlog'[i].slab = slab => Backlog'[i].to <= sent
      <4>1. /\ Len(Backlog) = Len(writev) + Len(pieces)
            /\ \A k \in 1..Len(writev) : Backlog[k] = writev[k]
        BY <1>3, SwConcat DEF Backlog
      <4>2. Len(writev) \in Nat /\ Len(pieces) \in Nat
        BY <1>3, LenProperties
      <4>3. i \in 1..Len(writev) /\ i \in 1..Len(Backlog)
        BY <1>6, <4>1, <4>2
      <4> QED BY <1>4, <1>6, <4>1, <4>3
    <3>8. SwSlabs'
      <4>1. slabsQueued' <= SlabCount - 1
        BY <1>3, <1>4, <3>5
      <4> QED BY <1>1, <1>4, <3>1, <3>3, <3>5, <3>7, <4>1 DEF SwSlabs
    <3>9. partialTimer' \in BOOLEAN
      BY <1>2, <3>1 DEF SwTypes
    <3> QED BY <1>3, <3>1, <3>3, <3>5, <3>6, <3>8, <3>9
  <2> QED BY <2>1, <2>2
<1>13. SwTypes'
  <2>1. /\ fill' \in 0..SlabSize /\ sent' \in 0..fill' /\ socketAt' \in {"open", "ended", "closed"}
        /\ pieces' \in Seq(SomePiece)
    BY <1>1, <1>3, <1>12, SwNone
  <2> QED BY <1>1, <1>2, <1>10, <1>12, <2>1, Zenon DEF SwTypes
<1>14. SwBytes'
  <2>1. Laid(bytesIn', Backlog', written')
    BY <1>1, <1>3, <1>6, <1>11, <1>12, SwKept
  <2> QED BY <1>10, <2>1 DEF SwBytes
<1>15. SwRoom'
  BY <1>1 DEF SwInv, SwRoom
<1>16. SwEnds'
  <2>1. SwEnds
    BY DEF SwInv
  <2> QED BY <1>1, <1>10, <2>1 DEF SwEnds, Destroyed
<1> QED BY <1>5, <1>12, <1>13, <1>14, <1>15, <1>16 DEF SwInv

(* What has been written stands at its place, and nothing beyond the range *)
(* was.                                                                    *)
LEMMA SwWritten ==
  ASSUME SwInv, NEW ok \in BOOLEAN, WriteDone(ok)
  PROVE  /\ writev # <<>> /\ written' \in Nat /\ inFile' \in [0..RangeLength -> Int] /\ SwFile'
         /\ \E end \in {"none", "done", "overflow", "error"} :
              /\ Proceeds(end)
              /\ end = "none" => written' = written + Total(writev)
              /\ end = "done" => written' = rangeLength /\ ~rangeFinal
<1>1. /\ writev # <<>> /\ rangeLength' = rangeLength
      /\ written \in Nat /\ rangeLength \in Nat /\ rangeLength <= RangeLength /\ room \in Int
      /\ inFile \in [0..RangeLength -> Int] /\ rangeFinal \in BOOLEAN
      /\ writev \in Seq(SomePiece) /\ pieces \in Seq(SomePiece)
  BY SlabAssumption DEF WriteDone, rangeVars, SwInv, SwTypes
<1>2. Total(writev) \in Nat
  BY <1>1, SwBacklog
<1>3. written <= rangeLength /\ \A o \in 0..RangeLength : inFile[o] = IF o < written THEN o ELSE Foreign
  BY DEF SwInv, SwFile
<1> DEFINE n == IF Total(writev) < room THEN Total(writev) ELSE room
<1>4. CASE ok
  <2>1. /\ inFile' = [o \in DOMAIN inFile |->
                        IF o \in written..(written + n - 1) THEN ByteAt(writev, o - written)
                        ELSE inFile[o]]
        /\ written' = written + n
        /\ Proceeds(Cut(Total(writev)))
    BY <1>4 DEF WriteDone
  <2>2. \/ room = rangeLength - written
        \/ Total(writev) < rangeLength - written /\ rangeLength - written <= room
    BY <1>1 DEF SwInv, SwRoom
  <2>3. /\ n \in Nat /\ n <= Total(writev) /\ written + n <= rangeLength
        /\ Total(writev) < room => n = Total(writev)
        /\ Total(writev) = room => n = Total(writev)
        /\ ~(Total(writev) < room) => written + n = rangeLength
    BY <1>1, <1>2, <1>3, <2>2
  <2> HIDE DEF n
  <2>4. written' \in Nat /\ written' <= rangeLength'
    BY <1>1, <2>1, <2>3
  <2>5. ASSUME NEW o \in 0..RangeLength PROVE inFile'[o] = IF o < written' THEN o ELSE Foreign
    <3>1. CASE o \in written..(written + n - 1)
      <4>1. o - written \in Nat /\ o - written < Total(writev) /\ written + (o - written) = o
        BY <1>1, <1>2, <2>3, <3>1
      <4>2. Laid(bytesIn, writev, written)
        <5>1. Laid(bytesIn, writev \o pieces, written) /\ written \in Int
          BY <1>1 DEF SwInv, SwBytes, Backlog
        <5> QED BY <1>1, <5>1, SwLaidConcat
      <4>3. written \in Int
        BY <1>1
      <4>4. ByteAt(writev, o - written) = written + (o - written)
        BY <1>1, <4>1, <4>2, <4>3, SwByteAt
      <4>5. inFile'[o] = o /\ o < written'
        BY <1>1, <2>1, <2>3, <3>1, <4>1, <4>4
      <4> QED BY <4>5
    <3>2. CASE o \notin written..(written + n - 1)
      <4>1. inFile'[o] = inFile[o]
        BY <1>1, <2>1, <3>2
      <4>2. o < written' <=> o < written
        BY <1>1, <2>1, <2>3, <3>2
      <4> QED BY <1>3, <4>1, <4>2
    <3> QED BY <3>1, <3>2
  <2>6. inFile' \in [0..RangeLength -> Int]
    <3>1. inFile' = [o \in 0..RangeLength |-> inFile'[o]]
      BY <1>1, <2>1
    <3>2. \A o \in 0..RangeLength : inFile'[o] \in Int
      BY <2>5 DEF Foreign
    <3> QED BY <3>1, <3>2
  <2>7. /\ Cut(Total(writev)) \in {"none", "done", "overflow", "error"}
        /\ Cut(Total(writev)) = "none" => Total(writev) < room \/ Total(writev) = room
        /\ Cut(Total(writev)) = "done" => ~(Total(writev) < room) /\ ~rangeFinal
    BY DEF Cut
  <2>8. PICK end \in {"none", "done", "overflow", "error"} : end = Cut(Total(writev))
    BY <2>7
  <2>9. /\ Proceeds(end)
        /\ end = "none" => written' = written + Total(writev)
        /\ end = "done" => written' = rangeLength /\ ~rangeFinal
    BY <2>1, <2>3, <2>7, <2>8
  <2>10. SwFile'
    BY <2>4, <2>5 DEF SwFile
  <2> QED BY <1>1, <2>4, <2>6, <2>9, <2>10
<1>5. CASE ~ok
  <2>1. inFile' = inFile /\ written' = written /\ Proceeds("error")
    BY <1>5 DEF WriteDone
  <2>2. SwFile'
    BY <1>1, <1>3, <2>1 DEF SwFile
  <2> QED BY <1>1, <2>1, <2>2
<1> QED BY <1>4, <1>5

(* The next write takes over what has been submitted meanwhile, or the     *)
(* slabs of all of it go.                                                  *)
LEMMA SwWriteEnds ==
  ASSUME SwInv, NEW ok \in BOOLEAN, WriteDone(ok)
  PROVE  SwInv'
<1>1. /\ socketAt' = socketAt /\ sends' = sends /\ rangeFinal' = rangeFinal /\ rangeLength' = rangeLength
      /\ received' = received /\ slab' = slab /\ fill' = fill /\ sent' = sent
      /\ partialTimer' = partialTimer /\ writerStopped' = writerStopped /\ fdClosed' = fdClosed
  BY DEF WriteDone, rangeVars
<1>2. /\ writev # <<>> /\ written' \in Nat /\ inFile' \in [0..RangeLength -> Int] /\ SwFile'
      /\ \E end \in {"none", "done", "overflow", "error"} :
           /\ Proceeds(end)
           /\ end = "none" => written' = written + Total(writev)
           /\ end = "done" => written' = rangeLength /\ ~rangeFinal
  BY SwWritten
<1>3. PICK end \in {"none", "done", "overflow", "error"} :
        /\ Proceeds(end)
        /\ end = "none" => written' = written + Total(writev)
        /\ end = "done" => written' = rangeLength /\ ~rangeFinal
  BY <1>2
<1>4. PICK over \in BOOLEAN : over = (end # "none" \/ writerStopped \/ Destroyed)
  OBVIOUS
<1>5. /\ Settle(Without(refs, IF over THEN Backlog ELSE writev), bytesIn, slabsQueued)
      /\ writev' = IF over THEN <<>> ELSE pieces
      /\ room' = rangeLength - written'
      /\ pieces' = <<>>
      /\ writerEnd' = IF end # "none" /\ ~Destroyed THEN end ELSE writerEnd
  BY <1>3, <1>4, Zenon DEF Proceeds, Backlog
<1>6. /\ Backlog \in Seq(SomePiece) /\ Len(Backlog) \in Nat /\ NoSlab \notin Slabs /\ SwTypes
      /\ \A t \in Slabs : PiecesIn(Backlog, t) \in Nat /\ refs[t] \in Nat
  BY SwFacts
<1>7. /\ fill \in Nat /\ fill <= SlabSize /\ sent \in Nat /\ sent <= fill /\ SlabSize \in Nat
      /\ refs \in [Slabs -> Nat] /\ slab \in Slabs \cup {NoSlab} /\ slabsQueued \in Nat
      /\ pieces \in Seq(SomePiece) /\ writev \in Seq(SomePiece) /\ written \in Nat
      /\ SlabCount \in Nat /\ rangeLength \in Int /\ bytesIn \in [Slabs -> [1..SlabSize -> Int]]
  BY SlabAssumption DEF SwInv, SwTypes
<1>8. /\ \A t \in Slabs : refs[t] = PiecesIn(Backlog, t) + (IF t = slab THEN 1 ELSE 0)
      /\ slabsQueued = Cardinality(HeldBeside(refs, slab)) /\ slabsQueued <= SlabCount - 1
      /\ socketAt = "open" /\ ~paused => slabsQueued <= SlabCount - 2
      /\ paused => slab = NoSlab
      /\ slab = NoSlab => fill = 0 /\ sent = 0
      /\ \A i \in 1..Len(Backlog) : Backlog[i].slab = slab => Backlog[i].to <= sent
  BY DEF SwInv, SwSlabs
<1>9. SwEnds
  BY DEF SwInv
<1>10. /\ writerEnd' \in {"none", "ended", "done", "overflow", "error"}
       /\ Destroyed => Destroyed'
       /\ ~Destroyed' => ~over /\ ~Destroyed
       /\ writerEnd' = "ended" => writerEnd = "ended"
       /\ writerEnd # "none" => writerEnd' # "none"
       /\ writerEnd' = "done" => end = "done" /\ over
       /\ ~over => end = "none"
  BY <1>2, <1>3, <1>4, <1>5, <1>6, <1>9 DEF SwTypes, Destroyed, SwEnds
<1>11. Backlog' = writev' /\ Backlog' \in Seq(SomePiece)
  <2>1. writev' \in Seq(SomePiece)
    BY <1>5, <1>7, SwNone
  <2>2. writev' \o <<>> = writev'
    BY <2>1, SwNone
  <2> QED BY <1>5, <2>1, <2>2 DEF Backlog
<1>12. \A t \in Slabs : /\ PiecesIn(Backlog, t) = PiecesIn(writev, t) + PiecesIn(pieces, t)
                        /\ PiecesIn(writev, t) \in Nat /\ PiecesIn(pieces, t) \in Nat
  BY <1>7, SwBacklog
<1>13. \A t : PiecesIn(<<>>, t) = 0
  BY SwNone
<1> DEFINE gone == IF over THEN Backlog ELSE writev
           R == [s \in Slabs |-> refs[s] - PiecesIn(gone, s)]
<1>14. /\ R \in [Slabs -> Nat]
       /\ \A t \in Slabs : R[t] = PiecesIn(Backlog', t) + (IF t = slab THEN 1 ELSE 0)
  <2>1. ASSUME NEW t \in Slabs
        PROVE  /\ refs[t] - PiecesIn(gone, t) \in Nat
               /\ refs[t] - PiecesIn(gone, t) = PiecesIn(Backlog', t) + (IF t = slab THEN 1 ELSE 0)
    <3>1. CASE over
      <4>1. gone = Backlog /\ Backlog' = <<>>
        BY <1>5, <1>11, <3>1
      <4>2. PiecesIn(Backlog', t) = 0
        BY <1>13, <4>1
      <4> QED BY <1>6, <1>8, <4>1, <4>2
    <3>2. CASE ~over
      <4>1. gone = writev /\ Backlog' = pieces
        BY <1>5, <1>11, <3>2
      <4> QED BY <1>6, <1>8, <1>12, <4>1
    <3> QED BY <3>1, <3>2
  <2> HIDE DEF gone
  <2> QED BY <2>1
<1>15. Settle(R, bytesIn, slabsQueued)
  BY <1>5 DEF Without
<1> HIDE DEF R, gone
<1>16. \A t \in Slabs : PiecesIn(Backlog', t) \in Nat /\ PiecesIn(Backlog', t) <= PiecesIn(Backlog, t)
  <2>1. CASE over
    <3>1. Backlog' = <<>>
      BY <1>5, <1>11, <2>1
    <3> QED BY <1>6, <1>13, <3>1
  <2>2. CASE ~over
    <3>1. Backlog' = pieces
      BY <1>5, <1>11, <2>2
    <3> QED BY <1>12, <3>1
  <2> QED BY <2>1, <2>2
<1>17. \A s \in Slabs : (R[s] > 0 => refs[s] > 0) /\ (s = slab /\ refs[s] > 0 => R[s] > 0)
  BY <1>6, <1>8, <1>14, <1>16
<1>18. /\ refs' = R /\ bytesIn' \in [Slabs -> [1..SlabSize -> Int]]
       /\ \A s \in Slabs : R[s] > 0 => bytesIn'[s] = bytesIn[s]
       /\ slabsQueued' \in Nat /\ slabsQueued' <= slabsQueued
       /\ slabsQueued' = Cardinality(HeldBeside(R, slab))
       /\ paused' \in BOOLEAN /\ (paused' => paused)
       /\ paused /\ ~paused' => slabsQueued' <= SlabCount - 2
  BY <1>6, <1>7, <1>8, <1>14, <1>15, <1>17, SwSettles
<1>19. SwTypes'
  <2>1. room' \in Int
    BY <1>2, <1>5, <1>7
  <2>2. pieces' \in Seq(SomePiece) /\ writev' \in Seq(SomePiece)
    BY <1>5, <1>11, SwNone
  <2>3. refs' \in [Slabs -> Nat]
    BY <1>14, <1>18
  <2> QED BY <1>1, <1>2, <1>6, <1>10, <1>18, <2>1, <2>2, <2>3, Zenon DEF SwTypes
<1>20. \A i \in 1..Len(Backlog') : Backlog'[i].slab = slab => Backlog'[i].to <= sent
  <2>1. CASE over
    <3>1. Len(Backlog') = 0
      BY <1>5, <1>11, <2>1, SwNone
    <3> QED BY <3>1
  <2>2. CASE ~over
    <3>1. Backlog' = pieces
      BY <1>5, <1>11, <2>2
    <3>2. /\ Len(Backlog) = Len(writev) + Len(pieces)
          /\ \A i \in 1..Len(pieces) : Backlog[Len(writev) + i] = pieces[i]
      BY <1>7, SwConcat DEF Backlog
    <3>3. Len(writev) \in Nat /\ Len(pieces) \in Nat
      BY <1>7, LenProperties
    <3>4. \A i \in 1..Len(pieces) : Len(writev) + i \in 1..Len(Backlog)
      BY <3>2, <3>3
    <3> QED BY <1>8, <3>1, <3>2, <3>4
  <2> QED BY <2>1, <2>2
<1>21. SwSlabs'
  <2>1. \A t \in Slabs : refs'[t] = PiecesIn(Backlog', t) + (IF t = slab' THEN 1 ELSE 0)
    BY <1>1, <1>14, <1>18
  <2>2. /\ slabsQueued' = Cardinality(HeldBeside(refs', slab')) /\ slabsQueued' <= SlabCount - 1
        /\ socketAt' = "open" /\ ~paused' => slabsQueued' <= SlabCount - 2
    BY <1>1, <1>7, <1>8, <1>18
  <2>3. paused' => slab' = NoSlab
    BY <1>1, <1>8, <1>18
  <2> QED BY <1>1, <1>8, <1>20, <2>1, <2>2, <2>3 DEF SwSlabs
<1>22. ~over => Laid(bytesIn, pieces, written') /\ written' = written + Total(writev)
  <2>1. Laid(bytesIn, writev \o pieces, written) /\ written \in Int
    BY <1>7 DEF SwInv, SwBytes, Backlog
  <2>2. Laid(bytesIn, pieces, written + Total(writev))
    BY <1>7, <2>1, SwLaidConcat
  <2> QED BY <1>3, <1>10, <2>2
<1>23. SwBytes'
  <2>1. Laid(bytesIn', Backlog', written')
    <3>1. Laid(bytesIn, Backlog', written')
      <4>1. CASE over
        BY <1>5, <1>11, <4>1, SwNone
      <4>2. CASE ~over
        BY <1>5, <1>11, <1>22, <4>2
      <4> QED BY <4>1, <4>2
    <3>2. \A s \in Slabs : PiecesIn(Backlog', s) > 0 => bytesIn'[s] = bytesIn[s]
      BY <1>14, <1>16, <1>18
    <3> QED BY <1>11, <3>1, <3>2, SwKept
  <2>2. ASSUME ~Destroyed'
        PROVE  /\ received' = written' + Total(Backlog') + (fill' - sent')
               /\ \A j \in (sent' + 1)..fill' :
                    bytesIn'[slab'][j] = written' + Total(Backlog') + (j - sent' - 1)
    <3>1. ~over /\ ~Destroyed
      BY <1>10, <2>2
    <3>2. /\ received = written + Total(Backlog) + (fill - sent)
          /\ \A j \in (sent + 1)..fill : bytesIn[slab][j] = written + Total(Backlog) + (j - sent - 1)
      BY <3>1 DEF SwInv, SwBytes
    <3>3. /\ Total(Backlog) = Total(writev) + Total(pieces)
          /\ Total(writev) \in Nat /\ Total(pieces) \in Nat
      BY <1>7, SwBacklog
    <3>4. Backlog' = pieces
      BY <1>5, <1>11, <3>1
    <3>5. written' + Total(Backlog') = written + Total(Backlog)
      BY <1>7, <1>22, <3>1, <3>3, <3>4
    <3>6. ASSUME NEW j \in (sent + 1)..fill PROVE bytesIn'[slab] = bytesIn[slab]
      <4>1. slab \in Slabs
        BY <1>7, <1>8
      <4>2. R[slab] > 0
        BY <1>14, <1>16, <4>1
      <4> QED BY <1>18, <4>1, <4>2
    <3>7. received' = written' + Total(Backlog') + (fill' - sent')
      BY <1>1, <3>2, <3>5
    <3>8. \A j \in (sent + 1)..fill : bytesIn'[slab][j] = written' + Total(Backlog') + (j - sent - 1)
      BY <3>2, <3>5, <3>6
    <3> QED BY <1>1, <3>7, <3>8
  <2> QED BY <2>1, <2>2 DEF SwBytes
<1>24. SwRoom'
  BY <1>1, <1>5 DEF SwRoom
<1>25. SwEnds'
  <2>1. ~over => writev' = pieces
    BY <1>5
  <2>2. over => writev' = <<>>
    BY <1>5
  <2>3. ~writerStopped \/ over
    BY <1>4
  <2> QED BY <1>1, <1>2, <1>3, <1>5, <1>9, <1>10, <2>1, <2>2, <2>3 DEF SwEnds
<1> QED BY <1>2, <1>19, <1>21, <1>23, <1>24, <1>25 DEF SwInv

(* What the other steps leave alone.                                       *)
LEMMA SwRests ==
  ASSUME SwInv, UNCHANGED <<sends, received, socketAt, slab, fill, sent, refs, bytesIn, pieces, writev,
                            slabsQueued, paused, written, inFile>>
  PROVE  SwSlabs' /\ Backlog' = Backlog
<1>1. /\ sends' = sends /\ received' = received /\ socketAt' = socketAt /\ slab' = slab /\ fill' = fill
      /\ sent' = sent /\ refs' = refs /\ pieces' = pieces /\ writev' = writev
      /\ slabsQueued' = slabsQueued /\ paused' = paused
  OBVIOUS
<1>2. Backlog' = Backlog
  BY <1>1 DEF Backlog
<1>3. SwSlabs
  BY DEF SwInv
<1> QED BY <1>1, <1>2, <1>3 DEF SwSlabs

LEMMA SwSplits ==
  ASSUME SwInv, NEW end \in 1..RangeLength, SplitAt(end)
  PROVE  SwInv'
<1>1. /\ rangeFinal /\ ~Ending /\ end > written + Total(Backlog) /\ end < rangeLength
      /\ rangeFinal' = FALSE /\ rangeLength' = end
      /\ sends' = sends /\ received' = received /\ socketAt' = socketAt /\ slab' = slab
      /\ fill' = fill /\ sent' = sent /\ partialTimer' = partialTimer /\ refs' = refs
      /\ bytesIn' = bytesIn /\ pieces' = pieces /\ writev' = writev /\ room' = room
      /\ slabsQueued' = slabsQueued /\ paused' = paused /\ written' = written
      /\ inFile' = inFile /\ fdClosed' = fdClosed /\ writerEnd' = writerEnd
      /\ writerStopped' = writerStopped
  BY DEF SplitAt, fileVars, Backlog
<1>2. SwSlabs' /\ Backlog' = Backlog
  BY <1>1, SwRests
<1>3. SwTypes /\ written \in Nat /\ rangeLength \in Nat
      /\ writev \in Seq(SomePiece) /\ pieces \in Seq(SomePiece) /\ room \in Int /\ RangeLength \in Nat
  BY SlabAssumption DEF SwInv, SwTypes
<1>4. /\ Total(Backlog) = Total(writev) + Total(pieces)
      /\ Total(writev) \in Nat /\ Total(pieces) \in Nat
  BY <1>3, SwBacklog
<1>5. SwTypes'
  <2>1. rangeFinal' \in BOOLEAN
    BY <1>1, Zenon
  <2> QED BY <1>1, <1>3, <2>1, Zenon DEF SwTypes
<1>6. SwBytes'
  BY <1>1, <1>2 DEF SwInv, SwBytes, Destroyed
<1>7. SwRoom'
  <2>1. SwRoom
    BY DEF SwInv
  <2> QED BY <1>1, <1>3, <1>4, <2>1 DEF SwRoom
<1>8. SwEnds'
  <2>1. SwEnds /\ writerEnd = "none"
    BY <1>1 DEF SwInv, Ending
  <2> QED BY <1>1, <2>1 DEF SwEnds, Destroyed
<1>9. SwFile'
  BY <1>1, <1>3, <1>4 DEF SwInv, SwFile
<1> QED BY <1>2, <1>5, <1>6, <1>7, <1>8, <1>9 DEF SwInv

LEMMA SwStops == SwInv /\ Stop => SwInv'
<1> SUFFICES ASSUME SwInv, Stop PROVE SwInv'
  OBVIOUS
<1>0. socketAt = "closed" \/ Destroyed \/ (writerEnd = "ended" /\ writev = <<>>)
  BY Zenon DEF Stop
<1>1. /\ writerStopped' = TRUE /\ partialTimer' = FALSE
      /\ sends' = sends /\ rangeFinal' = rangeFinal /\ rangeLength' = rangeLength
      /\ received' = received /\ socketAt' = socketAt /\ slab' = slab
      /\ fill' = fill /\ sent' = sent /\ refs' = refs
      /\ bytesIn' = bytesIn /\ pieces' = pieces /\ writev' = writev /\ room' = room
      /\ slabsQueued' = slabsQueued /\ paused' = paused /\ written' = written
      /\ inFile' = inFile /\ fdClosed' = fdClosed /\ writerEnd' = writerEnd
  BY DEF Stop, rangeVars, fileVars
<1>2. SwSlabs' /\ Backlog' = Backlog
  BY <1>1, SwRests
<1>3. SwTypes /\ SwEnds /\ SwRoom /\ SwFile
  BY DEF SwInv
<1>4. SwTypes'
  <2>1. writerStopped' \in BOOLEAN /\ partialTimer' \in BOOLEAN
    BY <1>1, Zenon
  <2> QED BY <1>1, <1>3, <2>1, Zenon DEF SwTypes
<1>5. SwBytes'
  BY <1>1, <1>2 DEF SwInv, SwBytes, Destroyed
<1>6. SwRoom' /\ SwFile'
  BY <1>1, <1>3 DEF SwRoom, SwFile
<1>7. SwEnds'
  BY <1>0, <1>1, <1>3 DEF SwEnds, Destroyed
<1> QED BY <1>2, <1>4, <1>5, <1>6, <1>7 DEF SwInv

LEMMA SwCloses ==
  ASSUME SwInv, CloseFile \/ UNCHANGED slabVars
  PROVE  SwInv'
<1>1. /\ (fdClosed' = TRUE /\ writerStopped /\ writev = <<>>) \/ fdClosed' = fdClosed
      /\ writerStopped' = writerStopped /\ partialTimer' = partialTimer
      /\ sends' = sends /\ rangeFinal' = rangeFinal /\ rangeLength' = rangeLength
      /\ received' = received /\ socketAt' = socketAt /\ slab' = slab
      /\ fill' = fill /\ sent' = sent /\ refs' = refs
      /\ bytesIn' = bytesIn /\ pieces' = pieces /\ writev' = writev /\ room' = room
      /\ slabsQueued' = slabsQueued /\ paused' = paused /\ written' = written
      /\ inFile' = inFile /\ writerEnd' = writerEnd
  <2>1. CASE CloseFile
    BY <2>1 DEF CloseFile, WritesOver, rangeVars
  <2>2. CASE UNCHANGED slabVars
    BY <2>2 DEF slabVars
  <2> QED BY <2>1, <2>2
<1>2. SwSlabs' /\ Backlog' = Backlog
  BY <1>1, SwRests
<1>3. SwTypes /\ SwEnds /\ SwRoom /\ SwFile
  BY DEF SwInv
<1>4. SwTypes'
  <2>1. fdClosed' \in BOOLEAN
    BY <1>1, <1>3, Zenon DEF SwTypes
  <2> QED BY <1>1, <1>3, <2>1, Zenon DEF SwTypes
<1>5. SwBytes'
  BY <1>1, <1>2 DEF SwInv, SwBytes, Destroyed
<1>6. SwRoom' /\ SwFile'
  BY <1>1, <1>3 DEF SwRoom, SwFile
<1>7. SwEnds'
  BY <1>1, <1>3 DEF SwEnds, Destroyed
<1> QED BY <1>2, <1>4, <1>5, <1>6, <1>7 DEF SwInv

(* Through every step of the download it is known who holds each slab and  *)
(* where each byte of the server is.                                       *)
THEOREM SlabInvariance == SlabInit /\ [][SlabNext]_slabVars => []SwInv
<1>1. SlabInit => SwInv
  BY SwStarts
<1>2. SwInv /\ [SlabNext]_slabVars => SwInv'
  <2> SUFFICES ASSUME SwInv, [SlabNext]_slabVars PROVE SwInv'
    OBVIOUS
  <2>1. ASSUME NEW n \in 1..SlabSize, Receive(n) PROVE SwInv'
    BY <2>1, SwReceives
  <2>2. CASE FlushPartial
    BY <2>2, SwFlushes
  <2>3. CASE SocketEnds
    BY <2>3, SwSocketEnds
  <2>4. ASSUME NEW heard \in BOOLEAN, SocketCloses(heard) PROVE SwInv'
    BY <2>4, SwSocketCloses
  <2>5. ASSUME NEW ok \in BOOLEAN, WriteDone(ok) PROVE SwInv'
    BY <2>5, SwWriteEnds
  <2>6. ASSUME NEW end \in 1..RangeLength, SplitAt(end) PROVE SwInv'
    BY <2>6, SwSplits
  <2>7. CASE Stop
    BY <2>7, SwStops
  <2>8. CASE CloseFile \/ UNCHANGED slabVars
    BY <2>8, SwCloses
  <2> QED BY <2>1, <2>2, <2>3, <2>4, <2>5, <2>6, <2>7, <2>8, Zenon DEF SlabNext, SlabProgress
<1> QED BY <1>1, <1>2, PTL

LEMMA SwInvGives == SwInv => SlabSafe
<1> SUFFICES ASSUME SwInv PROVE SlabSafe
  OBVIOUS
<1>1. /\ SwTypes /\ NoSlab \notin Slabs
      /\ \A s \in Slabs : PiecesIn(Backlog, s) \in Nat /\ refs[s] \in Nat
  BY SwFacts
<1>2. /\ received \in 0..sends /\ rangeLength \in 1..RangeLength /\ slab \in Slabs \cup {NoSlab}
      /\ fill \in Nat /\ fill <= SlabSize /\ sent \in Nat /\ sent <= fill
      /\ slabsQueued \in Nat /\ SlabCount \in Nat
      /\ writerEnd \in {"none", "ended", "done", "overflow", "error"}
      /\ pieces \in Seq(SomePiece) /\ writev \in Seq(SomePiece)
      /\ refs \in [Slabs -> Nat] /\ inFile \in [0..RangeLength -> Int]
      /\ written \in Nat
  BY <1>1, SlabAssumption DEF SwTypes
<1>3. /\ \A s \in Slabs : refs[s] = PiecesIn(Backlog, s) + (IF s = slab THEN 1 ELSE 0)
      /\ slabsQueued = Cardinality(HeldBeside(refs, slab)) /\ slabsQueued <= SlabCount - 1
      /\ slab = NoSlab => fill = 0 /\ sent = 0
  BY DEF SwInv, SwSlabs
<1>4. SlabTypeOK
  BY <1>1, <1>2, <1>3 DEF SlabTypeOK
<1>5. SlabsCounted
  <2>1. ASSUME NEW s \in Slabs
        PROVE  refs[s] - PiecesIn(writev, s) - PiecesIn(pieces, s) = IF s = slab THEN 1 ELSE 0
    <3>1. /\ PiecesIn(Backlog, s) = PiecesIn(writev, s) + PiecesIn(pieces, s)
          /\ PiecesIn(writev, s) \in Nat /\ PiecesIn(pieces, s) \in Nat
      BY <1>2, SwBacklog
    <3> QED BY <1>3, <3>1
  <2>2. Without(Without(refs, writev), pieces) = [s \in Slabs |-> IF s = slab THEN 1 ELSE 0]
    BY <2>1 DEF Without
  <2> DEFINE H == {s \in Slabs : refs[s] > 0}
             O == {s \in Slabs : refs[s] > 0 /\ s # slab}
  <2>3. Cardinality(O) = slabsQueued
    BY <1>3 DEF HeldBeside
  <2>4. Cardinality(H) <= SlabCount
    <3>1. H \subseteq Slabs /\ O \subseteq Slabs /\ H \subseteq O \cup {slab}
      OBVIOUS
    <3> HIDE DEF H, O
    <3>2. IsFiniteSet(O) /\ IsFiniteSet(H)
      BY <3>1, SlabsFinite
    <3>3. IsFiniteSet({slab}) /\ Cardinality({slab}) = 1
      BY FS_Singleton
    <3>4. /\ IsFiniteSet(O \cup {slab})
          /\ Cardinality(O \cup {slab}) = Cardinality(O) + Cardinality({slab}) - Cardinality(O \cap {slab})
      BY <3>2, <3>3, FS_Union
    <3>5. Cardinality(O \cap {slab}) \in Nat /\ Cardinality(O) \in Nat /\ Cardinality(H) \in Nat
          /\ Cardinality(O \cup {slab}) \in Nat
      <4>1. IsFiniteSet(O \cap {slab})
        BY <3>2, FS_Subset
      <4> QED BY <3>2, <3>4, <4>1, FS_CardinalityType
    <3>6. Cardinality(H) <= Cardinality(O \cup {slab})
      BY <3>1, <3>4, FS_Subset
    <3> QED BY <1>2, <1>3, <2>3, <3>3, <3>4, <3>5, <3>6
  <2> QED BY <2>2, <2>3, <2>4 DEF SlabsCounted
<1>6. FileRight
  BY <1>2 DEF SwInv, SwFile, SwEnds, FileRight
<1>7. EndsFull
  <2>1. writerEnd = "done" => written = rangeLength /\ ~rangeFinal
    BY DEF SwInv, SwEnds
  <2>2. ASSUME writerEnd = "ended", writev = <<>>, socketAt = "ended" PROVE written = received
    <3>1. pieces = <<>> /\ slab = NoSlab /\ ~Destroyed
      BY <2>2 DEF SwInv, SwEnds, Destroyed
    <3>2. received = written + Total(Backlog) + (fill - sent)
      BY <3>1 DEF SwInv, SwBytes
    <3>3. Backlog = <<>> /\ fill = 0 /\ sent = 0
      BY <1>3, <2>2, <3>1, SwNone DEF Backlog
    <3>4. Total(Backlog) = 0
      BY <3>3, SwNone
    <3> QED BY <1>2, <3>2, <3>3, <3>4
  <2> QED BY <2>1, <2>2 DEF EndsFull
<1> QED BY <1>4, <1>5, <1>6, <1>7 DEF SlabSafe

(* Nobody writes into a slab a download still needs, a download takes no   *)
(* more than its share of the pool and gives back what it took, and the    *)
(* file has the server's bytes, each at its place (DOWNLOAD_SLABS,         *)
(* releaseSlab and the writer in segmentWriter.ts).                        *)
THEOREM SlabsAreKept == SlabSpec => []SlabSafe
BY SlabInvariance, SwInvGives, PTL DEF SlabSpec

-----------------------------------------------------------------------------
(* The caches of thumbnails and previews (MediaCache).                     *)

AskPlaces == {"none", "done", "login", "second", "queued", "main"}
McAsks ==
  /\ mcAsk \in [MediaAsks -> [file : Nat, at : AskPlaces]]
  /\ \A r \in MediaAsks : Working(r) => mcAsk[r].file \in Cacheable
  /\ mcCut \subseteq {r \in MediaAsks : Working(r)}
  /\ mcFlight # 0 => mcFlight \in MediaAsks /\ mcFlight \notin mcCut /\ Working(mcFlight)
  /\ \A r \in MediaAsks : Working(r) /\ r # mcFlight => r \in mcCut
  /\ \A r, s \in MediaAsks : mcAsk[r].at = "main" /\ mcAsk[s].at = "main" => r = s

McInv ==
  /\ mcRows \in Seq(Cacheable) /\ Once(mcRows)
  /\ McAsks
  /\ NoStrays
  /\ StoreWithin

LEMMA McStarts == MediaInit => McInv
<1> SUFFICES ASSUME MediaInit PROVE McInv
  OBVIOUS
<1>1. mcRows \in Seq(Cacheable) /\ Once(mcRows) /\ InSeq(mcRows) = {}
  BY EmptySeq DEF MediaInit, Once, InSeq
<1>2. McAsks
  BY DEF MediaInit, McAsks, Working, NoAsk, AskPlaces
<1> QED BY <1>1, <1>2 DEF McInv, MediaInit, NoStrays, StoreWithin

-----------------------------------------------------------------------------
(* The eviction.                                                           *)

(* The sizes of a part of the rows are a part of their sizes.               *)
LEMMA TotalOfPart ==
  ASSUME NEW rows \in Seq(Cacheable), NEW m \in 0..Len(rows), NEW n \in m..Len(rows),
         NEW sizes, sizes = [i \in DOMAIN rows |-> SizeOf(rows[i])]
  PROVE  /\ sizes \in Seq(Nat) /\ Len(sizes) = Len(rows)
         /\ TotalSize(SubSeq(rows, m + 1, n)) = PartSums(sizes)[n] - PartSums(sizes)[m]
<1> DEFINE part == SubSeq(rows, m + 1, n)
           psizes == SubSeq(sizes, m + 1, n)
<1>1. Len(rows) \in Nat /\ DOMAIN rows = 1..Len(rows) /\ \A i \in 1..Len(rows) : rows[i] \in Nat
  <2>1. Len(rows) \in Nat /\ DOMAIN rows = 1..Len(rows) /\ \A i \in 1..Len(rows) : rows[i] \in Cacheable
    BY LenProperties, ElementOfSeq
  <2> QED BY <2>1, MediaAssumption DEF Cacheable
<1>2. \A i \in 1..Len(rows) : sizes[i] = SizeOf(rows[i]) /\ SizeOf(rows[i]) \in Nat
  BY <1>1 DEF SizeOf
<1>3. sizes \in [1..Len(rows) -> Nat]
  BY <1>1, <1>2
<1>4. sizes \in Seq(Nat) /\ Len(sizes) = Len(rows)
  BY <1>1, <1>3, SeqDef, LenProperties
<1>5. /\ Len(part) = n - m /\ DOMAIN part = 1..(n - m)
      /\ \A i \in 1..(n - m) : part[i] = rows[m + i]
  <2>1. \A i \in m + 1..n : rows[i] \in Nat
    BY <1>1
  <2>2. /\ part \in Seq(Nat) /\ Len(part) = IF m + 1 <= n THEN n - (m + 1) + 1 ELSE 0
        /\ \A i \in 1..n - (m + 1) + 1 : part[i] = rows[(m + 1) + i - 1]
    BY <1>1, <2>1, SubSeqProperties
  <2> HIDE DEF part
  <2>3. DOMAIN part = 1..Len(part)
    BY <2>2, LenProperties
  <2> QED BY <1>1, <2>2, <2>3
<1>6. /\ psizes \in Seq(Nat) /\ Len(psizes) = n - m
      /\ \A i \in 1..(n - m) : psizes[i] = sizes[m + i]
  <2>1. \A i \in m + 1..n : sizes[i] \in Nat
    BY <1>1, <1>2
  <2>2. /\ psizes \in Seq(Nat) /\ Len(psizes) = IF m + 1 <= n THEN n - (m + 1) + 1 ELSE 0
        /\ \A i \in 1..n - (m + 1) + 1 : psizes[i] = sizes[(m + 1) + i - 1]
    BY <1>1, <1>4, <2>1, SubSeqProperties
  <2> HIDE DEF psizes
  <2> QED BY <1>1, <2>2
<1> HIDE DEF part, psizes
<1>7. [i \in DOMAIN part |-> SizeOf(part[i])] = psizes
  <2>1. psizes = [i \in 1..(n - m) |-> psizes[i]]
    BY <1>6, LenProperties
  <2>2. \A i \in 1..(n - m) : SizeOf(part[i]) = psizes[i]
    BY <1>1, <1>2, <1>5, <1>6
  <2> QED BY <1>5, <2>1, <2>2
<1>8. TotalSize(part) = SumOf(psizes)
  BY <1>7 DEF TotalSize
<1>9. SumOf(psizes) = PartSums(sizes)[n] - PartSums(sizes)[m]
  <2>1. sizes \in Seq(Int) /\ m \in 0..Len(sizes) /\ n \in m..Len(sizes)
    BY <1>3, <1>4, SeqDef
  <2> QED BY <2>1, SumsOfPart DEF psizes
<1> QED BY <1>4, <1>8, <1>9 DEF part

LEMMA EvictFacts ==
  ASSUME NEW rows \in Seq(Cacheable), rows # <<>>, NEW n, n = Evictable(rows)
  PROVE  /\ n \in 0..(Len(rows) - 1)
         /\ TotalSize(SubSeq(rows, n + 1, Len(rows))) <= MediaLimit \/ n = EvictRows
<1> DEFINE L == Len(rows)
<1>1. L \in Nat \ {0} /\ DOMAIN rows = 1..L /\ rows[L] \in Cacheable
  BY EmptySeq, LenProperties, ElementOfSeq
<1>2. PICK sizes : sizes = [i \in DOMAIN rows |-> SizeOf(rows[i])]
  OBVIOUS
<1> DEFINE P(k) == PartSums(sizes)[k]
<1>3. /\ sizes \in Seq(Nat) /\ sizes \in Seq(Int) /\ Len(sizes) = L
      /\ \A a \in 0..L : \A b \in a..L : TotalSize(SubSeq(rows, a + 1, b)) = P(b) - P(a)
  <2>1. 0 \in 0..L /\ 0 \in 0..0
    BY <1>1
  <2>2. sizes \in Seq(Nat) /\ Len(sizes) = L
    BY <1>1, <1>2, <2>1, TotalOfPart
  <2> QED BY <1>1, <1>2, <2>2, TotalOfPart, SeqDef
<1>4. AddsUp(PartSums(sizes), sizes) /\ \A k \in 0..L : P(k) \in Int
  BY <1>3, SumsFacts
<1>5. P(0) = 0 /\ P(L) = P(L - 1) + SizeOf(rows[L]) /\ SizeOf(rows[L]) \in Nat /\ SizeOf(rows[L]) <= FileLimit
  <2>1. L \in 1..Len(sizes) /\ sizes[L] = SizeOf(rows[L])
    BY <1>1, <1>2, <1>3
  <2>2. rows[L] \in Nat /\ SizeOf(rows[L]) <= FileLimit
    BY <1>1, MediaAssumption DEF Cacheable
  <2> QED BY <1>4, <2>1, <2>2 DEF AddsUp, SizeOf
<1>6. \A a \in 0..L : \A b \in a..L : P(a) <= P(b)
  BY <1>3, SumsGrow
<1>7. SubSeq(rows, 1, L) = rows /\ TotalSize(rows) = P(L)
  <2>1. SubSeq(rows, 1, L) = rows
    BY <1>1, SubSeqFull
  <2>2. TotalSize(SubSeq(rows, 0 + 1, L)) = P(L) - P(0)
    BY <1>1, <1>3
  <2>3. P(L) \in Int
    BY <1>1, <1>4
  <2> HIDE DEF P, L
  <2>4. TotalSize(SubSeq(rows, 1, L)) = P(L)
    BY <1>5, <2>2, <2>3
  <2> QED BY <2>1, <2>4
<1> DEFINE toFree == 5 * P(L) - 4 * MediaLimit
           takes(k) == k <= EvictRows /\ 5 * TotalSize(SubSeq(rows, 1, k - 1)) < toFree
           taken == {k \in DOMAIN rows : takes(k)}
<1>8. n = IF P(L) <= MediaLimit THEN 0 ELSE Cardinality(taken)
  BY <1>7, Zenon DEF Evictable
<1>9. \A k \in 1..L : TotalSize(SubSeq(rows, 1, k - 1)) = P(k - 1)
  <2> TAKE k \in 1..L
  <2>1. k - 1 \in 0..L /\ 0 \in 0..L /\ TotalSize(SubSeq(rows, 0 + 1, k - 1)) = P(k - 1) - P(0)
    BY <1>1, <1>3
  <2> QED BY <1>4, <1>5, <2>1
<1>10. taken = {k \in 1..L : k <= EvictRows /\ 5 * P(k - 1) < toFree}
  BY <1>1, <1>9
<1> HIDE DEF P, L, taken
<1>11. \A k \in taken : \A j \in 1..k : j \in taken
  <2> SUFFICES ASSUME NEW k \in taken, NEW j \in 1..k PROVE j \in taken
    OBVIOUS
  <2>1. k \in 1..L /\ k <= EvictRows /\ 5 * P(k - 1) < toFree
    BY <1>10
  <2>2. j \in 1..L /\ j <= EvictRows /\ j - 1 \in 0..L /\ k - 1 \in (j - 1)..L
    BY <1>1, <2>1, MediaAssumption
  <2>3. P(j - 1) <= P(k - 1) /\ P(j - 1) \in Int /\ P(k - 1) \in Int /\ P(L) \in Int
    BY <1>1, <1>4, <1>6, <2>2
  <2> QED BY <1>10, <2>1, <2>2, <2>3, MediaAssumption
<1>12. L \notin taken
  <2>1. P(L - 1) \in Int /\ P(L) \in Int
    BY <1>1, <1>4
  <2> QED BY <1>1, <1>5, <1>10, <2>1, MediaAssumption
<1>13. PICK m \in 1..L : m \notin taken /\ \A j \in 1..(m - 1) : j \in taken
  <2> DEFINE T == {k \in 1..L : k \notin taken}
  <2>1. T # {} /\ T \subseteq Nat
    BY <1>1, <1>12
  <2> HIDE DEF T
  <2>2. PICK m \in T : \A y \in T : m <= y
    BY <2>1, LeastOf
  <2> QED BY <1>1, <2>2 DEF T
<1>14. taken = 1..(m - 1) /\ Cardinality(1..(m - 1)) = m - 1
  <2>1. \A k \in taken : k <= m - 1
    BY <1>1, <1>10, <1>11, <1>13
  <2>2. taken \subseteq 1..L
    BY <1>10
  <2>3. Cardinality(1..(m - 1)) = m - 1
    BY <1>1, FS_Interval
  <2>4. m - 1 \in Nat /\ \A k \in 1..L : k \in Nat
    BY <1>1
  <2>5. \A k \in taken : k \in 1..(m - 1)
    BY <2>1, <2>2, <2>4
  <2> QED BY <1>13, <2>3, <2>5
<1>15. CASE P(L) <= MediaLimit
  <2>1. n = 0
    BY <1>8, <1>15
  <2>2. TotalSize(SubSeq(rows, n + 1, L)) <= MediaLimit
    <3>1. n + 1 = 1
      BY <2>1
    <3>2. TotalSize(SubSeq(rows, 1, L)) <= MediaLimit
      BY <1>7, <1>15 DEF L
    <3> QED BY <3>1, <3>2
  <2>3. n \in 0..(L - 1)
    BY <1>1, <2>1
  <2> QED BY <2>2, <2>3 DEF L
<1>16. CASE ~(P(L) <= MediaLimit)
  <2>1. n = m - 1 /\ n \in 0..(L - 1)
    BY <1>1, <1>8, <1>13, <1>14, <1>16
  <2>2. ASSUME n # EvictRows PROVE TotalSize(SubSeq(rows, n + 1, L)) <= MediaLimit
    <3>1. TotalSize(SubSeq(rows, n + 1, L)) = P(L) - P(n)
      BY <1>1, <1>3, <2>1 DEF P, L
    <3>2. n = 0 \/ n \in taken
      BY <1>1, <1>13, <2>1
    <3>3. m <= EvictRows
      BY <1>1, <1>10, <2>1, <2>2, <3>2, MediaAssumption
    <3>4. ~(5 * P(m - 1) < toFree)
      BY <1>10, <1>13, <3>3
    <3>5. P(n) \in Int /\ P(L) \in Int
      BY <1>1, <1>4, <2>1
    <3> QED BY <2>1, <3>1, <3>4, <3>5, MediaAssumption
  <2> QED BY <2>1, <2>2 DEF L
<1> QED BY <1>15, <1>16

(* store() leaves what was stored, and within the limit what it could.      *)
LEMMA McStores ==
  ASSUME mcRows \in Seq(Cacheable), Once(mcRows), NEW f \in Cacheable, StoreFile(f)
  PROVE  /\ mcRows' \in Seq(Cacheable) /\ Once(mcRows')
         /\ mcDisk \subseteq InSeq(mcRows) => mcDisk' \subseteq InSeq(mcRows')
         /\ StoreWithin'
<1>1. PICK rest : rest = RemoveFile(mcRows, f)
  OBVIOUS
<1>2. rest \in Seq(Cacheable) /\ Once(rest) /\ InSeq(rest) = InSeq(mcRows) \ {f}
  <2>1. InSeq(mcRows) \cap (InSeq(mcRows) \ {f}) = InSeq(mcRows) \ {f}
    OBVIOUS
  <2> QED BY <1>1, <2>1, OnlyFacts DEF RemoveFile
<1>3. PICK rows : rows = Append(rest, f)
  OBVIOUS
<1>4. rows \in Seq(Cacheable) /\ Once(rows) /\ InSeq(rows) = InSeq(mcRows) \cup {f}
  <2>1. f \notin InSeq(rest)
    BY <1>2
  <2>2. /\ rows \in Seq(Cacheable) /\ InSeq(rows) = InSeq(rest) \cup {f} /\ Once(rows)
    BY <1>2, <1>3, <2>1, AppendFacts
  <2> QED BY <1>2, <2>2
<1>5. rows # <<>> /\ Len(rows) \in Nat \ {0} /\ rows[Len(rows)] = f
  <2>1. Len(rest) \in Nat
    BY <1>2, LenProperties
  <2>2. Len(rows) = Len(rest) + 1 /\ rows[Len(rest) + 1] = f
    BY <1>2, <1>3, <2>1
  <2> QED BY <1>4, <2>1, <2>2, EmptySeq
<1>6. PICK n : n = Evictable(rows)
  OBVIOUS
<1>7. /\ n \in 0..(Len(rows) - 1)
      /\ TotalSize(SubSeq(rows, n + 1, Len(rows))) <= MediaLimit \/ n = EvictRows
  BY <1>4, <1>5, <1>6, EvictFacts
<1>8. PICK gone : gone = SubSeq(rows, 1, n)
  OBVIOUS
<1>9. PICK left : left = SubSeq(rows, n + 1, Len(rows))
  OBVIOUS
<1>10. /\ left \in Seq(Cacheable) /\ Once(left)
       /\ InSeq(rows) = InSeq(gone) \cup InSeq(left) /\ InSeq(gone) \cap InSeq(left) = {}
  <2>1. n \in 0..Len(rows)
    BY <1>5, <1>7
  <2> QED BY <1>4, <1>8, <1>9, <2>1, CutFacts
<1>11. f \in InSeq(left)
  <2>1. Len(left) = Len(rows) - n /\ \A i \in 1..Len(rows) - n : left[i] = rows[n + i]
    <3>1. \A i \in n + 1..Len(rows) : rows[i] \in Cacheable
      BY <1>4, <1>5, <1>7, ElementOfSeq
    <3>2. /\ Len(left) = IF n + 1 <= Len(rows) THEN Len(rows) - (n + 1) + 1 ELSE 0
          /\ \A i \in 1..Len(rows) - (n + 1) + 1 : left[i] = rows[(n + 1) + i - 1]
      BY <1>5, <1>7, <1>9, <3>1, SubSeqProperties
    <3> QED BY <1>5, <1>7, <3>2
  <2>2. Len(rows) - n \in 1..Len(left) /\ left[Len(rows) - n] = rows[n + (Len(rows) - n)] /\ n + (Len(rows) - n) = Len(rows)
    BY <1>5, <1>7, <2>1
  <2> QED BY <1>5, <2>2 DEF InSeq
<1>12. mcRows' = left /\ mcDisk' = (mcDisk \cup {f}) \ InSeq(gone) /\ mcStored' = <<f, n>>
  BY <1>1, <1>3, <1>6, <1>8, <1>9 DEF StoreFile
<1>13. mcDisk \subseteq InSeq(mcRows) => mcDisk' \subseteq InSeq(mcRows')
  BY <1>4, <1>10, <1>12
<1>14. StoreWithin'
  <2>1. f \in InSeq(mcRows') /\ f \in mcDisk'
    BY <1>10, <1>11, <1>12
  <2>2. TotalSize(mcRows') <= MediaLimit \/ n = EvictRows
    BY <1>7, <1>9, <1>12
  <2>3. mcStored'[1] = f /\ mcStored'[2] = n
    BY <1>12
  <2> QED BY <2>1, <2>2, <2>3 DEF StoreWithin, IsHit
<1> QED BY <1>10, <1>12, <1>13, <1>14

(* lookup() changes the order of the rows, or gives one up whose file is     *)
(* gone.                                                                   *)
LEMMA McLooksUp ==
  ASSUME mcRows \in Seq(Cacheable), Once(mcRows), NEW f \in Cacheable, Accessed(f)
  PROVE  /\ mcRows' \in Seq(Cacheable) /\ Once(mcRows')
         /\ mcDisk \subseteq InSeq(mcRows) => mcDisk \subseteq InSeq(mcRows')
<1>1. PICK rest : rest = RemoveFile(mcRows, f)
  OBVIOUS
<1>2. rest \in Seq(Cacheable) /\ Once(rest) /\ InSeq(rest) = InSeq(mcRows) \ {f}
  <2>1. InSeq(mcRows) \cap (InSeq(mcRows) \ {f}) = InSeq(mcRows) \ {f}
    OBVIOUS
  <2> QED BY <1>1, <2>1, OnlyFacts DEF RemoveFile
<1>3. CASE ~IsHit(f)
  <2>1. mcRows' = rest
    BY <1>1, <1>3 DEF Accessed
  <2> QED BY <1>2, <1>3, <2>1 DEF IsHit
<1>4. CASE IsHit(f)
  <2>0. PICK i \in 1..Len(mcRows) : \E p \in i..(Len(rest) + 1) : mcRows' = InsertAt(rest, p, f)
    BY <1>1, <1>4 DEF Accessed
  <2>1. PICK p \in i..(Len(rest) + 1) : mcRows' = InsertAt(rest, p, f)
    BY <2>0
  <2>2. Len(mcRows) \in Nat /\ Len(rest) \in Nat /\ p \in 1..(Len(rest) + 1) /\ p - 1 \in 0..Len(rest)
    <3>1. Len(mcRows) \in Nat /\ Len(rest) \in Nat
      BY <1>2, LenProperties
    <3> QED BY <2>1, <3>1
  <2>3. PICK a : a = SubSeq(rest, 1, p - 1)
    OBVIOUS
  <2>4. PICK b : b = SubSeq(rest, p, Len(rest))
    OBVIOUS
  <2>5. b = SubSeq(rest, (p - 1) + 1, Len(rest))
    BY <2>2, <2>4
  <2>6. /\ a \in Seq(Cacheable) /\ Once(a) /\ b \in Seq(Cacheable) /\ Once(b)
        /\ InSeq(rest) = InSeq(a) \cup InSeq(b) /\ InSeq(a) \cap InSeq(b) = {}
    BY <1>2, <2>2, <2>3, <2>5, CutFacts
  <2>7. PICK c : c = <<f>>
    OBVIOUS
  <2>8. c \in Seq(Cacheable) /\ InSeq(c) = {f} /\ Once(c)
    BY <2>7, SingleFacts
  <2>9. PICK d : d = a \o c
    OBVIOUS
  <2>10. d \in Seq(Cacheable) /\ InSeq(d) = InSeq(a) \cup {f} /\ Once(d)
    <3>1. InSeq(a) \cap InSeq(c) = {}
      BY <1>2, <2>6, <2>8
    <3> QED BY <2>6, <2>8, <2>9, <3>1, ConcatFacts
  <2>11. mcRows' = d \o b
    BY <2>1, <2>3, <2>4, <2>7, <2>9 DEF InsertAt
  <2>12. InSeq(d) \cap InSeq(b) = {}
    BY <1>2, <2>6, <2>10
  <2>13. d \o b \in Seq(Cacheable) /\ InSeq(d \o b) = InSeq(d) \cup InSeq(b) /\ Once(d \o b)
    BY <2>6, <2>10, <2>12, ConcatFacts
  <2> QED BY <1>2, <2>6, <2>10, <2>11, <2>13
<1> QED BY <1>3, <1>4

(* A request gets its answer, or goes to its next place.                    *)
LEMMA McAnswers ==
  ASSUME McAsks, NEW r \in MediaAsks, Working(r), Answered(r)
  PROVE  McAsks'
<1>1. /\ mcAsk' = [mcAsk EXCEPT ![r] = Done] /\ mcCut' = mcCut \ {r}
      /\ mcFlight' = IF mcFlight = r THEN 0 ELSE mcFlight
  BY DEF Answered
<1>2. mcAsk' \in [MediaAsks -> [file : Nat, at : AskPlaces]]
  BY <1>1 DEF McAsks, Done, AskPlaces
<1>3. \A s \in MediaAsks : IF s = r THEN mcAsk'[s].at = "done" ELSE mcAsk'[s] = mcAsk[s]
  BY <1>1 DEF McAsks, Done
<1> QED BY <1>1, <1>2, <1>3 DEF McAsks, Working

LEMMA McGoes ==
  ASSUME McAsks, NEW r \in MediaAsks, Working(r), NEW at \in {"second", "queued", "main"}, AskGoes(r, at),
         at = "main" => \A s \in MediaAsks : mcAsk[s].at # "main"
  PROVE  McAsks'
<1>1. mcAsk' = [mcAsk EXCEPT ![r].at = at] /\ UNCHANGED <<mcCut, mcFlight>>
  BY DEF AskGoes
<1>2. mcAsk' \in [MediaAsks -> [file : Nat, at : AskPlaces]]
  BY <1>1 DEF McAsks, AskPlaces
<1>3. \A s \in MediaAsks : /\ mcAsk'[s].file = mcAsk[s].file
                          /\ mcAsk'[s].at = IF s = r THEN at ELSE mcAsk[s].at
  BY <1>1 DEF McAsks
<1>4. \A s \in MediaAsks : Working(s)' <=> Working(s)
  BY <1>3 DEF Working
<1> QED BY <1>1, <1>2, <1>3, <1>4 DEF McAsks

LEMMA McAskStep ==
  ASSUME McInv, NEW r \in MediaAsks, AskPreview(r)
  PROVE  McInv'
<1>1. /\ mcAsk[r].at = "none" /\ mcStored' = <<>> /\ UNCHANGED <<mcDisk, mcDied>>
  BY DEF AskPreview
<1>2. PICK f \in MediaFiles :
       /\ mcCut' = mcCut \cup ({mcFlight} \ {0})
       /\ IF SizeOf(f) > FileLimit \/ IsHit(f)
          THEN mcAsk' = [mcAsk EXCEPT ![r] = Done] /\ mcFlight' = 0
          ELSE mcAsk' = [mcAsk EXCEPT ![r] = [file |-> f, at |-> "login"]] /\ mcFlight' = r
       /\ IF SizeOf(f) > FileLimit THEN UNCHANGED mcRows ELSE Accessed(f)
  BY DEF AskPreview
<1>3. f \in Nat /\ SizeOf(f) \in Nat /\ (~(SizeOf(f) > FileLimit) => f \in Cacheable) /\ r # 0 /\ r \in Nat
  BY MediaAssumption DEF SizeOf, Cacheable
<1>4. mcRows' \in Seq(Cacheable) /\ Once(mcRows') /\ (mcDisk \subseteq InSeq(mcRows) => mcDisk \subseteq InSeq(mcRows'))
  BY <1>2, <1>3, McLooksUp DEF McInv
<1>5. McAsks'
  <2>1. CASE SizeOf(f) > FileLimit \/ IsHit(f)
    <3>1. mcAsk' = [mcAsk EXCEPT ![r] = Done] /\ mcFlight' = 0
      BY <1>2, <2>1
    <3>2. mcAsk' \in [MediaAsks -> [file : Nat, at : AskPlaces]]
      BY <3>1 DEF McInv, McAsks, Done, AskPlaces
    <3>3. \A s \in MediaAsks : IF s = r THEN mcAsk'[s].at = "done" ELSE mcAsk'[s] = mcAsk[s]
      BY <3>1 DEF McInv, McAsks, Done
    <3> QED BY <1>1, <1>2, <3>1, <3>2, <3>3 DEF McInv, McAsks, Working
  <2>2. CASE ~(SizeOf(f) > FileLimit \/ IsHit(f))
    <3>1. mcAsk' = [mcAsk EXCEPT ![r] = [file |-> f, at |-> "login"]] /\ mcFlight' = r
      BY <1>2, <2>2
    <3>2. mcAsk' \in [MediaAsks -> [file : Nat, at : AskPlaces]]
      BY <1>3, <3>1 DEF McInv, McAsks, AskPlaces
    <3>3. \A s \in MediaAsks : IF s = r THEN mcAsk'[s].at = "login" /\ mcAsk'[s].file = f ELSE mcAsk'[s] = mcAsk[s]
      BY <3>1 DEF McInv, McAsks
    <3>4. ~Working(r) /\ \A s \in MediaAsks : Working(s)' <=> (s = r \/ Working(s))
      BY <1>1, <3>3 DEF Working
    <3>5. r \notin mcCut /\ mcFlight # r
      BY <1>3, <3>4 DEF McInv, McAsks
    <3>6. \A s \in MediaAsks : Working(s)' => mcAsk'[s].file \in Cacheable
      BY <1>3, <2>2, <3>3, <3>4 DEF McInv, McAsks
    <3>7. mcCut' = mcCut \cup ({mcFlight} \ {0})
      BY <1>2
    <3>8. mcCut' \subseteq {s \in MediaAsks : Working(s)'}
      BY <3>4, <3>7 DEF McInv, McAsks
    <3>9. mcFlight' = r /\ mcFlight' \in MediaAsks /\ mcFlight' \notin mcCut' /\ Working(r)'
      BY <1>3, <3>1, <3>4, <3>5, <3>7
    <3>10. \A s \in MediaAsks : Working(s)' /\ s # mcFlight' => s \in mcCut'
      <4> SUFFICES ASSUME NEW s \in MediaAsks, Working(s)', s # mcFlight' PROVE s \in mcCut'
        OBVIOUS
      <4>1. s # 0 /\ s # r /\ Working(s)
        BY <3>4, <3>9, MediaAssumption
      <4> QED BY <3>7, <4>1 DEF McInv, McAsks
    <3>11. \A s, t \in MediaAsks : mcAsk'[s].at = "main" /\ mcAsk'[t].at = "main" => s = t
      BY <3>3 DEF McInv, McAsks
    <3> QED BY <3>2, <3>6, <3>8, <3>9, <3>10, <3>11 DEF McAsks, Working
  <2> QED BY <2>1, <2>2
<1> QED BY <1>1, <1>4, <1>5 DEF McInv, NoStrays, StoreWithin

LEMMA McDies ==
  ASSUME McInv, AppDied PROVE McInv'
<1>1. /\ mcDied' = TRUE /\ mcStored' = <<>> /\ mcAsk' = [r \in MediaAsks |-> NoAsk] /\ mcCut' = {} /\ mcFlight' = 0
  BY DEF AppDied
<1>2. mcRows' = mcRows \/ \E f \in Cacheable : mcRows' = Append(RemoveFile(mcRows, f), f)
  BY DEF AppDied
<1>3. \A f \in Cacheable : LET rows == Append(RemoveFile(mcRows, f), f) IN rows \in Seq(Cacheable) /\ Once(rows)
  <2> TAKE f \in Cacheable
  <2>1. PICK rest : rest = RemoveFile(mcRows, f)
    OBVIOUS
  <2>2. rest \in Seq(Cacheable) /\ Once(rest) /\ f \notin InSeq(rest)
    <3>1. f \notin InSeq(mcRows) \cap (InSeq(mcRows) \ {f})
      OBVIOUS
    <3> QED BY <2>1, <3>1, OnlyFacts DEF RemoveFile, McInv
  <2> QED BY <2>1, <2>2, AppendFacts
<1>4. McAsks'
  BY <1>1 DEF McAsks, NoAsk, AskPlaces, Working
<1> QED BY <1>1, <1>2, <1>3, <1>4 DEF McInv, NoStrays, StoreWithin

LEMMA McRequestStep ==
  ASSUME McInv, NEW r \in MediaAsks, SecondClient(r) \/ NoSecondClient(r) \/ MainsTurn(r) \/ PreviewFailed(r)
  PROVE  McInv'
<1>1. Working(r) /\ mcStored' = <<>> /\ UNCHANGED <<mcRows, mcDisk, mcDied>>
  BY DEF SecondClient, NoSecondClient, MainsTurn, PreviewFailed, CacheKept, Working
<1>2. CASE Answered(r)
  BY <1>1, <1>2, McAnswers DEF McInv, NoStrays, StoreWithin
<1>3. ASSUME NEW at \in {"second", "queued", "main"}, AskGoes(r, at),
             at = "main" => \A s \in MediaAsks : mcAsk[s].at # "main"
      PROVE  McInv'
  BY <1>1, <1>3, McGoes DEF McInv, NoStrays, StoreWithin
<1> QED BY <1>2, <1>3 DEF SecondClient, NoSecondClient, MainsTurn, PreviewFailed

LEMMA McComes ==
  ASSUME McInv, NEW r \in MediaAsks, PreviewCame(r)
  PROVE  McInv'
<1>1. Working(r) /\ StoreFile(mcAsk[r].file) /\ Answered(r) /\ UNCHANGED mcDied
  BY DEF PreviewCame, Working
<1>2. mcAsk[r].file \in Cacheable
  BY <1>1 DEF McInv, McAsks
<1>3. McAsks'
  BY <1>1, McAnswers DEF McInv
<1> QED BY <1>1, <1>2, <1>3, McStores DEF McInv, NoStrays

LEMMA McThumbnailStep ==
  ASSUME McInv, ThumbnailRead \/ ThumbnailStored \/ ThumbnailsCleared \/ FileLost
  PROVE  McInv'
<1>1. UNCHANGED <<mcAsk, mcCut, mcFlight, mcDied>>
  BY DEF ThumbnailRead, ThumbnailStored, ThumbnailsCleared, FileLost
<1>2. McAsks'
  BY <1>1 DEF McInv, McAsks, Working
<1>3. CASE ThumbnailRead
  BY <1>1, <1>2, <1>3, McLooksUp DEF McInv, ThumbnailRead, NoStrays, StoreWithin
<1>4. CASE ThumbnailStored
  <2>1. PICK f \in Cacheable : StoreFile(f)
    BY <1>4 DEF ThumbnailStored
  <2> QED BY <1>1, <1>2, <2>1, McStores DEF McInv, NoStrays
<1>5. CASE ThumbnailsCleared
  <2>1. mcRows' = <<>> /\ mcRows' \in Seq(Cacheable) /\ Once(mcRows') /\ mcDisk' = {} /\ mcStored' = <<>>
    BY <1>5, EmptySeq DEF ThumbnailsCleared, Once
  <2> QED BY <1>2, <2>1 DEF McInv, NoStrays, StoreWithin
<1>6. CASE FileLost
  BY <1>1, <1>2, <1>6 DEF McInv, FileLost, NoStrays, StoreWithin
<1> QED BY <1>3, <1>4, <1>5, <1>6

-----------------------------------------------------------------------------
(* The inductive invariant of a cache and of the requests that fill it.     *)
THEOREM MediaInvariance == MediaSpec => []McInv
<1>1. ASSUME McInv, [MediaNext]_mediaVars PROVE McInv'
  <2>1. CASE UNCHANGED mediaVars
    <3>1. McAsks'
      BY <1>1, <2>1 DEF McInv, McAsks, Working, mediaVars
    <3> QED BY <1>1, <2>1, <3>1 DEF McInv, NoStrays, StoreWithin, IsHit, mediaVars
  <2>2. CASE ThumbnailRead \/ ThumbnailStored \/ ThumbnailsCleared \/ FileLost \/ AppDied
    BY <1>1, <2>2, McThumbnailStep, McDies
  <2>3. CASE \E r \in MediaAsks : \/ AskPreview(r) \/ SecondClient(r) \/ NoSecondClient(r) \/ MainsTurn(r)
                                  \/ PreviewCame(r) \/ PreviewFailed(r)
    BY <1>1, <2>3, McAskStep, McRequestStep, McComes
  <2> QED BY <1>1, <2>1, <2>2, <2>3 DEF MediaNext
<1> QED BY McStarts, <1>1, PTL DEF MediaSpec

LEMMA McInvGives == McInv => MediaSafe
<1> SUFFICES ASSUME McInv PROVE MediaSafe
  OBVIOUS
<1>1. ASSUME NEW S, \A r, s \in S : r = s PROVE Cardinality(S) <= 1
  <2>1. CASE S = {}
    BY <2>1, FS_EmptySet
  <2>2. ASSUME NEW r \in S PROVE Cardinality(S) <= 1
    <3>1. S = {r}
      BY <1>1, <2>2
    <3> QED BY <3>1, FS_Singleton
  <2> QED BY <2>1, <2>2
<1>2. Cardinality({r \in MediaAsks : mcAsk[r].at = "main"}) <= 1
  BY <1>1 DEF McInv, McAsks
<1>3. \A r, s \in {r \in MediaAsks : mcAsk[r].at = "second"} \ mcCut : r = s
  BY DEF McInv, McAsks, Working
<1>4. Cardinality({r \in MediaAsks : mcAsk[r].at = "second"} \ mcCut) <= 1
  BY <1>1, <1>3
<1> QED BY <1>2, <1>4 DEF McInv, McAsks, MediaSafe, OnlyNewest

(* Whatever is stored, read, lost or cleared, and in whatever order the      *)
(* requests of the light box overtake each other: a store ends within the    *)
(* limit and keeps what it stored, no file is left that no eviction finds,   *)
(* and only the newest request goes on.                                     *)
THEOREM CachesAreKept == MediaSpec => []MediaSafe
BY MediaInvariance, McInvGives, PTL

-----------------------------------------------------------------------------
(* The database of servers and recent paths (ServerDatabase).              *)

AnyHost == [place : Nat, upper : BOOLEAN]
LoginUsers == {"", "me", "anonymous"}
AnyPath == [host : AnyHost, user : LoginUsers, path : Nat]
AnyServer == [there : BOOLEAN, host : AnyHost, user : LoginUsers, old : BOOLEAN]
DbPlaces == {"off", "tables", "index", "itemCount", "maxTransfers", "cipher", "remotePreviews", "recentPaths", "up"}

DbTypes ==
  /\ sdAt \in DbPlaces
  /\ sdRows \in Seq(AnyServer)
  /\ sdOld \subseteq [host : AnyHost, path : Nat] /\ IsFiniteSet(sdOld)
  /\ sdRecent \in Seq(AnyPath) /\ Once(sdRecent)

(* What the statements before the next one have done.                      *)
DbMade ==
  /\ sdAt \notin {"off", "tables"} => FirstTables \subseteq sdTables
  /\ sdAt \in {"maxTransfers", "cipher", "remotePreviews", "recentPaths", "up"} => "itemCount" \in sdColumns \cup sdFailed
  /\ sdAt \in {"cipher", "remotePreviews", "recentPaths", "up"} => "maxTransfers" \in sdColumns \cup sdFailed
  /\ sdAt \in {"remotePreviews", "recentPaths", "up"} => "cipher" \in sdColumns \cup sdFailed
  /\ sdAt \in {"recentPaths", "up"} => "remotePreviews" \in sdTables
  /\ sdAt = "up" => "recentPaths" \in sdTables

(* Until the new table is there, nothing was done that would change what it  *)
(* has to take over.                                                       *)
DbPaths ==
  /\ "recentPaths" \in sdTables => sdOwed \subseteq InSeq(sdRecent)
  /\ "recentPaths" \notin sdTables => sdOwed \subseteq TakenOver /\ sdGone = {}
  /\ sdLast # <<>> => sdAt = "up"

DbInv == DbTypes /\ DbMade /\ DbPaths /\ GoneForGood /\ LastFirst /\ NoNewTwins

LEMMA DbInvGives == DbInv => DatabaseSafe
<1> SUFFICES ASSUME DbInv PROVE DatabaseSafe
  OBVIOUS
<1>1. SchemaReady
  BY DEF DbInv, DbMade, SchemaReady, AllTables, AllColumns
<1>2. PathsTakenOver
  BY DEF DbInv, DbMade, DbPaths, PathsTakenOver
<1> QED BY <1>1, <1>2 DEF DbInv, DatabaseSafe

LEMMA TheScript == FirstTables = {"servers", "oldPaths", "previews", "folderPreviews"} /\ "recentPaths" \notin FirstTables
<1>1. Len(Script) = 4 /\ Script[1] = "servers" /\ Script[2] = "oldPaths" /\ Script[3] = "previews" /\ Script[4] = "folderPreviews"
  BY DEF Script
<1>2. 1..4 = {1, 2, 3, 4}
  OBVIOUS
<1> QED BY <1>1, <1>2 DEF FirstTables, InSeq

LEMMA NextSteps ==
  /\ sdAt = "tables" => NextStep = "index"
  /\ sdAt = "index" => NextStep = "itemCount"
  /\ sdAt = "itemCount" => NextStep = "maxTransfers"
  /\ sdAt = "maxTransfers" => NextStep = "cipher"
  /\ sdAt = "cipher" => NextStep = "remotePreviews"
  /\ sdAt = "remotePreviews" => NextStep = "recentPaths"
  /\ sdAt = "recentPaths" => NextStep = "up"
<1>1. /\ DOMAIN Order = 1..8
      /\ Order[1] = "tables" /\ Order[2] = "index" /\ Order[3] = "itemCount" /\ Order[4] = "maxTransfers"
      /\ Order[5] = "cipher" /\ Order[6] = "remotePreviews" /\ Order[7] = "recentPaths" /\ Order[8] = "up"
  BY DEF Order
<1>2. ASSUME NEW k \in 1..7, sdAt = Order[k] PROVE NextStep = Order[k + 1]
  <2>1. \A i \in DOMAIN Order : Order[i] = sdAt <=> i = k
    BY <1>1, <1>2
  <2>2. (CHOOSE i \in DOMAIN Order : Order[i] = sdAt) = k
    BY <1>1, <2>1
  <2> QED BY <2>2 DEF NextStep
<1> QED BY <1>1, <1>2

LEMMA PairsFinite ==
  ASSUME NEW H, IsFiniteSet(H), NEW P, IsFiniteSet(P)
  PROVE  IsFiniteSet([host : H, path : P])
<1> DEFINE D == H \X P
           R == [host : H, path : P]
           f == [t \in D |-> [host |-> t[1], path |-> t[2]]]
<1>1. IsFiniteSet(D)
  BY FS_Product
<1>2. f \in [D -> R] /\ \A t \in D : f[t] = [host |-> t[1], path |-> t[2]]
  OBVIOUS
<1>3. ASSUME NEW r \in R PROVE \E t \in D : f[t] = r
  <2>1. <<r.host, r.path>> \in D /\ f[<<r.host, r.path>>] = [host |-> r.host, path |-> r.path]
    BY <1>2
  <2>2. r = [host |-> r.host, path |-> r.path]
    OBVIOUS
  <2> QED BY <2>1, <2>2
<1> HIDE DEF f, D, R
<1>4. f \in Surjection(D, R)
  BY <1>2, <1>3 DEF Surjection
<1>5. IsFiniteSet(R)
  BY <1>1, <1>4, FS_Surjection
<1> QED BY <1>5 DEF R

LEMMA RowsFinite ==
  ASSUME NEW H, IsFiniteSet(H), NEW U, IsFiniteSet(U), NEW P, IsFiniteSet(P)
  PROVE  IsFiniteSet([host : H, user : U, path : P])
<1> DEFINE D == H \X (U \X P)
           R == [host : H, user : U, path : P]
           f == [t \in D |-> [host |-> t[1], user |-> t[2][1], path |-> t[2][2]]]
<1>1. IsFiniteSet(D)
  BY FS_Product
<1>2. f \in [D -> R] /\ \A t \in D : f[t] = [host |-> t[1], user |-> t[2][1], path |-> t[2][2]]
  OBVIOUS
<1>3. ASSUME NEW r \in R PROVE \E t \in D : f[t] = r
  <2>1. r.host \in H /\ r.user \in U /\ r.path \in P /\ r = [host |-> r.host, user |-> r.user, path |-> r.path]
    OBVIOUS
  <2>2. PICK t : t = <<r.host, <<r.user, r.path>>>>
    OBVIOUS
  <2>3. t \in D /\ t[1] = r.host /\ t[2][1] = r.user /\ t[2][2] = r.path
    BY <2>1, <2>2
  <2>4. f[t] = r
    BY <1>2, <2>1, <2>3
  <2> QED BY <2>3, <2>4
<1> HIDE DEF f, D, R
<1>4. f \in Surjection(D, R)
  BY <1>2, <1>3 DEF Surjection
<1>5. IsFiniteSet(R)
  BY <1>1, <1>4, FS_Surjection
<1> QED BY <1>5 DEF R

(* What was there before is finite, so that it can be copied row by row.    *)
LEMMA TakenOverFacts ==
  ASSUME DbTypes
  PROVE  IsFiniteSet(TakenOver) /\ TakenOver \subseteq AnyPath
<1> DEFINE H == {o.host : o \in sdOld}
           P == {o.path : o \in sdOld}
           R == [host : H, user : LoginUsers, path : P]
<1>1. IsFiniteSet(H)
  <2> DEFINE f == [o \in sdOld |-> o.host]
  <2>1. f \in Surjection(sdOld, H)
    BY DEF Surjection
  <2> HIDE DEF f, H
  <2> QED BY <2>1, FS_Surjection DEF DbTypes
<1>2. IsFiniteSet(P)
  <2> DEFINE f == [o \in sdOld |-> o.path]
  <2>1. f \in Surjection(sdOld, P)
    BY DEF Surjection
  <2> HIDE DEF f, P
  <2> QED BY <2>1, FS_Surjection DEF DbTypes
<1>3. IsFiniteSet(LoginUsers)
  <2>1. IsFiniteSet({""}) /\ IsFiniteSet({"me"}) /\ IsFiniteSet({"anonymous"})
    BY FS_Singleton
  <2>2. IsFiniteSet({""} \cup {"me"} \cup {"anonymous"})
    BY <2>1, FS_Union
  <2>3. LoginUsers = {""} \cup {"me"} \cup {"anonymous"}
    BY DEF LoginUsers
  <2> QED BY <2>2, <2>3
<1>4. IsFiniteSet(R)
  <2> HIDE DEF H, P
  <2> QED BY <1>1, <1>2, <1>3, RowsFinite
<1>5. ASSUME NEW o \in sdOld, NEW id \in At(o.host)
      PROVE  [host |-> o.host, user |-> KeyUser(sdRows[id].user), path |-> o.path] \in R \cap AnyPath
  <2>1. sdRows[id] \in AnyServer
    BY <1>5, ElementOfSeq, LenProperties DEF At, RowIds, DbTypes
  <2>2. KeyUser(sdRows[id].user) \in LoginUsers
    BY <2>1 DEF AnyServer, KeyUser, LoginUsers
  <2>3. o.host \in AnyHost /\ o.path \in Nat
    BY DEF DbTypes
  <2> QED BY <2>2, <2>3 DEF AnyPath
<1>6. TakenOver \subseteq R \cap AnyPath
  <2> HIDE DEF R
  <2> QED BY <1>5 DEF TakenOver
<1> QED BY <1>4, <1>6, FS_Subset

LEMMA DbStarts == DatabaseInit => DbInv
<1> SUFFICES ASSUME DatabaseInit PROVE DbInv
  OBVIOUS
<1> DEFINE a == [host |-> Small(1), user |-> "me", path |-> 1]
<1>1. /\ Small(1) \in AnyHost /\ Large(1) \in AnyHost /\ a \in AnyPath
      /\ RowOfFile(Large(1), "") \in AnyServer /\ RowOfFile(Small(1), "me") \in AnyServer
  BY DEF Small, Large, AnyHost, AnyPath, AnyServer, RowOfFile, LoginUsers
<1>2. sdAt = "off" /\ sdGone = {} /\ sdFailed = {} /\ sdLast = <<>>
  BY DEF DatabaseInit
<1>3. sdRows \in Seq(AnyServer) /\ \A i \in DOMAIN sdRows : sdRows[i].old
  <2>1. <<>> \in Seq(AnyServer) /\ DOMAIN <<>> = {}
    BY EmptySeq
  <2>2. ASSUME NEW r \in RowsOfFile PROVE r \in Seq(AnyServer) /\ \A i \in DOMAIN r : r[i].old
    <3> DEFINE x == RowOfFile(Large(1), "")
               y == RowOfFile(Small(1), "me")
    <3>1. x \in AnyServer /\ y \in AnyServer /\ x.old /\ y.old
      BY <1>1 DEF RowOfFile
    <3>2. r = <<x>> \/ r = <<y, x>>
      BY <2>2 DEF RowsOfFile
    <3> HIDE DEF x, y
    <3>3. CASE r = <<x>>
      BY <3>1, <3>3
    <3>4. CASE r = <<y, x>>
      <4>1. DOMAIN r = {1, 2} /\ r[1] = y /\ r[2] = x
        BY <3>4
      <4> QED BY <3>1, <3>4, <4>1
    <3> QED BY <3>2, <3>3, <3>4
  <2>3. sdRows = <<>> \/ sdRows \in RowsOfFile
    BY DEF DatabaseInit
  <2> QED BY <2>1, <2>2, <2>3
<1>4. sdOld \subseteq [host : AnyHost, path : Nat] /\ IsFiniteSet(sdOld)
  <2>1. IsFiniteSet({}) /\ IsFiniteSet({1}) /\ IsFiniteSet({Large(1)}) /\ IsFiniteSet({Small(1)}) /\ IsFiniteSet(DbFolders)
    BY FS_EmptySet, FS_Singleton, DatabaseAssumption
  <2>2. IsFiniteSet({Small(1)} \cup {Large(1)}) /\ {Small(1)} \cup {Large(1)} = {Small(1), Large(1)}
    BY <2>1, FS_Union
  <2>3. IsFiniteSet([host : {Small(1), Large(1)}, path : {1}]) /\ IsFiniteSet([host : {Large(1)}, path : DbFolders])
    BY <2>1, <2>2, PairsFinite
  <2>4. sdOld = {} \/ sdOld \in OldPaths
    BY DEF DatabaseInit
  <2>5. [host : {Small(1), Large(1)}, path : {1}] \subseteq [host : AnyHost, path : Nat]
    <3>1. {Small(1), Large(1)} \subseteq AnyHost
      BY <1>1
    <3> HIDE DEF AnyHost
    <3> QED BY <3>1
  <2>6. [host : {Large(1)}, path : DbFolders] \subseteq [host : AnyHost, path : Nat]
    BY <1>1, DatabaseAssumption
  <2> QED BY <2>1, <2>3, <2>4, <2>5, <2>6 DEF OldPaths
<1>5. sdRecent \in Seq(AnyPath) /\ Once(sdRecent)
  <2>1. <<>> \in Seq(AnyPath) /\ Once(<<>>)
    BY EmptySeq DEF Once
  <2>2. <<a>> \in Seq(AnyPath) /\ Once(<<a>>)
    <3> HIDE DEF a
    <3> QED BY <1>1, SingleFacts
  <2> QED BY <2>1, <2>2 DEF DatabaseInit
<1>6. DbTypes
  BY <1>2, <1>3, <1>4, <1>5 DEF DbTypes, DbPlaces
<1>7. DbMade
  BY <1>2 DEF DbMade
<1>8. sdOwed = {} \/ ("recentPaths" \notin sdTables /\ sdOwed = TakenOver)
  BY TheScript DEF DatabaseInit
<1>9. DbPaths
  BY <1>2, <1>8 DEF DbPaths
<1>10. LastFirst
  <2>1. \A i, j \in DOMAIN sdRecent : sdRecent[i] = sdRecent[j] => i = j
    BY <1>5, LenProperties DEF Once
  <2> QED BY <1>2, <2>1 DEF LastFirst
<1>11. NoNewTwins
  BY <1>3 DEF NoNewTwins, RowIds
<1>12. GoneForGood
  BY <1>2 DEF GoneForGood
<1> QED BY <1>6, <1>7, <1>9, <1>10, <1>11, <1>12 DEF DbInv

-----------------------------------------------------------------------------
(* Starting and dying: the rows stay.                                      *)
LEMMA DbRowsStay ==
  ASSUME DbInv, UNCHANGED <<sdRows, sdOld, sdRecent, sdOwed, sdGone>>, sdAt' \in DbPlaces,
         sdLast' = <<>> \/ (sdLast' = sdLast /\ sdAt # "up"),
         "recentPaths" \in sdTables <=> "recentPaths" \in sdTables', DbMade'
  PROVE  DbInv'
<1>0. sdLast' = <<>>
  BY DEF DbInv, DbPaths
<1>1. DbTypes'
  BY DEF DbInv, DbTypes
<1>2. TakenOver' = TakenOver
  BY DEF TakenOver, At, RowIds
<1>3. DbPaths'
  BY <1>0, <1>2 DEF DbInv, DbPaths
<1>4. GoneForGood' /\ NoNewTwins'
  BY DEF DbInv, GoneForGood, NoNewTwins, RowIds
<1>5. LastFirst'
  BY <1>0 DEF DbInv, LastFirst
<1> QED BY <1>1, <1>3, <1>4, <1>5 DEF DbInv

LEMMA DbMigrationKeeps ==
  ASSUME DbInv, StartApp \/ CreateTables \/ IndexServers \/ AddColumn \/ CreatePreviews \/ DbDies
  PROVE  DbInv'
<1>0. DbMade /\ sdAt \in DbPlaces
  BY DEF DbInv, DbTypes
<1>1. CASE StartApp
  <2>1. DbMade'
    BY <1>1 DEF StartApp, DbMade
  <2> QED BY <1>1, <2>1, DbRowsStay DEF StartApp, DbPlaces
<1>2. CASE CreateTables
  <2>1. PICK n \in 1..4 :
          /\ sdTables' = sdTables \cup InSeq(SubSeq(Script, 1, n))
          /\ sdAt' = IF n = 4 THEN NextStep ELSE "off"
    <3>1. Len(Script) = 4
      BY DEF Script
    <3> QED BY <1>2, <3>1, Zenon DEF CreateTables
  <2>2. InSeq(SubSeq(Script, 1, n)) \subseteq FirstTables /\ (n = 4 => InSeq(SubSeq(Script, 1, n)) = FirstTables)
    <3>1. Script \in Seq(FirstTables) /\ Len(Script) = 4
      BY TheScript DEF Script
    <3>2. \A i \in 1..n : Script[i] \in FirstTables
      <4>1. \A i \in 1..4 : Script[i] \in FirstTables
        BY <3>1, ElementOfSeq
      <4>2. \A i \in 1..n : i \in 1..4
        OBVIOUS
      <4> QED BY <4>1, <4>2
    <3>3. SubSeq(Script, 1, n) \in Seq(FirstTables)
      BY <3>1, <3>2, SubSeqProperties
    <3>4. n = 4 => SubSeq(Script, 1, n) = Script
      BY <3>1, SubSeqFull
    <3> QED BY <3>3, <3>4, InSeqFacts DEF FirstTables
  <2>3. sdAt = "tables" /\ sdAt' \in {"off", "index"}
    BY <1>2, <2>1, NextSteps DEF CreateTables
  <2>4. DbMade'
    BY <2>1, <2>2, <2>3, NextSteps DEF DbMade
  <2> QED BY <1>2, <2>1, <2>2, <2>3, <2>4, TheScript, DbRowsStay DEF CreateTables, DbStill, DbPlaces
<1>3. CASE IndexServers
  <2>1. sdAt = "index" /\ sdAt' = "itemCount"
    BY <1>3, NextSteps DEF IndexServers
  <2>2. DbMade'
    BY <1>0, <1>3, <2>1 DEF IndexServers, DbMade
  <2> QED BY <1>3, <2>1, <2>2, DbRowsStay DEF IndexServers, DbStill, DbPlaces
<1>4. CASE AddColumn
  <2>1. /\ sdAt \in AllColumns /\ sdAt' = NextStep
        /\ sdAt \in sdColumns' \cup sdFailed' /\ sdColumns \subseteq sdColumns' /\ sdFailed \subseteq sdFailed'
        /\ sdTables' = sdTables
    BY <1>4 DEF AddColumn
  <2>2. \/ sdAt = "itemCount" /\ sdAt' = "maxTransfers"
        \/ sdAt = "maxTransfers" /\ sdAt' = "cipher"
        \/ sdAt = "cipher" /\ sdAt' = "remotePreviews"
    BY <2>1, NextSteps DEF AllColumns
  <2>3. DbMade'
    BY <1>0, <2>1, <2>2 DEF DbMade
  <2> QED BY <1>4, <2>2, <2>3, DbRowsStay DEF AddColumn, DbStill, DbPlaces
<1>5. CASE CreatePreviews
  <2>1. sdAt = "remotePreviews" /\ sdAt' = "recentPaths"
    BY <1>5, NextSteps DEF CreatePreviews
  <2>2. DbMade'
    BY <1>0, <1>5, <2>1 DEF CreatePreviews, DbMade
  <2> QED BY <1>5, <2>1, <2>2, DbRowsStay DEF CreatePreviews, DbStill, DbPlaces
<1>6. CASE DbDies
  <2>1. DbMade'
    BY <1>6 DEF DbDies, DbMade
  <2> QED BY <1>6, <2>1, DbRowsStay DEF DbDies, DbStill, DbPlaces
<1> QED BY <1>1, <1>2, <1>3, <1>4, <1>5, <1>6

LEMMA DbMigrated ==
  ASSUME DbInv, MigrateRecentPaths
  PROVE  DbInv'
<1>1. /\ sdAt = "recentPaths" /\ sdAt' = "up" /\ sdTables' = sdTables \cup {"recentPaths"}
      /\ sdLast = <<>> /\ sdLast' = <<>>
      /\ UNCHANGED <<sdColumns, sdRows, sdOld, sdFailed, sdOwed, sdGone>>
  BY NextSteps DEF MigrateRecentPaths, DbInv, DbPaths
<1>2. DbMade'
  BY <1>1 DEF DbInv, DbMade
<1>3. /\ sdRecent' \in Seq(AnyPath) /\ Once(sdRecent')
      /\ sdOwed \subseteq InSeq(sdRecent')
      /\ \A r \in InSeq(sdRecent') : [place |-> r.host.place, path |-> r.path] \notin sdGone
  <2>1. CASE "recentPaths" \in sdTables
    BY <2>1 DEF MigrateRecentPaths, MadeBefore, DbInv, DbTypes, DbPaths, GoneForGood
  <2>2. CASE "recentPaths" \notin sdTables
    <3>1. sdRecent' = SetToSeq(TakenOver) /\ sdOwed \subseteq TakenOver /\ sdGone = {}
      BY <2>2 DEF MigrateRecentPaths, MadeBefore, DbInv, DbPaths
    <3>2. IsFiniteSet(TakenOver) /\ TakenOver \subseteq AnyPath
      BY TakenOverFacts DEF DbInv
    <3>3. PICK S : S = TakenOver
      OBVIOUS
    <3>4. SetToSeq(S) \in Seq(S) /\ InSeq(SetToSeq(S)) = S /\ Once(SetToSeq(S))
      BY <3>2, <3>3, SetToSeqFacts
    <3>5. SetToSeq(S) \in Seq(AnyPath)
      BY <3>2, <3>3, <3>4
    <3> QED BY <3>1, <3>3, <3>4, <3>5
  <2> QED BY <2>1, <2>2
<1>4. DbTypes'
  BY <1>1, <1>3 DEF DbInv, DbTypes, DbPlaces
<1>5. DbPaths'
  BY <1>1, <1>3 DEF DbPaths
<1>6. GoneForGood' /\ NoNewTwins'
  BY <1>1, <1>3 DEF GoneForGood, DbInv, NoNewTwins, RowIds
<1>7. LastFirst'
  <2>1. \A i, j \in DOMAIN sdRecent' : sdRecent'[i] = sdRecent'[j] => i = j
    BY <1>3, LenProperties DEF Once
  <2> QED BY <1>1, <2>1 DEF LastFirst
<1> QED BY <1>2, <1>4, <1>5, <1>6, <1>7 DEF DbInv

-----------------------------------------------------------------------------
(* What the user does.                                                     *)
LEMMA DbUserKeeps ==
  ASSUME DbInv, sdAt = "up", sdAt' \in {"up", "off"}, UNCHANGED <<sdTables, sdColumns, sdFailed>>, sdOwed' = {},
         sdLast' # <<>> => sdAt' = "up"
  PROVE  DbMade' /\ DbPaths'
BY DEF DbInv, DbMade, DbPaths

LEMMA AddServerKeeps ==
  ASSUME DbInv, NEW host \in AnyHost, NEW user \in LoginUsers, AddServer(host, user)
  PROVE  DbInv'
<1> DEFINE new == [there |-> TRUE, host |-> host, user |-> user, old |-> FALSE]
<1>1. /\ sdAt = "up" /\ At(host) = {} /\ sdOwed' = {} /\ sdLast' = <<>>
      /\ sdRows' = Append(sdRows, new)
      /\ UNCHANGED <<sdRecent, sdGone, sdAt, sdTables, sdColumns, sdFailed, sdOld>>
  BY DEF AddServer, DbActs, DbKept
<1>2. new \in AnyServer /\ ~new.old /\ new.there /\ new.host = host
  BY DEF AnyServer
<1> HIDE DEF new
<1>3. /\ sdRows' \in Seq(AnyServer) /\ DOMAIN sdRows' = DOMAIN sdRows \cup {Len(sdRows) + 1}
      /\ DOMAIN sdRows = 1..Len(sdRows) /\ Len(sdRows) \in Nat
      /\ sdRows'[Len(sdRows) + 1] = new
      /\ \A i \in DOMAIN sdRows : sdRows'[i] = sdRows[i]
  <2>1. sdRows \in Seq(AnyServer) /\ Len(sdRows) \in Nat /\ DOMAIN sdRows = 1..Len(sdRows)
    BY LenProperties DEF DbInv, DbTypes
  <2>2. /\ Append(sdRows, new) \in Seq(AnyServer) /\ Len(Append(sdRows, new)) = Len(sdRows) + 1
        /\ \A i \in 1..Len(sdRows) : Append(sdRows, new)[i] = sdRows[i]
        /\ Append(sdRows, new)[Len(sdRows) + 1] = new
    BY <1>2, <2>1, AppendProperties
  <2>3. DOMAIN Append(sdRows, new) = 1..(Len(sdRows) + 1)
    BY <2>2, LenProperties
  <2>4. 1..(Len(sdRows) + 1) = 1..Len(sdRows) \cup {Len(sdRows) + 1}
    BY <2>1
  <2> QED BY <1>1, <2>1, <2>2, <2>3, <2>4
<1>4. DbTypes'
  BY <1>1, <1>3 DEF DbInv, DbTypes, DbPlaces
<1>5. RowIds' = RowIds \cup {Len(sdRows) + 1}
  BY <1>2, <1>3 DEF RowIds
<1>6. NoNewTwins'
  <2> SUFFICES ASSUME NEW i \in RowIds', NEW j \in RowIds', i < j, Same(sdRows'[i].host, sdRows'[j].host)
               PROVE  sdRows'[i].old /\ sdRows'[j].old
    BY DEF NoNewTwins
  <2>1. i \in DOMAIN sdRows /\ i \in RowIds
    <3>1. \A k \in RowIds : k \in Nat /\ k <= Len(sdRows)
      BY <1>3 DEF RowIds
    <3>2. i # Len(sdRows) + 1
      BY <1>3, <1>5, <3>1
    <3> QED BY <1>5, <3>2 DEF RowIds
  <2>2. CASE j \in RowIds
    BY <1>3, <2>1, <2>2 DEF RowIds, DbInv, NoNewTwins
  <2>3. CASE j = Len(sdRows) + 1
    BY <1>1, <1>2, <1>3, <2>1, <2>3 DEF At, Same
  <2> QED BY <1>5, <2>2, <2>3
<1>7. GoneForGood' /\ LastFirst'
  BY <1>1 DEF DbInv, GoneForGood, LastFirst
<1> QED BY <1>1, <1>4, <1>6, <1>7, DbUserKeeps DEF DbInv

LEMMA RemoveServerKeeps ==
  ASSUME DbInv, NEW id \in DOMAIN sdRows, RemoveServer(id)
  PROVE  DbInv'
<1> DEFINE h == sdRows[id].host
           K == {i \in DOMAIN sdRecent : ~Same(sdRecent[i].host, h)}
<1>1. PICK done \in 1..3 :
        /\ sdRecent' = Picked(sdRecent, K)
        /\ sdOld' \subseteq sdOld
        /\ sdRows' = IF done > 2 THEN [sdRows EXCEPT ![id].there = FALSE] ELSE sdRows
        /\ sdAt' \in {"up", "off"}
  BY DEF RemoveServer
<1>2. /\ sdAt = "up" /\ sdOwed' = {} /\ sdLast' = <<>>
      /\ sdGone' = sdGone \cup [place : {h.place}, path : DbFolders]
      /\ UNCHANGED <<sdTables, sdColumns, sdFailed>>
  BY DEF RemoveServer, DbActs
<1>3. /\ sdRecent \in Seq(AnyPath) /\ Once(sdRecent) /\ K \in SUBSET (1..Len(sdRecent))
  BY LenProperties DEF DbInv, DbTypes
<1>4. /\ sdRecent' \in Seq(AnyPath) /\ Once(sdRecent')
      /\ InSeq(sdRecent') = {sdRecent[i] : i \in K}
  <2>1. \A i, j \in K : sdRecent[i] = sdRecent[j] => i = j
    BY <1>3 DEF Once
  <2> HIDE DEF K
  <2> QED BY <1>1, <1>3, <2>1, PickedFacts, PickedElements
<1>5. sdRows' \in Seq(AnyServer) /\ RowIds' \subseteq RowIds /\ \A i \in RowIds' : sdRows'[i] = sdRows[i]
  <2>1. CASE done > 2
    <3>1. sdRows \in Seq(AnyServer) /\ Len(sdRows) \in Nat /\ DOMAIN sdRows = 1..Len(sdRows)
      BY LenProperties DEF DbInv, DbTypes
    <3>2. \A i \in 1..Len(sdRows) : sdRows[i] \in AnyServer
      BY <3>1, ElementOfSeq
    <3>3. sdRows' = [sdRows EXCEPT ![id].there = FALSE]
      BY <1>1, <2>1
    <3>4. sdRows' \in [1..Len(sdRows) -> AnyServer]
      BY <3>1, <3>2, <3>3 DEF AnyServer
    <3>5. \A i \in DOMAIN sdRows : sdRows'[i].there => i # id
      BY <3>1, <3>2, <3>3 DEF AnyServer
    <3>6. \A i \in DOMAIN sdRows : i # id => sdRows'[i] = sdRows[i]
      BY <3>1, <3>3
    <3> QED BY <3>1, <3>4, <3>5, <3>6, SeqDef DEF RowIds
  <2>2. CASE ~(done > 2)
    BY <1>1, <2>2 DEF DbInv, DbTypes, RowIds
  <2> QED BY <2>1, <2>2
<1>6. DbTypes'
  <2>1. IsFiniteSet(sdOld') /\ sdOld' \subseteq [host : AnyHost, path : Nat]
    BY <1>1, FS_Subset DEF DbInv, DbTypes
  <2> QED BY <1>1, <1>4, <1>5, <2>1 DEF DbTypes, DbPlaces
<1>7. GoneForGood'
  <2> SUFFICES ASSUME NEW i \in K PROVE [place |-> sdRecent[i].host.place, path |-> sdRecent[i].path] \notin sdGone'
    BY <1>4 DEF GoneForGood
  <2>1. sdRecent[i] \in InSeq(sdRecent)
    BY <1>3 DEF InSeq
  <2>2. [place |-> sdRecent[i].host.place, path |-> sdRecent[i].path] \notin sdGone
    BY <2>1 DEF DbInv, GoneForGood
  <2>3. sdRecent[i].host.place # h.place
    BY DEF Same
  <2> QED BY <1>2, <2>2, <2>3
<1>8. LastFirst'
  <2>1. \A i, j \in DOMAIN sdRecent' : sdRecent'[i] = sdRecent'[j] => i = j
    BY <1>4, LenProperties DEF Once
  <2> QED BY <1>2, <2>1 DEF LastFirst
<1>9. NoNewTwins'
  BY <1>5 DEF DbInv, NoNewTwins, RowIds
<1> QED BY <1>1, <1>2, <1>6, <1>7, <1>8, <1>9, DbUserKeeps DEF DbInv

LEMMA SaveServerKeeps ==
  ASSUME DbInv, NEW id \in DOMAIN sdRows, NEW host \in AnyHost, NEW user \in LoginUsers, SaveServer(id, host, user)
  PROVE  DbInv'
<1>1. PICK old : old = sdRows[id]
  OBVIOUS
<1>2. PICK moved : moved = {i \in DOMAIN sdRecent : Same(sdRecent[i].host, old.host)}
  OBVIOUS
<1>3. PICK paths : paths = [i \in DOMAIN sdRecent |-> IF i \in moved THEN [sdRecent[i] EXCEPT !.host = host] ELSE sdRecent[i]]
  OBVIOUS
<1>4. /\ sdAt = "up" /\ sdOwed' = {} /\ id \in RowIds /\ sdLast' = <<>>
      /\ Same(old.host, host) \/ At(host) = {}
      /\ sdRows' = [sdRows EXCEPT ![id].host = host, ![id].user = user, ![id].old = IF Same(old.host, host) THEN @ ELSE FALSE]
      /\ IF old.host = host THEN UNCHANGED <<sdRecent, sdGone>>
         ELSE /\ \E S \in Survivors(paths, moved) : sdRecent' = Picked(paths, S)
              /\ sdGone' = IF Same(old.host, host) THEN sdGone
                           ELSE (sdGone \cup [place : {old.host.place}, path : DbFolders])
                                  \ {[place |-> host.place, path |-> paths[i].path] : i \in moved}
      /\ UNCHANGED <<sdAt, sdTables, sdColumns, sdFailed, sdOld>>
  BY <1>1, <1>2, <1>3 DEF SaveServer, DbActs, DbKept
<1>5. /\ sdRows \in Seq(AnyServer) /\ Len(sdRows) \in Nat /\ DOMAIN sdRows = 1..Len(sdRows)
      /\ sdRecent \in Seq(AnyPath) /\ Len(sdRecent) \in Nat /\ DOMAIN sdRecent = 1..Len(sdRecent)
      /\ Once(sdRecent)
  BY LenProperties DEF DbInv, DbTypes
<1>6. /\ \A i \in 1..Len(sdRows) : sdRows[i] \in AnyServer
      /\ \A i \in 1..Len(sdRecent) : sdRecent[i] \in AnyPath
  BY <1>5, ElementOfSeq
<1>7. /\ sdRows' \in Seq(AnyServer) /\ DOMAIN sdRows' = DOMAIN sdRows
      /\ \A i \in DOMAIN sdRows : i # id => sdRows'[i] = sdRows[i]
      /\ sdRows'[id].there = sdRows[id].there /\ sdRows'[id].host = host
      /\ sdRows'[id].old = (old.old /\ Same(old.host, host))
  <2>1. PICK b \in BOOLEAN : b = (old.old /\ Same(old.host, host))
    OBVIOUS
  <2>2. old \in AnyServer
    BY <1>1, <1>5, <1>6
  <2>3. PICK new : new = [there |-> old.there, host |-> host, user |-> user, old |-> b]
    OBVIOUS
  <2>4. new \in AnyServer /\ new.there = old.there /\ new.host = host /\ new.old = b
    BY <2>2, <2>3 DEF AnyServer
  <2>5. DOMAIN sdRows' = DOMAIN sdRows /\ \A i \in DOMAIN sdRows : i # id => sdRows'[i] = sdRows[i]
    BY <1>4, <1>5
  <2>6. sdRows'[id] = [old EXCEPT !.host = host, !.user = user, !.old = IF Same(old.host, host) THEN @ ELSE FALSE]
    BY <1>1, <1>4, <1>5
  <2>7. sdRows'[id] = new
    BY <2>1, <2>2, <2>3, <2>6 DEF AnyServer
  <2>8. sdRows' \in [1..Len(sdRows) -> AnyServer]
    <3>1. sdRows' = [i \in DOMAIN sdRows |-> sdRows'[i]]
      BY <1>4, <1>5
    <3>2. \A i \in 1..Len(sdRows) : sdRows'[i] \in AnyServer
      BY <1>5, <1>6, <2>4, <2>5, <2>7
    <3> QED BY <1>5, <3>1, <3>2
  <2>9. sdRows' \in Seq(AnyServer)
    BY <1>5, <2>8, SeqDef
  <2> QED BY <1>1, <2>1, <2>4, <2>5, <2>7, <2>9
<1>8. paths \in Seq(AnyPath) /\ Len(paths) = Len(sdRecent)
      /\ \A i \in 1..Len(sdRecent) : /\ paths[i].path = sdRecent[i].path
                                     /\ paths[i].host = IF i \in moved THEN host ELSE sdRecent[i].host
  <2>1. ASSUME NEW i \in 1..Len(sdRecent)
        PROVE  /\ paths[i] \in AnyPath /\ paths[i].path = sdRecent[i].path
               /\ paths[i].host = IF i \in moved THEN host ELSE sdRecent[i].host
    <3>1. paths[i] = IF i \in moved THEN [sdRecent[i] EXCEPT !.host = host] ELSE sdRecent[i]
      BY <1>3, <1>5
    <3>2. sdRecent[i] \in AnyPath
      BY <1>6
    <3> QED BY <3>1, <3>2 DEF AnyPath
  <2>2. paths \in [1..Len(sdRecent) -> AnyPath]
    BY <1>3, <1>5, <2>1
  <2>3. paths \in Seq(AnyPath) /\ DOMAIN paths = 1..Len(sdRecent)
    BY <1>5, <2>2, SeqDef
  <2>4. Len(paths) \in Nat /\ DOMAIN paths = 1..Len(paths)
    BY <2>3, LenProperties
  <2>5. Len(paths) = Len(sdRecent)
    BY <1>5, <2>3, <2>4
  <2> QED BY <2>1, <2>3, <2>5
<1>9. /\ sdRecent' \in Seq(AnyPath) /\ Once(sdRecent')
      /\ old.host = host \/ InSeq(sdRecent') \subseteq InSeq(paths)
  <2>1. CASE old.host = host
    BY <1>4, <1>5, <2>1
  <2>2. CASE old.host # host
    <3>1. PICK S \in Survivors(paths, moved) : sdRecent' = Picked(paths, S)
      BY <1>4, <2>2
    <3>2. S \in SUBSET (1..Len(paths)) /\ \A i, j \in S : paths[i] = paths[j] => i = j
      BY <1>8, LenProperties DEF Survivors
    <3>3. sdRecent' \in Seq(AnyPath) /\ Once(sdRecent') /\ InSeq(sdRecent') = {paths[i] : i \in S}
      <4>1. Picked(paths, S) \in Seq(AnyPath)
        BY <1>8, <3>2, PickedFacts
      <4>2. InSeq(Picked(paths, S)) = {paths[i] : i \in S} /\ Once(Picked(paths, S))
        BY <1>8, <3>2, PickedElements
      <4> QED BY <3>1, <4>1, <4>2
    <3> QED BY <3>2, <3>3 DEF InSeq
  <2> QED BY <2>1, <2>2
<1>10. DbTypes'
  BY <1>4, <1>7, <1>9 DEF DbInv, DbTypes
<1>11. GoneForGood'
  <2>1. CASE old.host = host
    <3>1. UNCHANGED <<sdRecent, sdGone>>
      BY <1>4, <2>1
    <3> QED BY <3>1 DEF DbInv, GoneForGood
  <2>2. CASE old.host # host
    <3>0. sdGone' = IF Same(old.host, host) THEN sdGone
                    ELSE (sdGone \cup [place : {old.host.place}, path : DbFolders])
                           \ {[place |-> host.place, path |-> paths[k].path] : k \in moved}
      BY <1>4, <2>2
    <3> SUFFICES ASSUME NEW i \in 1..Len(sdRecent)
                 PROVE  [place |-> paths[i].host.place, path |-> paths[i].path] \notin sdGone'
      BY <1>8, <1>9, <2>2 DEF GoneForGood, InSeq
    <3>1. [place |-> sdRecent[i].host.place, path |-> sdRecent[i].path] \notin sdGone
      BY DEF DbInv, GoneForGood, InSeq
    <3>2. CASE i \in moved
      <4>1. paths[i].host = host /\ paths[i].path = sdRecent[i].path /\ Same(sdRecent[i].host, old.host)
        BY <1>2, <1>8, <3>2
      <4>2. CASE Same(old.host, host)
        BY <3>0, <3>1, <4>1, <4>2 DEF Same
      <4>3. CASE ~Same(old.host, host)
        <5>1. [place |-> host.place, path |-> paths[i].path] \notin sdGone'
          BY <3>0, <3>2, <4>3
        <5> QED BY <4>1, <5>1
      <4> QED BY <4>2, <4>3
    <3>3. CASE i \notin moved
      <4>1. paths[i].host = sdRecent[i].host /\ paths[i].path = sdRecent[i].path
        BY <1>8, <3>3
      <4>2. sdRecent[i].host.place # old.host.place
        BY <1>2, <1>5, <3>3 DEF Same
      <4>3. [place |-> sdRecent[i].host.place, path |-> sdRecent[i].path] \notin [place : {old.host.place}, path : DbFolders]
        BY <4>2
      <4> QED BY <3>0, <3>1, <4>1, <4>3
    <3> QED BY <3>2, <3>3
  <2> QED BY <2>1, <2>2
<1>12. LastFirst'
  <2>1. \A i, j \in DOMAIN sdRecent' : sdRecent'[i] = sdRecent'[j] => i = j
    BY <1>9, LenProperties DEF Once
  <2> QED BY <1>4, <2>1 DEF LastFirst
<1>13. NoNewTwins'
  <2>1. RowIds' = RowIds
    BY <1>7 DEF RowIds
  <2> SUFFICES ASSUME NEW i \in RowIds, NEW j \in RowIds, i < j, Same(sdRows'[i].host, sdRows'[j].host)
               PROVE  sdRows'[i].old /\ sdRows'[j].old
    BY <2>1 DEF NoNewTwins
  <2>2. i \in DOMAIN sdRows /\ j \in DOMAIN sdRows /\ i \in Nat /\ j \in Nat
    <3>1. i \in DOMAIN sdRows /\ j \in DOMAIN sdRows
      BY DEF RowIds
    <3> QED BY <1>5, <3>1
  <2>3. CASE Same(old.host, host)
    <3>1. Same(sdRows[i].host, sdRows[j].host)
      BY <1>1, <1>7, <2>2, <2>3 DEF Same
    <3>2. sdRows[i].old /\ sdRows[j].old
      BY <3>1 DEF DbInv, NoNewTwins
    <3> QED BY <1>1, <1>7, <2>2, <2>3, <3>2
  <2>4. CASE ~Same(old.host, host)
    <3>1. At(host) = {}
      BY <1>4, <2>4
    <3>2. \A k \in RowIds : sdRows[k].host.place # host.place
      BY <3>1 DEF At, Same
    <3>3. i # id /\ j # id
      <4>1. ~(i = id /\ j = id)
        BY <2>2
      <4> QED BY <1>7, <2>2, <3>2, <4>1 DEF Same
    <3> QED BY <1>7, <2>2, <3>3 DEF DbInv, NoNewTwins
  <2> QED BY <2>3, <2>4
<1> QED BY <1>4, <1>10, <1>11, <1>12, <1>13, DbUserKeeps DEF DbInv

(* The visit is the first, is there once, and its account keeps no more     *)
(* than RecentLimit.                                                       *)
LEMMA FirstOfLast ==
  ASSUME NEW top \in Nat, NEW S \in SUBSET (1..top), NEW L \in Nat
  PROVE  Cardinality({i \in S : Cardinality({j \in S : j <= i}) <= L}) <= L
<1> DEFINE upTo(i) == {j \in S : j <= i}
           Q == {i \in S : Cardinality(upTo(i)) <= L}
<1>1. IsFiniteSet(Q) /\ Q \subseteq S /\ Cardinality(Q) \in Nat
  <2>1. IsFiniteSet(1..top)
    BY FS_Interval
  <2>2. Q \subseteq S /\ Q \subseteq 1..top
    OBVIOUS
  <2> HIDE DEF Q
  <2>3. IsFiniteSet(Q)
    BY <2>1, <2>2, FS_Subset
  <2> QED BY <2>2, <2>3, FS_CardinalityType
<1>2. CASE Q = {}
  <2>1. Cardinality(Q) = 0
    BY <1>2, FS_EmptySet
  <2>2. Cardinality(Q) <= L
    <3> HIDE DEF Q
    <3> QED BY <2>1
  <2> QED BY <2>2
<1>3. CASE Q # {}
  <2>1. PICK m \in Q : \A i \in Q : i <= m
    <3>1. \A i \in S : i \in Nat /\ i <= top
      OBVIOUS
    <3> DEFINE D == {top - i : i \in Q}
    <3>2. D \subseteq Nat /\ D # {}
      <4>1. \A i \in Q : i \in Nat /\ i <= top
        BY <1>1, <3>1
      <4> HIDE DEF Q
      <4> QED BY <1>3, <4>1
    <3> HIDE DEF D
    <3>3. PICK x \in D : \A y \in D : x <= y
      BY <3>2, LeastOf
    <3> USE DEF D
    <3>4. PICK m \in Q : x = top - m
      OBVIOUS
    <3>5. \A i \in Q : i <= m
      <4>1. \A i \in Q : i \in Nat
        BY <1>1
      <4> HIDE DEF Q
      <4> QED BY <3>3, <3>4, <4>1
    <3> QED BY <3>5
  <2>2. Q \subseteq upTo(m) /\ upTo(m) \subseteq S
    BY <1>1, <2>1
  <2>3. Cardinality(upTo(m)) <= L
    BY <2>1
  <2> HIDE DEF Q, upTo
  <2>4. IsFiniteSet(S)
    <3>1. IsFiniteSet(1..top)
      BY FS_Interval
    <3> QED BY <3>1, FS_Subset
  <2>5. IsFiniteSet(upTo(m)) /\ Cardinality(upTo(m)) \in Nat /\ Cardinality(Q) <= Cardinality(upTo(m))
    BY <2>2, <2>4, FS_Subset, FS_CardinalityType
  <2>6. Cardinality(Q) <= L
    BY <1>1, <2>3, <2>5
  <2> QED BY <2>6 DEF Q, upTo
<1> QED BY <1>2, <1>3

LEMMA RecordPathKeeps ==
  ASSUME DbInv, NEW host \in AnyHost, NEW user \in LoginUsers, NEW path \in Nat, RecordPath(host, user, path)
  PROVE  DbInv'
<1> DEFINE mine(r) == Same(r.host, host) /\ r.user = user
           respelled(r) == mine(r) /\ r.path = path /\ r.host # host
<1>1. PICK row : row = [host |-> host, user |-> user, path |-> path]
  OBVIOUS
<1>2. PICK K : K = {i \in DOMAIN sdRecent : ~respelled(sdRecent[i])}
  OBVIOUS
<1>3. PICK others : others = Picked(sdRecent, K)
  OBVIOUS
<1>4. PICK rest : rest = Only(others, InSeq(others) \ {row})
  OBVIOUS
<1>5. PICK visited : visited = <<row>> \o rest
  OBVIOUS
<1>6. PICK ranked : ranked = {i \in DOMAIN visited : mine(visited[i])}
  OBVIOUS
<1>7. PICK kept : kept = {i \in DOMAIN visited : i \in ranked => Cardinality({j \in ranked : j <= i}) <= RecentLimit}
  OBVIOUS
<1>8. PICK done \in 1..3 :
        /\ sdRecent' = IF done = 1 THEN others ELSE IF done = 2 THEN visited ELSE Picked(visited, kept)
        /\ sdAt' = IF done = 3 THEN "up" ELSE "off"
        /\ sdGone' = IF done = 1 THEN sdGone ELSE sdGone \ {[place |-> host.place, path |-> path]}
        /\ sdLast' = IF done = 3 THEN <<row>> ELSE <<>>
  BY <1>1, <1>2, <1>3, <1>4, <1>5, <1>6, <1>7 DEF RecordPath
<1>9. /\ sdAt = "up" /\ sdOwed' = {}
      /\ UNCHANGED <<sdTables, sdColumns, sdFailed, sdOld, sdRows>>
  BY DEF RecordPath, DbActs
<1>10. /\ sdRecent \in Seq(AnyPath) /\ Once(sdRecent) /\ K \in SUBSET (1..Len(sdRecent))
  BY <1>2, LenProperties DEF DbInv, DbTypes
<1>11. row \in AnyPath /\ mine(row) /\ row.path = path /\ row.host = host
  BY <1>1 DEF AnyPath, Same
<1>12. /\ others \in Seq(AnyPath) /\ Once(others) /\ InSeq(others) \subseteq InSeq(sdRecent)
       /\ \A r \in InSeq(others) : ~respelled(r)
  <2>1. \A i, j \in K : sdRecent[i] = sdRecent[j] => i = j
    BY <1>10 DEF Once
  <2>2. InSeq(others) = {sdRecent[i] : i \in K}
    BY <1>3, <1>10, PickedElements
  <2>3. others \in Seq(AnyPath)
    BY <1>3, <1>10, PickedFacts
  <2>4. Once(others)
    BY <1>3, <1>10, <2>1, PickedElements
  <2>5. \A i \in K : ~respelled(sdRecent[i])
    BY <1>2
  <2> HIDE DEF respelled
  <2> QED BY <1>10, <2>2, <2>3, <2>4, <2>5 DEF InSeq
<1> HIDE DEF mine
<1>13. /\ rest \in Seq(AnyPath) /\ Once(rest) /\ InSeq(rest) \subseteq InSeq(others) /\ row \notin InSeq(rest)
  <2>1. rest \in Seq(AnyPath) /\ InSeq(rest) = InSeq(others) \cap (InSeq(others) \ {row}) /\ Once(rest)
    BY <1>4, <1>12, OnlyFacts
  <2> QED BY <2>1
<1>14. /\ visited \in Seq(AnyPath) /\ Once(visited) /\ InSeq(visited) = {row} \cup InSeq(rest)
       /\ Len(visited) \in Nat /\ DOMAIN visited = 1..Len(visited) /\ 1 \in 1..Len(visited) /\ visited[1] = row
  <2>1. PICK one : one = <<row>>
    OBVIOUS
  <2>2. one \in Seq(AnyPath) /\ InSeq(one) = {row} /\ Once(one)
    BY <1>11, <2>1, SingleFacts
  <2>3. visited \in Seq(AnyPath) /\ InSeq(visited) = InSeq(one) \cup InSeq(rest) /\ Once(visited)
    <3>1. InSeq(one) \cap InSeq(rest) = {}
      BY <1>13, <2>2
    <3>2. /\ one \o rest \in Seq(AnyPath) /\ InSeq(one \o rest) = InSeq(one) \cup InSeq(rest)
          /\ Once(one) /\ Once(rest) /\ InSeq(one) \cap InSeq(rest) = {} => Once(one \o rest)
      BY <1>13, <2>2, ConcatFacts
    <3> QED BY <1>5, <1>13, <2>1, <2>2, <3>1, <3>2
  <2>4. /\ Len(one \o rest) = Len(one) + Len(rest)
        /\ \A i \in 1..(Len(one) + Len(rest)) : (one \o rest)[i] = IF i <= Len(one) THEN one[i] ELSE rest[i - Len(one)]
    BY <1>13, <2>2, ConcatProperties
  <2>5. Len(one) = 1 /\ one[1] = row /\ Len(rest) \in Nat
    BY <1>13, <2>1, LenProperties
  <2>6. Len(visited) = 1 + Len(rest) /\ visited[1] = row
    BY <1>5, <2>1, <2>4, <2>5
  <2> QED BY <2>2, <2>3, <2>5, <2>6, LenProperties
<1>15. \A r \in InSeq(visited) : mine(r) /\ r.path = path => r = row
  <2> SUFFICES ASSUME NEW r \in InSeq(others), mine(r), r.path = path PROVE r = row
    BY <1>13, <1>14
  <2>1. r.host = host
    BY <1>12
  <2>2. r.user = user
    BY DEF mine
  <2>3. r \in AnyPath
    BY <1>12, InSeqFacts
  <2> QED BY <1>1, <2>1, <2>2, <2>3 DEF AnyPath
<1>16. kept \in SUBSET (1..Len(visited)) /\ ranked \in SUBSET (1..Len(visited)) /\ ranked \subseteq Nat
       /\ IsFiniteSet(ranked) /\ IsFiniteSet(kept) /\ 1 \in kept
  <2>1. kept \in SUBSET (1..Len(visited)) /\ ranked \in SUBSET (1..Len(visited)) /\ ranked \subseteq Nat
    BY <1>6, <1>7, <1>14
  <2>2. IsFiniteSet(1..Len(visited))
    BY <1>14, FS_Interval
  <2>3. IsFiniteSet(ranked) /\ IsFiniteSet(kept)
    BY <2>1, <2>2, FS_Subset
  <2>4. 1 \in ranked
    BY <1>6, <1>11, <1>14
  <2>5. {j \in ranked : j <= 1} = {1}
    <3>1. \A j \in ranked : j \in Nat /\ j >= 1
      <4>1. \A j \in 1..Len(visited) : j \in Nat /\ j >= 1
        BY <1>14
      <4> QED BY <2>1, <4>1, Zenon
    <3> QED BY <2>4, <3>1
  <2>6. Cardinality({j \in ranked : j <= 1}) = 1
    BY <2>5, FS_Singleton
  <2>7. 1 <= RecentLimit
    BY DatabaseAssumption
  <2>8. Cardinality({j \in ranked : j <= 1}) <= RecentLimit
    BY <2>6, <2>7
  <2> QED BY <1>7, <1>14, <2>1, <2>3, <2>8
<1>16a. \A j \in kept : j \in Nat
  <2>1. \A j \in 1..Len(visited) : j \in Nat
    BY <1>14
  <2> QED BY <1>16, <2>1, Zenon
<1>17. /\ Picked(visited, kept) \in Seq(AnyPath) /\ Once(Picked(visited, kept))
       /\ InSeq(Picked(visited, kept)) \subseteq InSeq(visited)
  <2>1. \A i, j \in kept : visited[i] = visited[j] => i = j
    BY <1>14, <1>16 DEF Once
  <2>2. InSeq(Picked(visited, kept)) = {visited[i] : i \in kept} /\ Once(Picked(visited, kept))
    BY <1>14, <1>16, <2>1, PickedElements
  <2> QED BY <1>14, <1>16, <2>2, PickedFacts DEF InSeq
<1>18. /\ sdRecent' \in Seq(AnyPath) /\ Once(sdRecent')
       /\ done = 1 => InSeq(sdRecent') \subseteq InSeq(sdRecent)
       /\ InSeq(sdRecent') \subseteq InSeq(sdRecent) \cup {row}
       /\ done # 1 => \A r \in InSeq(sdRecent') : mine(r) /\ r.path = path => r = row
  BY <1>8, <1>12, <1>13, <1>14, <1>15, <1>17
<1>19. DbTypes'
  BY <1>8, <1>9, <1>18 DEF DbInv, DbTypes, DbPlaces
<1>20. GoneForGood'
  <2>1. \A r \in InSeq(sdRecent) : [place |-> r.host.place, path |-> r.path] \notin sdGone
    BY DEF DbInv, GoneForGood
  <2>2. CASE done = 1
    BY <1>8, <1>18, <2>1, <2>2 DEF GoneForGood
  <2>3. CASE done # 1
    <3>1. [place |-> row.host.place, path |-> row.path] = [place |-> host.place, path |-> path]
      BY <1>11
    <3> QED BY <1>8, <1>18, <2>1, <2>3, <3>1 DEF GoneForGood
  <2> QED BY <2>2, <2>3
<1>21. NoNewTwins'
  BY <1>9 DEF DbInv, NoNewTwins, RowIds
<1>22. LastFirst'
  <2>1. \A i, j \in DOMAIN sdRecent' : sdRecent'[i] = sdRecent'[j] => i = j
    BY <1>18, LenProperties DEF Once
  <2>2. CASE done # 3
    BY <1>8, <2>1, <2>2 DEF LastFirst
  <2>3. CASE done = 3
    <3>1. PICK now : now = sdRecent'
      OBVIOUS
    <3>2. now = Picked(visited, kept) /\ sdLast' = <<row>>
      BY <1>8, <2>3, <3>1
    <3>3. PICK J : J = {i \in DOMAIN now : mine(now[i])}
      OBVIOUS
    <3>4. PICK N : N = Cardinality(kept)
      OBVIOUS
    <3>5. N \in Nat /\ now \in Seq(AnyPath) /\ Len(now) = N /\ DOMAIN now = 1..N
      BY <1>14, <1>16, <3>2, <3>4, PickedFacts, LenProperties
    <3>6. PICK at \in [1..N -> kept] :
            /\ \A i \in kept : \E n \in 1..N : at[n] = i
            /\ \A m, n \in 1..N : m < n => at[m] < at[n]
            /\ \A n \in 1..N : now[n] = visited[at[n]]
      <4>1. \E f \in [1..Cardinality(kept) -> kept] :
              /\ \A i \in kept : \E n \in 1..Cardinality(kept) : f[n] = i
              /\ \A m, n \in 1..Cardinality(kept) : m < n => f[m] < f[n]
              /\ \A n \in 1..Cardinality(kept) : Picked(visited, kept)[n] = visited[f[n]]
        BY <1>14, <1>16, PickedFacts
      <4> QED BY <3>2, <3>4, <4>1
    <3>7. N >= 1 /\ now[1] = row
      <4>1. PICK n \in 1..N : at[n] = 1
        BY <1>16, <3>6
      <4>2. ~(1 < n)
        <5> SUFFICES ASSUME 1 < n PROVE FALSE
          OBVIOUS
        <5>1. 1 \in 1..N /\ n \in 1..N /\ 1 < n
          BY <3>5, <4>1
        <5>2. at[1] < at[n] /\ at[1] \in kept
          BY <3>6, <5>1
        <5>3. \A i \in kept : i \in Nat /\ i >= 1
          <6>1. Len(visited) \in Nat /\ kept \subseteq 1..Len(visited)
            BY <1>14, <1>16
          <6> QED BY <6>1
        <5> QED BY <4>1, <5>2, <5>3
      <4>3. n = 1
        BY <3>5, <4>2
      <4> QED BY <1>14, <3>5, <3>6, <4>1, <4>3
    <3>8. J \in SUBSET (1..Len(now)) /\ 1 \in J
      BY <1>11, <3>3, <3>5, <3>7
    <3>9. Cardinality(J) <= RecentLimit
      <4> DEFINE Q == {i \in ranked : Cardinality({j \in ranked : j <= i}) <= RecentLimit}
                 f == [i \in J |-> at[i]]
      <4>1. Cardinality(Q) <= RecentLimit
        <5>1. RecentLimit \in Nat
          BY DatabaseAssumption
        <5> QED BY <1>14, <1>16, <5>1, FirstOfLast
      <4>2. \A i \in J : at[i] \in Q
        <5> SUFFICES ASSUME NEW i \in J PROVE at[i] \in Q
          OBVIOUS
        <5>1. i \in 1..N /\ mine(now[i])
          BY <3>3, <3>5
        <5>2. at[i] \in kept /\ now[i] = visited[at[i]]
          BY <3>6, <5>1
        <5>3. at[i] \in ranked
          BY <1>6, <1>14, <1>16, <5>1, <5>2
        <5> QED BY <1>7, <5>2, <5>3
      <4>3. \A i, k \in J : at[i] = at[k] => i = k
        <5> SUFFICES ASSUME NEW i \in J, NEW k \in J, at[i] = at[k] PROVE i = k
          OBVIOUS
        <5>1. i \in 1..N /\ k \in 1..N
          BY <3>5, <3>8
        <5>2. at[i] \in Nat /\ i \in Nat /\ k \in Nat
          <6>1. at[i] \in kept
            BY <3>6, <5>1
          <6>3. at[i] \in Nat
            BY <1>16a, <6>1, Zenon
          <6>4. i \in Nat /\ k \in Nat
            BY <3>5, <5>1
          <6> QED BY <6>3, <6>4
        <5>3. ~(i < k) /\ ~(k < i)
          BY <3>6, <5>1, <5>2
        <5> QED BY <5>2, <5>3
      <4>4. IsFiniteSet(Q)
        BY <1>16, FS_Subset
      <4> HIDE DEF Q
      <4>5. f \in Injection(J, Q)
        BY <4>2, <4>3 DEF Injection, IsInjective
      <4> HIDE DEF f
      <4>6. IsFiniteSet(J) /\ Cardinality(J) <= Cardinality(Q)
        BY <4>4, <4>5, FS_Injection
      <4>7. Cardinality(J) \in Nat /\ Cardinality(Q) \in Nat /\ RecentLimit \in Nat
        BY <4>4, <4>6, FS_CardinalityType, DatabaseAssumption
      <4> QED BY <4>1, <4>6, <4>7
    <3>10. RecentPaths(host, user)'[1].path = path
      <4>1. PICK all : all = Picked(now, J)
        OBVIOUS
      <4>2. all \in Seq(AnyPath) /\ Len(all) = Cardinality(J) /\ Cardinality(J) \in Nat /\ IsFiniteSet(J)
        BY <3>5, <3>8, <4>1, PickedFacts
      <4>3. PICK M : M = Cardinality(J)
        OBVIOUS
      <4>4. PICK pos \in [1..M -> J] :
              /\ \A i \in J : \E n \in 1..M : pos[n] = i
              /\ \A m, n \in 1..M : m < n => pos[m] < pos[n]
              /\ \A n \in 1..M : all[n] = now[pos[n]]
        <5>1. \E f \in [1..Cardinality(J) -> J] :
                /\ \A i \in J : \E n \in 1..Cardinality(J) : f[n] = i
                /\ \A m, n \in 1..Cardinality(J) : m < n => f[m] < f[n]
                /\ \A n \in 1..Cardinality(J) : Picked(now, J)[n] = now[f[n]]
          BY <3>5, <3>8, PickedFacts
        <5> QED BY <4>1, <4>3, <5>1
      <4>5. M >= 1 /\ all[1] = row
        <5>1. PICK n \in 1..M : pos[n] = 1
          BY <3>8, <4>4
        <5>2. ~(1 < n)
          <6> SUFFICES ASSUME 1 < n PROVE FALSE
            OBVIOUS
          <6>1. 1 \in 1..M /\ n \in 1..M /\ 1 < n
            BY <4>2, <4>3, <5>1
          <6>2. pos[1] < pos[n] /\ pos[1] \in J
            BY <4>4, <6>1
          <6>3. \A i \in J : i \in Nat /\ i >= 1
            <7>1. Len(now) \in Nat /\ J \subseteq 1..Len(now)
              BY <3>5, <3>8
            <7> QED BY <7>1
          <6> QED BY <5>1, <6>2, <6>3
        <5>3. n = 1
          BY <4>2, <4>3, <5>2
        <5> QED BY <3>7, <4>2, <4>3, <4>4, <5>1, <5>3
      <4>6. PICK n : n = IF Len(all) > RecentLimit THEN RecentLimit ELSE Len(all)
        OBVIOUS
      <4>7. n \in Nat /\ n >= 1 /\ n <= Len(all) /\ Len(all) \in Nat
        BY <4>2, <4>3, <4>5, <4>6, DatabaseAssumption
      <4>8. SubSeq(all, 1, n)[1] = row
        <5>1. \A i \in 1..n : all[i] \in AnyPath
          <6>1. \A i \in 1..Len(all) : all[i] \in AnyPath
            BY <4>2, ElementOfSeq
          <6> QED BY <4>7, <6>1
        <5>2. \A i \in 1..n - 1 + 1 : SubSeq(all, 1, n)[i] = all[1 + i - 1]
          BY <4>7, <5>1, SubSeqProperties
        <5>3. 1 \in 1..n - 1 + 1 /\ 1 + 1 - 1 = 1
          BY <4>7
        <5>4. SubSeq(all, 1, n)[1] = all[1 + 1 - 1]
          BY <5>2, <5>3
        <5> QED BY <4>5, <5>3, <5>4
      <4>9. RecentPaths(host, user)' = SubSeq(all, 1, n)
        BY <3>1, <3>3, <4>1, <4>6 DEF RecentPaths, mine
      <4> QED BY <1>11, <4>8, <4>9
    <3>11. \A i \in DOMAIN now : mine(now[i]) /\ now[i].path = path => now[i] = row
      BY <1>18, <2>3, <3>1, <3>5 DEF InSeq
    <3>12. row.host = host /\ row.user = user /\ row.path = path
      BY <1>1
    <3>13. sdLast'[1] = row
      BY <3>2
    <3> QED BY <2>1, <3>1, <3>3, <3>9, <3>10, <3>11, <3>12, <3>13 DEF LastFirst, mine
  <2> QED BY <2>2, <2>3
<1> QED BY <1>8, <1>9, <1>19, <1>20, <1>21, <1>22, DbUserKeeps DEF DbInv

LEMMA DbUserStep ==
  ASSUME DbInv,
         \/ \E host \in Hosts, user \in LoginUsers : AddServer(host, user)
         \/ \E host \in Hosts, id \in DOMAIN sdRows, user \in LoginUsers : SaveServer(id, host, user)
         \/ \E host \in Hosts, user \in LoginUsers, path \in DbFolders : RecordPath(host, user, path)
         \/ \E id \in DOMAIN sdRows : RemoveServer(id)
  PROVE  DbInv'
<1>1. Hosts \subseteq AnyHost /\ DbFolders \subseteq Nat
  BY DatabaseAssumption DEF Hosts, AnyHost
<1>2. CASE \E host \in Hosts, user \in LoginUsers : AddServer(host, user)
  BY <1>1, <1>2, AddServerKeeps
<1>3. CASE \E host \in Hosts, id \in DOMAIN sdRows, user \in LoginUsers : SaveServer(id, host, user)
  BY <1>1, <1>3, SaveServerKeeps
<1>4. CASE \E host \in Hosts, user \in LoginUsers, path \in DbFolders : RecordPath(host, user, path)
  BY <1>1, <1>4, RecordPathKeeps
<1>5. CASE \E id \in DOMAIN sdRows : RemoveServer(id)
  BY <1>5, RemoveServerKeeps
<1> QED BY <1>2, <1>3, <1>4, <1>5

LEMMA DbNothing ==
  ASSUME DbInv, UNCHANGED databaseVars PROVE DbInv'
<1>1. UNCHANGED <<sdAt, sdTables, sdColumns, sdRows, sdOld, sdRecent, sdFailed, sdOwed, sdGone, sdLast>>
  BY DEF databaseVars
<1>2. DbTypes' /\ DbMade'
  BY <1>1 DEF DbInv, DbTypes, DbMade
<1>3. TakenOver' = TakenOver /\ RowIds' = RowIds
  BY <1>1 DEF TakenOver, At, RowIds
<1>4. DbPaths' /\ GoneForGood' /\ NoNewTwins'
  BY <1>1, <1>3 DEF DbInv, DbPaths, GoneForGood, NoNewTwins
<1>5. \A h, u : RecentPaths(h, u)' = RecentPaths(h, u)
  BY <1>1 DEF RecentPaths
<1>6. LastFirst'
  BY <1>1, <1>5 DEF DbInv, LastFirst
<1> QED BY <1>2, <1>4, <1>6 DEF DbInv

(* The database keeps its invariant in every start, step and death.         *)
THEOREM DatabaseInvariance == DatabaseSpec => []DbInv
<1>1. DbInv /\ [DatabaseNext]_databaseVars => DbInv'
  <2> SUFFICES ASSUME DbInv, [DatabaseNext]_databaseVars PROVE DbInv'
    OBVIOUS
  <2>1. CASE StartApp \/ CreateTables \/ IndexServers \/ AddColumn \/ CreatePreviews \/ DbDies
    BY <2>1, DbMigrationKeeps
  <2>2. CASE MigrateRecentPaths
    BY <2>2, DbMigrated
  <2>3. CASE \/ \E host \in Hosts : AddServer(host, "")
             \/ \E host \in Hosts, id \in DOMAIN sdRows, user \in {"", "me"} : SaveServer(id, host, user)
             \/ \E host \in Hosts, user \in {"anonymous", "me"}, path \in DbFolders : RecordPath(host, user, path)
             \/ \E id \in DOMAIN sdRows : RemoveServer(id)
    <3>1. "" \in LoginUsers /\ {"", "me"} \subseteq LoginUsers /\ {"anonymous", "me"} \subseteq LoginUsers
      BY Zenon DEF LoginUsers
    <3>2. \/ \E host \in Hosts, user \in LoginUsers : AddServer(host, user)
          \/ \E host \in Hosts, id \in DOMAIN sdRows, user \in LoginUsers : SaveServer(id, host, user)
          \/ \E host \in Hosts, user \in LoginUsers, path \in DbFolders : RecordPath(host, user, path)
          \/ \E id \in DOMAIN sdRows : RemoveServer(id)
      BY <2>3, <3>1, Zenon
    <3> QED BY <3>2, DbUserStep
  <2>4. CASE UNCHANGED databaseVars
    BY <2>4, DbNothing
  <2> QED BY <2>1, <2>2, <2>3, <2>4, Zenon DEF DatabaseNext
<1> QED BY <1>1, DbStarts, PTL DEF DatabaseSpec

(* Whatever version left the file and wherever earlier starts died, the app *)
(* that is up has its tables and columns; what it had to take over is there, *)
(* what was removed stays away, and no account keeps more than its share.   *)
THEOREM DatabaseIsSafe == DatabaseSpec => []DatabaseSafe
BY DatabaseInvariance, DbInvGives, PTL

-----------------------------------------------------------------------------
(* The tools of agents (AgentTools).                                       *)
ToolNames == {"none", "connect", "disconnect", "rename", "delete", "upload", "mkdir"}
ToolStages == {"none", "ended", "looking", "closing", "making", "checking", "revealing", "logging", "listing", "root",
               "renaming", "sending", "removing"}

AnyCall == [tool : ToolNames, key : ConnKeys \cup {NoKey}, at : ToolStages, stopped : BOOLEAN,
            overwrite : BOOLEAN, found : SUBSET OnServer, todo : SUBSET OnServer]

(* What a call may have seen at the name it is about to replace.            *)
ToolCallOK(c) ==
  /\ atCall[c] \in AnyCall
  /\ atCall[c].key \in atStates \cup {NoKey} \/ atCall[c].tool = "connect"
  /\ atCall[c].at \in {"revealing", "logging", "listing"} => atCall[c].key \in ConnKeys
  /\ atCall[c].at \in {"renaming", "sending"} /\ "y" \in atCall[c].found => atCall[c].overwrite

ToolInv ==
  /\ atConn \subseteq atStates /\ atStates \subseteq ConnKeys /\ atLast \in atStates \cup {NoKey}
  /\ atCall \in [ToolCalls -> AnyCall]
  /\ \A c \in ToolCalls : ToolCallOK(c)
  /\ atLate = {} /\ atHarm = {}

LEMMA ToolCalls0 ==
  /\ NewCall \in AnyCall /\ NewCall.key = NoKey /\ NewCall.at = "none" /\ NewCall.found = {}
  /\ CallOver \in AnyCall /\ CallOver.key = NoKey /\ CallOver.at = "ended" /\ CallOver.found = {}
<1>1. NewCall \in AnyCall /\ NewCall.key = NoKey /\ NewCall.at = "none" /\ NewCall.found = {}
  BY DEF NewCall, AnyCall, ToolNames, ToolStages
<1> QED BY <1>1 DEF CallOver, AnyCall, ToolStages

LEMMA ToolStarts == ToolsInit => ToolInv
<1> SUFFICES ASSUME ToolsInit PROVE ToolInv
  OBVIOUS
<1>1. \A c \in ToolCalls : ToolCallOK(c)
  BY ToolCalls0 DEF ToolsInit, ToolCallOK
<1> QED BY ToolCalls0, <1>1 DEF ToolsInit, ToolInv, ConnKeys

(* The tools' targets are connections there are.                            *)
LEMMA ToolTargets ==
  ASSUME ToolInv, NEW ref \in References
  PROVE  /\ ResolveTarget(ref) \subseteq atConn
         /\ \A r \in ResolveServer(ref) : KeyOf(r) \in ConnKeys
<1>1. ResolveTarget(ref) \subseteq atConn
  BY DEF ResolveTarget
<1>2. KeyOf(1) \in ConnKeys /\ KeyOf(2) \in ConnKeys /\ DOMAIN SavedRows = {1, 2}
  <2>1. DOMAIN SavedRows = 1..2
    BY DEF SavedRows
  <2>2. SavedRows[1].host = "h" /\ SavedRows[1].user = 1
    BY DEF SavedRows
  <2>3. SavedRows[2].host = "h" /\ SavedRows[2].user = 2
    BY DEF SavedRows
  <2>4. 1..2 = {1, 2}
    OBVIOUS
  <2> QED BY <2>1, <2>2, <2>3, <2>4 DEF KeyOf, ConnKeys
<1>3. ResolveServer(ref) \subseteq {1, 2}
  BY <1>2 DEF ByRule, ResolveServer
<1> QED BY <1>1, <1>2, <1>3

(* One call changes: the rest of the invariant.                             *)
LEMMA ToolStep ==
  ASSUME ToolInv, NEW c \in ToolCalls, NEW call, atCall' = [atCall EXCEPT ![c] = call],
         atConn' \subseteq atStates', atStates \subseteq atStates', atStates' \subseteq ConnKeys, atLast' \in atStates' \cup {NoKey},
         call \in AnyCall,
         call.key \in atStates \cup {NoKey} \/ call.tool = "connect",
         call.at \in {"revealing", "logging", "listing"} => call.key \in ConnKeys,
         call.at \in {"renaming", "sending"} /\ "y" \in call.found => call.overwrite,
         atLate' = {}, atHarm' = {}
  PROVE  ToolInv'
<1>1. atCall' \in [ToolCalls -> AnyCall]
  BY DEF ToolInv
<1>2. ASSUME NEW b \in ToolCalls PROVE ToolCallOK(b)'
  BY <1>1 DEF ToolInv, ToolCallOK
<1> QED BY <1>1, <1>2 DEF ToolInv

LEMMA ToolCallEnds ==
  ASSUME ToolInv, NEW c \in ToolCalls, Ended(c), UNCHANGED <<atConn, atStates, atLate, atHarm>>,
         atLast' \in atStates \cup {NoKey}
  PROVE  ToolInv'
BY ToolCalls0, ToolStep DEF Ended, ToolInv

(* A call that goes on, unless it was stopped.                              *)
LEMMA ToolGoes ==
  ASSUME ToolInv, NEW c \in ToolCalls, NEW at \in ToolStages \ {"renaming", "sending"}, CallGoes(c, at),
         atConn' \subseteq atStates', atStates \subseteq atStates', atStates' \subseteq ConnKeys,
         UNCHANGED <<atLast, atHarm>>, at \in {"revealing", "logging", "listing"} => atCall[c].key \in ConnKeys
  PROVE  ToolInv'
<1>1. CASE Halts(c)
  BY <1>1, ToolCalls0, ToolStep DEF CallGoes, Ended, ToolInv
<1>2. CASE ~Halts(c)
  <2>1. ToolCallOK(c) /\ atCall' = [atCall EXCEPT ![c] = [atCall[c] EXCEPT !.at = at]]
    BY <1>2 DEF CallGoes, ToolInv
  <2>2. atLate' = {} /\ atHarm' = {}
    BY <1>2 DEF CallGoes, LateIf, Halts, ToolInv
  <2> QED BY <2>1, <2>2, ToolStep DEF ToolCallOK, ToolInv, AnyCall
<1> QED BY <1>1, <1>2

LEMMA ToolBegins ==
  ASSUME ToolInv, NEW c \in ToolCalls, NEW tool \in ToolNames \ {"none"}, NEW ref \in References,
         NEW overwrite \in BOOLEAN, CallBegins(c, tool, ref, overwrite)
  PROVE  ToolInv'
<1>2. CASE tool = "connect"
  <2>1. PICK call : /\ atCall' = [atCall EXCEPT ![c] = call] /\ UNCHANGED atLast
                    /\ \/ call = CallOver
                       \/ \E r \in ResolveServer(ref), at \in {"listing", "revealing"} :
                            call = [NewCall EXCEPT !.tool = tool, !.key = KeyOf(r), !.at = at]
    BY <1>2 DEF CallBegins
  <2>2. call \in AnyCall
        /\ (call = CallOver \/ (call.tool = "connect" /\ call.at \in {"listing", "revealing"} /\ call.key \in ConnKeys))
    <3>1. CASE call # CallOver
      <4>1. PICK r \in ResolveServer(ref), at \in {"listing", "revealing"} :
               call = [NewCall EXCEPT !.tool = tool, !.key = KeyOf(r), !.at = at]
        BY <2>1, <3>1
      <4>2. KeyOf(r) \in ConnKeys
        BY ToolTargets
      <4> HIDE DEF KeyOf
      <4>3. at \in ToolStages /\ tool \in ToolNames
        BY DEF ToolStages
      <4> QED BY <1>2, <4>1, <4>2, <4>3, ToolCalls0 DEF AnyCall
    <3>2. CASE call = CallOver
      BY <3>2, ToolCalls0, Zenon
    <3> QED BY <3>1, <3>2, Zenon
  <2> QED BY <2>1, <2>2, ToolStep, ToolCalls0 DEF CallBegins, ToolInv
<1>3. CASE tool # "connect"
  <2>1. PICK call, k :
           /\ atCall' = [atCall EXCEPT ![c] = call]
           /\ \/ call = CallOver
              \/ k \in ResolveTarget(ref) /\ call = [NewCall EXCEPT !.tool = tool, !.key = k, !.overwrite = overwrite,
                                     !.at = FirstStage(tool), !.todo = IF tool = "mkdir" THEN {"x", "y"} ELSE {}]
           /\ \/ UNCHANGED atLast
              \/ k \in ResolveTarget(ref) /\ atLast' = k
    BY <1>3 DEF CallBegins
  <2>2. ResolveTarget(ref) \subseteq atStates /\ atStates \subseteq ConnKeys
    BY ToolTargets DEF ToolInv
  <2>3. FirstStage(tool) \in {"closing", "making", "looking"}
    BY DEF FirstStage
  <2>4. call \in AnyCall
        /\ (call = CallOver \/ (call.at \in {"closing", "making", "looking"} /\ call.key \in atStates))
    <3>1. FirstStage(tool) \in ToolStages /\ tool \in ToolNames /\ {"x", "y"} \in SUBSET OnServer
      BY <2>3 DEF ToolStages, OnServer
    <3>2. ASSUME k \in ConnKeys, NEW at \in ToolStages, NEW todo \in SUBSET OnServer
          PROVE  [NewCall EXCEPT !.tool = tool, !.key = k, !.overwrite = overwrite, !.at = at, !.todo = todo] \in AnyCall
      BY <3>1, <3>2, ToolCalls0 DEF AnyCall
    <3>3. CASE call # CallOver
      <4>1. k \in atStates /\ k \in ConnKeys
        BY <2>1, <2>2, <3>3
      <4>2. call \in AnyCall
        <5>1. PICK todo \in SUBSET OnServer :
                 call = [NewCall EXCEPT !.tool = tool, !.key = k, !.overwrite = overwrite, !.at = FirstStage(tool), !.todo = todo]
          BY <2>1, <3>1, <3>3
        <5> QED BY <3>1, <3>2, <4>1, <5>1
      <4> QED BY <2>1, <2>3, <3>3, <4>1, <4>2, ToolCalls0 DEF AnyCall
    <3>4. CASE call = CallOver
      BY <3>4, ToolCalls0, Zenon
    <3> QED BY <3>3, <3>4, Zenon
  <2> QED BY <2>1, <2>2, <2>4, ToolStep, ToolCalls0 DEF CallBegins, ToolInv
<1> QED BY <1>2, <1>3

LEMMA ToolAnswers ==
  ASSUME ToolInv, NEW c \in ToolCalls,
         \/ ToolFails(c) \/ PasswordRevealed(c) \/ LoggedIn(c) \/ FolderOpened(c) \/ Closed(c)
         \/ Looked(c) \/ Renamed(c) \/ Sent(c) \/ Removed(c) \/ LevelMade(c) \/ Checked(c) \/ CallStopped(c)
  PROVE  ToolInv'
<1>0. ToolCallOK(c) /\ atConn \subseteq atStates /\ atStates \subseteq ConnKeys /\ atLast \in atStates \cup {NoKey}
      /\ atLate = {} /\ atHarm = {}
  BY DEF ToolInv
<1>1. CASE ToolFails(c)
  <2>1. CASE atCall[c].at = "listing"
    BY <1>0, <1>1, <2>1, ToolGoes DEF ToolFails, ToolStages
  <2>2. CASE atCall[c].at # "listing"
    BY <1>0, <1>1, <2>2, ToolCallEnds DEF ToolFails
  <2> QED BY <2>1, <2>2
<1>2. CASE PasswordRevealed(c)
  BY <1>0, <1>2, ToolGoes DEF PasswordRevealed, Answers, ToolCallOK, ToolStages
<1>3. CASE LoggedIn(c)
  BY <1>0, <1>3, ToolGoes DEF LoggedIn, Answers, ToolCallOK, ToolStages
<1>4. CASE FolderOpened(c)
  <2>1. atCall[c].key \in atStates /\ Ended(c) /\ UNCHANGED atLate /\ atLast' \in atStates \cup {NoKey}
    BY <1>0, <1>4 DEF FolderOpened, Answers, Halts, LateIf
  <2> QED BY <1>4, <2>1, ToolCallEnds DEF FolderOpened
<1>5. CASE Closed(c)
  BY <1>0, <1>5, ToolCalls0, ToolStep DEF Closed, Ended
<1>6. CASE Looked(c)
  <2>1. CASE Ended(c) /\ UNCHANGED atLate
    BY <1>0, <1>6, <2>1, ToolCallEnds DEF Looked
  <2>2. CASE ~(Ended(c) /\ UNCHANGED atLate)
    <3> DEFINE found == HereOn(atCall[c].key)
    <3>1. PICK next \in {"renaming", "removing", "sending"}, todo \in {OnServer, {}} :
             /\ atCall' = [atCall EXCEPT ![c] = [atCall[c] EXCEPT !.at = next, !.found = found, !.todo = todo]]
             /\ next = "renaming" => "y" \notin found
             /\ next = "sending" /\ "y" \in found => atCall[c].overwrite
             /\ UNCHANGED atLate
      BY <1>6, <2>2 DEF Looked, Halts, LateIf
    <3>2. found \subseteq OnServer
      BY DEF HereOn
    <3> HIDE DEF found
    <3>3. [atCall[c] EXCEPT !.at = next, !.found = found, !.todo = todo]
             \in AnyCall
      BY <1>0, <3>2 DEF ToolCallOK, ToolStages, AnyCall
    <3> QED BY <1>0, <1>6, <3>1, <3>3, ToolStep DEF Looked, ToolCallOK, AnyCall
  <2> QED BY <2>1, <2>2
<1>7. CASE Renamed(c) \/ Sent(c)
  <2>1. UNCHANGED atHarm
    BY <1>0, <1>7 DEF Renamed, Sent, Replaced, Answers, ToolCallOK
  <2> QED BY <1>0, <1>7, <2>1, ToolCallEnds DEF Renamed, Sent
<1>8. CASE Removed(c) \/ LevelMade(c)
  <2>1. CASE Ended(c) /\ UNCHANGED atLate
    BY <1>0, <1>8, <2>1, ToolCallEnds DEF Removed, LevelMade
  <2>2. CASE ~(Ended(c) /\ UNCHANGED atLate)
    <3>1. PICK todo \in SUBSET OnServer, at \in {"checking", "making", "removing"} :
             /\ atCall' = [atCall EXCEPT ![c] = [atCall[c] EXCEPT !.todo = todo, !.at = at]]
             /\ UNCHANGED atLate
      <4>1. CASE Removed(c)
        <5>1. PICK n \in atCall[c].todo : atCall' = [atCall EXCEPT ![c].todo = atCall[c].todo \ {n}] /\ LateIf(c) /\ ~Halts(c)
          BY <2>2, <4>1 DEF Removed
        <5>2. atCall[c].at = "removing" /\ atCall[c].todo \ {n} \in SUBSET OnServer /\ UNCHANGED atLate
          BY <1>0, <4>1, <5>1 DEF Removed, Answers, LateIf, Halts, ToolCallOK, AnyCall
        <5>3. atCall' = [atCall EXCEPT ![c] = [atCall[c] EXCEPT !.todo = atCall[c].todo \ {n}, !.at = "removing"]]
          BY <1>0, <5>1, <5>2 DEF ToolCallOK, AnyCall
        <5> QED BY <5>2, <5>3
      <4>2. CASE LevelMade(c)
        <5> DEFINE n == IF "x" \in atCall[c].todo THEN "x" ELSE "y"
        <5>1. /\ atCall' = [atCall EXCEPT ![c].todo = atCall[c].todo \ {n},
                                          ![c].at = IF atCall[c].todo \ {n} = {} THEN "checking" ELSE "making"]
              /\ LateIf(c) /\ ~Halts(c)
          BY <2>2, <4>2 DEF LevelMade
        <5>2. atCall[c].todo \ {n} \in SUBSET OnServer /\ UNCHANGED atLate
          BY <1>0, <5>1 DEF LateIf, Halts, ToolCallOK, AnyCall
        <5> HIDE DEF n
        <5>3. atCall' = [atCall EXCEPT ![c] = [atCall[c] EXCEPT !.todo = atCall[c].todo \ {n},
                            !.at = IF atCall[c].todo \ {n} = {} THEN "checking" ELSE "making"]]
          BY <5>1
        <5> QED BY <5>2, <5>3
      <4> QED BY <1>8, <4>1, <4>2
    <3>2. [atCall[c] EXCEPT !.todo = todo, !.at = at]
             \in AnyCall
      BY <1>0 DEF ToolCallOK, ToolStages, AnyCall
    <3> QED BY <1>0, <1>8, <3>1, <3>2, ToolStep DEF Removed, LevelMade, ToolCallOK, AnyCall
  <2> QED BY <2>1, <2>2
<1>9. CASE Checked(c)
  BY <1>0, <1>9, ToolCallEnds DEF Checked
<1>10. CASE CallStopped(c)
  <2>1. atCall' = [atCall EXCEPT ![c] = [atCall[c] EXCEPT !.stopped = TRUE]]
    BY <1>10 DEF CallStopped
  <2> QED BY <1>0, <1>10, <2>1, ToolStep DEF CallStopped, ToolCallOK, AnyCall
<1> QED BY <1>1, <1>2, <1>3, <1>4, <1>5, <1>6, <1>7, <1>8, <1>9, <1>10

LEMMA ToolOthers == ASSUME ToolInv, Others PROVE ToolInv'
<1>0. /\ atConn \subseteq atStates /\ atStates \subseteq ConnKeys /\ atLast \in atStates \cup {NoKey}
      /\ atLate = {} /\ atHarm = {} /\ \A c \in ToolCalls : ToolCallOK(c)
  BY DEF ToolInv
<1>1. CASE UNCHANGED atCall
  <2>1. /\ atConn' \subseteq atStates' /\ atStates' \subseteq ConnKeys /\ atStates \subseteq atStates'
    BY <1>0 DEF Others
  <2>2. \A c \in ToolCalls : ToolCallOK(c)'
    BY <1>0, <1>1, <2>1 DEF ToolCallOK
  <2> QED BY <1>0, <1>1, <2>1, <2>2 DEF Others, ToolInv
<1>2. CASE atCall' # atCall
  <2>1. PICK k \in {atCall[c].key : c \in ToolCalls} \ {NoKey}, n \in OnServer :
           /\ atCall' = [c \in ToolCalls |-> IF atCall[c].key = k THEN [atCall[c] EXCEPT !.found = @ \ {n}]
                                             ELSE atCall[c]]
           /\ UNCHANGED <<atConn, atStates>>
    <3>1. \E k \in {atCall[c].key : c \in ToolCalls} \ {NoKey}, n \in OnServer, kind \in {"none", "file"} :
            /\ TreeSet(k, n, kind)
            /\ atCall' = [c \in ToolCalls |-> IF atCall[c].key = k THEN [atCall[c] EXCEPT !.found = @ \ {n}]
                                              ELSE atCall[c]]
            /\ UNCHANGED <<atConn, atStates>>
      BY <1>2 DEF Others
    <3>2. PICK k \in {atCall[c].key : c \in ToolCalls} \ {NoKey}, n \in OnServer, kind \in {"none", "file"} :
            /\ atCall' = [c \in ToolCalls |-> IF atCall[c].key = k THEN [atCall[c] EXCEPT !.found = @ \ {n}]
                                              ELSE atCall[c]]
            /\ UNCHANGED <<atConn, atStates>>
      BY <3>1
    <3> QED BY <3>2, Zenon
  <2>2. ASSUME NEW c \in ToolCalls
        PROVE  /\ atCall'[c] \in AnyCall
               /\ ToolCallOK(c)'
    BY <1>0, <2>1 DEF ToolCallOK, AnyCall
  <2> QED BY <1>0, <2>1, <2>2 DEF Others, ToolInv
<1> QED BY <1>1, <1>2

(* The tools keep their invariant, whatever connections come and go.        *)
THEOREM ToolsInvariance == ToolsSpec => []ToolInv
<1>1. ASSUME ToolInv, [ToolsNext]_toolVars PROVE ToolInv'
  <2>1. CASE UNCHANGED toolVars
    BY <1>1, <2>1 DEF ToolInv, ToolCallOK, toolVars
  <2>2. CASE Others
    BY <1>1, <2>2, ToolOthers
  <2>3. CASE ToolsProgress \/ \E c \in ToolCalls : CallStopped(c)
    BY <1>1, <2>3, ToolAnswers DEF ToolsProgress
  <2>4. ASSUME NEW c \in ToolCalls, NEW tool \in {"connect", "disconnect", "rename", "delete", "upload", "mkdir"},
               NEW ref \in References, NEW overwrite \in BOOLEAN, CallBegins(c, tool, ref, overwrite)
        PROVE  ToolInv'
    BY <1>1, <2>4, ToolBegins DEF ToolNames
  <2> QED BY <1>1, <2>1, <2>2, <2>3, <2>4 DEF ToolsNext
<1> QED BY ToolStarts, <1>1, PTL DEF ToolsSpec

LEMMA ToolInvGives == ToolInv => ToolsSafe
BY DEF ToolInv, ToolCallOK, ToolsSafe, ToolsTypeOK, HaltObeyed, SeenIsKept

(* A call that was stopped (haltIfStopped) begins no further command, and   *)
(* nothing that was seen at a name is replaced without leave.               *)
THEOREM ToolsAreSafe == ToolsSpec => []ToolsSafe
BY ToolsInvariance, ToolInvGives, PTL

-----------------------------------------------------------------------------
(* What agents read (AgentReading).  The pages so far are the first entries *)
(* of those that match, as many as the cursor says.                        *)
ReadPages ==
  /\ arFolder \subseteq Entries /\ arCursor \in [query : Queries, offset : Nat]
  /\ arSame =>
       IF arCursor.offset = 0 THEN arGot = Matched(arQuery)
       ELSE /\ arCursor.query = arQuery /\ arCursor.offset < Len(Matched(arQuery))
            /\ arGot = SubSeq(Matched(arQuery), 1, arCursor.offset)

Outs == [ok : BOOLEAN, image : 0..2]
AnyPreviews == [paths : AskedFor \cup {<<>>}, at : {"none", "looking", "queued", "running", "ended"},
                stopped : BOOLEAN, started : Nat, outs : Seq(Outs)]

(* Each image is that of the request in its place.                          *)
Paired(c, outs) ==
  /\ outs \in Seq(Outs) /\ Len(outs) <= Len(Requests(c))
  /\ \A i \in 1..Len(outs) : outs[i].ok => outs[i].image = Requests(c)[i]

CallFits(c) ==
  /\ pvCall[c] \in AnyPreviews
  /\ Paired(c, pvCall[c].outs)
  /\ pvCall[c].at \in {"none", "looking"} => pvCall[c].outs = <<>>
  /\ c \in InSeq(pvTail) <=> pvCall[c].at \in {"queued", "running"}
  /\ pvCall[c].at = "running" => pvFlight # 0 /\ Head(pvTail) = c

(* The first call in the queue waits for its next image.                    *)
InFlight(c) ==
  /\ pvCall[c].at = "running" /\ Len(pvCall[c].outs) < Len(Requests(c))
  /\ pvFlight = Requests(c)[Len(pvCall[c].outs) + 1]

ReadPreviews ==
  /\ pvCall \in [ReadCalls -> AnyPreviews]
  /\ pvTail \in Seq(ReadCalls) /\ Once(pvTail) /\ pvGen \in Nat
  /\ \A c \in ReadCalls : CallFits(c)
  /\ pvFlight # 0 => pvTail # <<>> /\ InFlight(Head(pvTail))

RdInv == ReadPages /\ ReadPreviews

-----------------------------------------------------------------------------
(* Pages.                                                                  *)

LEMMA MatchedFacts ==
  ASSUME NEW q, arFolder \subseteq Entries
  PROVE  \E T : Matched(q) \in Seq(T)
<1> DEFINE S == {e \in arFolder : Qualifies(e, q)}
           n == Cardinality(S)
<1>1. n \in Nat
  <2>1. IsFiniteSet(Entries)
    BY FS_Interval, 1 \in Int, 4 \in Int DEF Entries
  <2>2. IsFiniteSet(S)
    BY <2>1, FS_Subset
  <2> HIDE DEF S
  <2> QED BY <2>2, FS_CardinalityType
<1> DEFINE at(i) == CHOOSE e \in S : Cardinality({d \in S : Before(d, e)}) = i - 1
           T == {at(i) : i \in 1..n}
<1>2. Matched(q) = [i \in 1..n |-> at(i)]
  BY Zenon DEF Matched
<1> HIDE DEF n, at
<1>3. Matched(q) \in [1..n -> T]
  BY <1>2
<1> HIDE DEF T
<1> QED BY <1>1, <1>3, SeqDef

(* The next page of a list lengthens what was read of it.                   *)
LEMMA PageFacts ==
  ASSUME NEW T, NEW all \in Seq(T), NEW offset \in Nat, NEW limit \in 1..2
  PROVE  LET end == IF offset + limit < Len(all) THEN offset + limit ELSE Len(all)
             page == SubSeq(all, offset + 1, end)
             to == offset + Len(page)
         IN /\ to \in Nat
            /\ offset < Len(all) => /\ SubSeq(all, 1, offset) \o page = SubSeq(all, 1, to)
                                    /\ to = end
            /\ offset = 0 => <<>> \o page = SubSeq(all, 1, to) /\ to = end
<1> DEFINE end == IF offset + limit < Len(all) THEN offset + limit ELSE Len(all)
           page == SubSeq(all, offset + 1, end)
           to == offset + Len(page)
           read == SubSeq(all, 1, offset)
<1>1. Len(all) \in Nat /\ end \in Nat /\ end <= Len(all)
  BY LenProperties
<1>2. \A i \in 1..Len(all) : all[i] \in T
  BY ElementOfSeq
<1>3. /\ page \in Seq(T)
      /\ Len(page) = IF offset + 1 <= end THEN end - offset ELSE 0
      /\ \A i \in 1..Len(page) : page[i] = all[offset + i]
  <2> HIDE DEF end
  <2>1. \A i \in (offset + 1)..end : all[i] \in T
    BY <1>1, <1>2
  <2>2. /\ page \in Seq(T)
        /\ Len(page) = (IF offset + 1 <= end THEN end - (offset + 1) + 1 ELSE 0)
        /\ \A i \in 1..end - (offset + 1) + 1 : page[i] = all[offset + 1 + i - 1]
    BY <1>1, <2>1, SubSeqProperties
  <2> HIDE DEF page
  <2> QED BY <1>1, <2>2
<1> HIDE DEF page, end
<1>4. to \in Nat
  BY <1>1, <1>3
<1>5. ASSUME offset < Len(all) \/ offset = 0
      PROVE  to = end
  BY <1>1, <1>3, <1>5 DEF end
<1>6. ASSUME NEW m \in 0..Len(all)
      PROVE  /\ SubSeq(all, 1, m) \in Seq(T) /\ Len(SubSeq(all, 1, m)) = m
             /\ \A i \in 1..m : SubSeq(all, 1, m)[i] = all[i]
  <2>1. \A i \in 1..m : all[i] \in T
    BY <1>1, <1>2
  <2>2. /\ SubSeq(all, 1, m) \in Seq(T)
        /\ Len(SubSeq(all, 1, m)) = (IF 1 <= m THEN m - 1 + 1 ELSE 0)
        /\ \A i \in 1..m - 1 + 1 : SubSeq(all, 1, m)[i] = all[1 + i - 1]
    BY <1>1, <2>1, SubSeqProperties
  <2> DEFINE r == SubSeq(all, 1, m)
  <2>3. r \in Seq(T) /\ Len(r) = (IF 1 <= m THEN m - 1 + 1 ELSE 0) /\ \A i \in 1..m - 1 + 1 : r[i] = all[1 + i - 1]
    BY <2>2
  <2> HIDE DEF r
  <2>4. r \in Seq(T) /\ Len(r) = m /\ \A i \in 1..m : r[i] = all[i]
    BY <1>1, <2>3
  <2> QED BY <2>4 DEF r
<1>7. ASSUME offset < Len(all)
      PROVE  read \o page = SubSeq(all, 1, to)
  <2>1. to \in 0..Len(all) /\ offset \in 0..Len(all) /\ Len(page) = to - offset
    BY <1>1, <1>3, <1>5, <1>7 DEF end
  <2> DEFINE w == SubSeq(all, 1, to)
  <2>2. read \in Seq(T) /\ Len(read) = offset /\ \A i \in 1..offset : read[i] = all[i]
    BY <1>6, <2>1
  <2>3. w \in Seq(T) /\ Len(w) = to /\ \A i \in 1..to : w[i] = all[i]
    BY <1>6, <2>1
  <2> HIDE DEF read, w
  <2>4. /\ read \o page \in Seq(T) /\ Len(read \o page) = Len(read) + Len(page)
        /\ \A i \in 1..Len(read) + Len(page) : (read \o page)[i] = IF i <= Len(read) THEN read[i] ELSE page[i - Len(read)]
    BY <1>3, <2>2, ConcatProperties
  <2> DEFINE both == read \o page
  <2>5. both \in Seq(T) /\ Len(both) = to /\ \A i \in 1..to : both[i] = IF i <= offset THEN read[i] ELSE page[i - offset]
    <3> HIDE DEF both, to
    <3>1. both \in Seq(T) /\ Len(both) = Len(read) + Len(page)
          /\ \A i \in 1..Len(read) + Len(page) : both[i] = IF i <= Len(read) THEN read[i] ELSE page[i - Len(read)]
      BY <2>4 DEF both
    <3>2. Len(read) = offset /\ offset + Len(page) = to
      BY <1>1, <2>1, <2>2
    <3> QED BY <3>1, <3>2
  <2> HIDE DEF both, to
  <2>6. \A i \in 1..to : both[i] = w[i]
    <3> TAKE i \in 1..to
    <3>1. CASE i <= offset
      BY <2>1, <2>2, <2>3, <2>5, <3>1
    <3>2. CASE ~(i <= offset)
      <4>1. i - offset \in 1..Len(page)
        BY <2>1, <3>2
      <4>2. page[i - offset] = all[offset + (i - offset)]
        BY <1>3, <4>1
      <4>3. offset + (i - offset) = i
        BY <2>1
      <4> QED BY <2>3, <2>5, <3>2, <4>2, <4>3
    <3> QED BY <3>1, <3>2
  <2> QED BY <2>3, <2>5, <2>6, SeqEqual DEF w, both
<1>8. ASSUME offset = 0
      PROVE  <<>> \o page = SubSeq(all, 1, to)
  <2>1. page = SubSeq(all, 1, end)
    BY <1>8 DEF page
  <2>2. <<>> \o page = page
    BY <1>3, ConcatEmptySeq
  <2> QED BY <1>5, <1>8, <2>1, <2>2
<1> HIDE DEF to, read
<1> QED BY <1>4, <1>5, <1>7, <1>8 DEF end, page, to, read

LEMMA WholeFacts ==
  ASSUME NEW T, NEW all \in Seq(T)
  PROVE  Len(all) \in Nat /\ SubSeq(all, 1, Len(all)) = all /\ \A n \in 0..Len(all) : IsPrefix(SubSeq(all, 1, n), all)
<1>1. Len(all) \in Nat /\ \A i \in 1..Len(all) : all[i] \in T
  BY LenProperties, ElementOfSeq
<1>2. ASSUME NEW n \in 0..Len(all)
      PROVE  /\ SubSeq(all, 1, n) \in Seq(T) /\ Len(SubSeq(all, 1, n)) = n
             /\ \A i \in 1..n : SubSeq(all, 1, n)[i] = all[i]
  <2>1. \A i \in 1..n : all[i] \in T
    BY <1>1
  <2> DEFINE r == SubSeq(all, 1, n)
  <2>2. r \in Seq(T) /\ Len(r) = (IF 1 <= n THEN n - 1 + 1 ELSE 0) /\ \A i \in 1..n - 1 + 1 : r[i] = all[1 + i - 1]
    BY <1>1, <2>1, SubSeqProperties
  <2> HIDE DEF r
  <2>3. r \in Seq(T) /\ Len(r) = n /\ \A i \in 1..n : r[i] = all[i]
    BY <1>1, <2>2
  <2> QED BY <2>3 DEF r
<1>3. SubSeq(all, 1, Len(all)) = all
  <2>1. Len(all) \in 0..Len(all)
    BY <1>1
  <2> QED BY <1>2, <2>1, SeqEqual
<1>4. ASSUME NEW n \in 0..Len(all)
      PROVE  IsPrefix(SubSeq(all, 1, n), all)
  <2> DEFINE r == SubSeq(all, 1, n)
  <2>1. r \in Seq(T) /\ Len(r) = n /\ SubSeq(r, 1, Len(r)) = r
    <3>1. r \in Seq(T) /\ Len(r) = n
      BY <1>2
    <3> HIDE DEF r
    <3>2. \A i \in 1..n : r[i] \in T
      BY <3>1, ElementOfSeq
    <3> DEFINE w == SubSeq(r, 1, n)
    <3>3. w \in Seq(T) /\ Len(w) = (IF 1 <= n THEN n - 1 + 1 ELSE 0) /\ \A i \in 1..n - 1 + 1 : w[i] = r[1 + i - 1]
      BY <1>1, <3>1, <3>2, SubSeqProperties
    <3> HIDE DEF w
    <3>4. Len(w) = n /\ \A i \in 1..n : w[i] = r[i]
      BY <1>1, <3>3
    <3>5. w = r
      BY <3>1, <3>3, <3>4, SeqEqual
    <3> QED BY <3>1, <3>5 DEF w
  <2>2. r = SubSeq(all, 1, Len(r))
    BY <2>1
  <2> HIDE DEF r
  <2>3. IsPrefix(r, all)
    BY <1>1, <2>1, <2>2 DEF IsPrefix
  <2> QED BY <2>3 DEF r
<1> QED BY <1>1, <1>3, <1>4

LEMMA ReadPageFrom ==
  ASSUME ReadPages, NEW q \in Queries, NEW offset \in Nat, NEW limit \in 1..2, PageFrom(q, offset, limit),
         arFolder' = arFolder, arQuery' = q \/ (arQuery' = arQuery /\ arSame' = arSame),
         offset = 0 => arQuery' = q,
         offset # 0 => arCursor.offset = offset /\ arCursor.query = q /\ arQuery' = arQuery /\ arSame' = arSame
  PROVE  ReadPages'
<1> DEFINE all == Matched(q)
           end == IF offset + limit < Len(all) THEN offset + limit ELSE Len(all)
           page == SubSeq(all, offset + 1, end)
           to == offset + Len(page)
           old == IF offset = 0 THEN <<>> ELSE arGot
<1>1. PICK T : all \in Seq(T)
  BY MatchedFacts DEF ReadPages
<1>2. Matched(q)' = all
  BY DEF Matched
<1>3. /\ arGot' = old \o page
      /\ arCursor' = IF to < Len(all) THEN [query |-> q, offset |-> to] ELSE NoCursor
  BY DEF PageFrom
<1>4. /\ to \in Nat
      /\ offset < Len(all) => /\ SubSeq(all, 1, offset) \o page = SubSeq(all, 1, to)
                              /\ to = end
      /\ offset = 0 => <<>> \o page = SubSeq(all, 1, to) /\ to = end
  BY <1>1, PageFacts
<1>5. Len(all) \in Nat /\ SubSeq(all, 1, Len(all)) = all
  BY <1>1, WholeFacts
<1> HIDE DEF all, page
<1>6. arCursor' \in [query : Queries, offset : Nat] /\ arFolder' \subseteq Entries
  BY <1>3, <1>4 DEF NoCursor, Queries, ReadPages
<1>7. ASSUME arSame'
      PROVE  IF arCursor'.offset = 0 THEN arGot' = all
             ELSE /\ arCursor'.query = q /\ arCursor'.offset < Len(all)
                  /\ arGot' = SubSeq(all, 1, arCursor'.offset)
  <2>1. offset # 0 => arQuery = q /\ offset < Len(all) /\ arGot = SubSeq(all, 1, offset)
    BY <1>7 DEF ReadPages, all
  <2>2. arGot' = SubSeq(all, 1, to) /\ to = end
    BY <1>3, <1>4, <2>1
  <2>3. to # 0 \/ Len(all) = 0
    BY <1>5, <2>2
  <2>4. CASE to < Len(all)
    BY <1>3, <2>2, <2>3, <2>4, <1>4, <1>5
  <2>5. CASE ~(to < Len(all))
    <3>1. to = Len(all)
      BY <1>4, <1>5, <2>2, <2>5
    <3>2. arCursor'.offset = 0
      BY <1>3, <2>5 DEF NoCursor
    <3> QED BY <1>5, <2>2, <3>1, <3>2
  <2> QED BY <2>4, <2>5
<1>8. arSame' => Matched(arQuery)' = all
  <2>1. arSame' => arQuery' = q
    BY DEF ReadPages
  <2> QED BY <1>2, <2>1 DEF Matched
<1>9. arSame' => (arQuery' = q)
  BY DEF ReadPages
<1> QED BY <1>6, <1>7, <1>8, <1>9 DEF ReadPages

LEMMA ReadPagesKeep ==
  ASSUME ReadPages, FirstPage \/ NextPage \/ FolderChanges \/ UNCHANGED pageVars
  PROVE  ReadPages'
<1>1. CASE FirstPage
  <2>1. PICK q \in Queries, limit \in 1..2 : arQuery' = q /\ PageFrom(q, 0, limit)
    BY <1>1 DEF FirstPage
  <2> QED BY <1>1, <2>1, ReadPageFrom DEF FirstPage
<1>2. CASE NextPage
  <2>1. PICK q \in Queries, limit \in 1..2 :
           IF q = arCursor.query THEN PageFrom(q, arCursor.offset, limit) ELSE UNCHANGED <<arGot, arCursor>>
    BY <1>2 DEF NextPage
  <2>2. arCursor.offset \in Nat /\ arCursor.offset # 0 /\ UNCHANGED <<arFolder, arQuery, arSame>>
    BY <1>2 DEF NextPage, ReadPages
  <2>3. CASE q = arCursor.query
    BY <2>1, <2>2, <2>3, ReadPageFrom
  <2>4. CASE q # arCursor.query
    <3>1. Matched(arQuery)' = Matched(arQuery)
      BY <2>2 DEF Matched
    <3> QED BY <2>1, <2>2, <2>4, <3>1 DEF ReadPages
  <2> QED BY <2>3, <2>4
<1>3. CASE FolderChanges
  BY <1>3 DEF FolderChanges, ReadPages
<1>4. CASE UNCHANGED pageVars
  <2>1. Matched(arQuery)' = Matched(arQuery)
    BY <1>4 DEF pageVars, Matched
  <2> QED BY <1>4, <2>1 DEF pageVars, ReadPages
<1> QED BY <1>1, <1>2, <1>3, <1>4

-----------------------------------------------------------------------------
(* Previews.                                                               *)

LEMMA RequestsFacts ==
  ASSUME NEW c, pvCall[c].paths \in AskedFor \cup {<<>>}
  PROVE  /\ Requests(c) \in Seq(0..2) /\ Len(Requests(c)) \in Nat
         /\ \A i \in 1..Len(Requests(c)) : Requests(c)[i] \in {1, 2}
<1> DEFINE paths == pvCall[c].paths
           r == Requests(c)
<1>1. paths \in Seq(1..3)
  <2>1. <<1, 2>> \in Seq(1..3) /\ <<1, 3, 1>> \in Seq(1..3) /\ <<2, 1, 3>> \in Seq(1..3) /\ <<>> \in Seq(1..3)
    OBVIOUS
  <2> QED BY <2>1 DEF AskedFor
<1>2. r = Only(paths, {1, 2})
  BY DEF Requests
<1> HIDE DEF paths, r
<1>3. r \in Seq(1..3) /\ InSeq(r) \subseteq {1, 2}
  BY <1>1, <1>2, OnlyFacts
<1>4. Len(r) \in Nat /\ \A i \in 1..Len(r) : r[i] \in {1, 2}
  BY <1>3, LenProperties DEF InSeq
<1>5. r \in Seq(0..2)
  <2>1. DOMAIN r = 1..Len(r) /\ r = [i \in 1..Len(r) |-> r[i]]
    BY <1>3, LenProperties, SeqDef
  <2>2. r \in [1..Len(r) -> 0..2]
    BY <1>4, <2>1
  <2> QED BY <1>4, <2>2, SeqDef
<1> QED BY <1>4, <1>5 DEF r

(* What is filled in pairs with its requests as what was made did.          *)
LEMMA FillFacts ==
  ASSUME NEW c, pvCall[c].paths \in AskedFor \cup {<<>>}, NEW outs, Paired(c, outs)
  PROVE  Paired(c, Fill(c, outs)) /\ Len(Fill(c, outs)) \in Nat
<1> DEFINE reqs == Requests(c)
           halted == pvGen' # pvCall[c].started \/ pvCall[c].stopped
           made(i) == {j \in 1..Len(outs) : reqs[j] = reqs[i]}
           reached == {n \in Len(outs)..Len(reqs) : halted \/ \A i \in (Len(outs) + 1)..n : made(i) # {}}
           end == CHOOSE n \in reached : \A m \in reached : m <= n
           out(i) == IF i <= Len(outs) THEN outs[i] ELSE IF halted THEN Failed ELSE outs[CHOOSE j \in made(i) : TRUE]
           r == Fill(c, outs)
<1>1. r = [i \in 1..end |-> out(i)]
  BY Zenon DEF Fill
<1>2. /\ reqs \in Seq(0..2) /\ Len(reqs) \in Nat /\ Len(outs) \in Nat /\ outs \in Seq(Outs)
      /\ Len(outs) <= Len(reqs) /\ \A i \in 1..Len(outs) : outs[i].ok => outs[i].image = reqs[i]
  BY RequestsFacts, LenProperties DEF Paired
<1> HIDE DEF r, reqs, halted
<1>3. Len(outs) \in reached
  BY <1>2
<1>4. end \in reached
  <2>1. reached \subseteq 0..Len(reqs)
    BY <1>2
  <2> HIDE DEF reached
  <2> QED BY <1>2, <1>3, <2>1, LargestOf
<1>5. end \in Nat /\ end <= Len(reqs) /\ (halted \/ \A i \in (Len(outs) + 1)..end : made(i) # {})
  <2> HIDE DEF end, made
  <2> QED BY <1>2, <1>4
<1> HIDE DEF end
<1>6. ASSUME NEW i \in 1..end
      PROVE  out(i) \in Outs /\ (out(i).ok => out(i).image = reqs[i])
  <2>1. CASE i <= Len(outs)
    BY <1>2, <2>1, ElementOfSeq
  <2>2. CASE ~(i <= Len(outs)) /\ halted
    BY <2>2 DEF Outs, Failed, Out
  <2>3. CASE ~(i <= Len(outs)) /\ ~halted
    <3>1. i \in (Len(outs) + 1)..end
      BY <1>2, <1>5, <2>3
    <3>2. made(i) # {}
      <4> HIDE DEF made
      <4> QED BY <1>5, <2>3, <3>1
    <3> DEFINE j == CHOOSE j \in made(i) : TRUE
    <3>3. j \in made(i)
      BY <3>2
    <3>4. j \in 1..Len(outs) /\ reqs[j] = reqs[i]
      BY <3>3
    <3>5. out(i) = outs[j]
      BY <2>3
    <3> HIDE DEF j, out
    <3> QED BY <1>2, <3>4, <3>5, ElementOfSeq
  <2> QED BY <2>1, <2>2, <2>3
<1> HIDE DEF out
<1>7. r \in [1..end -> Outs] /\ \A i \in 1..end : r[i] = out(i)
  BY <1>1, <1>6
<1>8. r \in Seq(Outs) /\ Len(r) = end
  BY <1>5, <1>7, SeqDef, LenProperties
<1> QED BY <1>5, <1>6, <1>7, <1>8 DEF Paired, r, reqs

(* What was said of one call and its request stays said while the call does.*)
LEMMA CallStays ==
  ASSUME NEW c \in ReadCalls, pvCall' = [pvCall EXCEPT ![c] = pvCall'[c]], pvCall \in [ReadCalls -> AnyPreviews],
         NEW b \in ReadCalls, b # c
  PROVE  pvCall'[b] = pvCall[b] /\ Requests(b)' = Requests(b)
<1>1. pvCall'[b] = pvCall[b]
  OBVIOUS
<1> QED BY <1>1 DEF Requests

LEMMA ReadGoesOn ==
  ASSUME ReadPreviews, pvTail # <<>>, NEW c, c = Head(pvTail), pvGen' \in Nat,
         NEW outs, Paired(c, outs), PreviewGoesOn(c, outs)
  PROVE  ReadPreviews'
<1> DEFINE filled == Fill(c, outs)
           ended == Len(filled) = Len(Requests(c))
           call == [pvCall[c] EXCEPT !.outs = filled, !.at = IF ended THEN "ended" ELSE "running"]
<1>1. /\ c \in InSeq(pvTail) /\ c \in ReadCalls
      /\ Tail(pvTail) \in Seq(ReadCalls) /\ Once(Tail(pvTail)) /\ InSeq(Tail(pvTail)) = InSeq(pvTail) \ {c}
  BY TailFacts, InSeqFacts DEF ReadPreviews
<1>2. pvCall[c] \in AnyPreviews /\ pvCall[c].at \in {"queued", "running"}
  BY <1>1 DEF ReadPreviews, CallFits
<1>3. Paired(c, filled) /\ Len(filled) \in Nat
  BY <1>2, FillFacts DEF AnyPreviews
<1>4. /\ pvCall' = [pvCall EXCEPT ![c] = call]
      /\ pvTail' = IF ended THEN Tail(pvTail) ELSE pvTail
      /\ pvFlight' = IF ended THEN 0 ELSE Requests(c)[Len(filled) + 1]
  BY <1>1 DEF PreviewGoesOn, ReadPreviews
<1> HIDE DEF filled
<1>5. call \in AnyPreviews /\ call.paths = pvCall[c].paths /\ call.outs = filled
      /\ call.at = (IF ended THEN "ended" ELSE "running")
  BY <1>2, <1>3 DEF AnyPreviews, Paired
<1> HIDE DEF call, ended
<1>6. /\ pvCall'[c] = call /\ pvCall' \in [ReadCalls -> AnyPreviews]
      /\ Requests(c)' = Requests(c)
      /\ \A b \in ReadCalls \ {c} : pvCall'[b] = pvCall[b] /\ Requests(b)' = Requests(b)
  <2>1. pvCall'[c] = call /\ pvCall' \in [ReadCalls -> AnyPreviews]
    BY <1>1, <1>4, <1>5 DEF ReadPreviews
  <2>2. \A b \in ReadCalls \ {c} : pvCall'[b] = pvCall[b]
    BY <1>1, <1>4 DEF ReadPreviews
  <2> QED BY <1>5, <2>1, <2>2 DEF Requests
<1>7. pvTail' \in Seq(ReadCalls) /\ Once(pvTail') /\ InSeq(pvTail') = (IF ended THEN InSeq(pvTail) \ {c} ELSE InSeq(pvTail))
  BY <1>1, <1>4 DEF ReadPreviews
<1>8. ~ended => /\ Len(filled) + 1 \in 1..Len(Requests(c)) /\ pvFlight' \in {1, 2}
  <2>1. Len(Requests(c)) \in Nat /\ \A i \in 1..Len(Requests(c)) : Requests(c)[i] \in {1, 2}
    BY <1>2, RequestsFacts DEF AnyPreviews
  <2>2. ~ended => Len(filled) + 1 \in 1..Len(Requests(c))
    BY <1>3, <2>1 DEF ended, Paired
  <2> QED BY <1>4, <2>1, <2>2
<1>9. ASSUME NEW b \in ReadCalls PROVE CallFits(b)'
  <2>1. CASE b = c
    <3>1. Paired(c, pvCall[c].outs)'
      BY <1>3, <1>5, <1>6 DEF Paired
    <3>2. c \in InSeq(pvTail)' <=> ~ended
      BY <1>1, <1>7 DEF InSeq
    <3>3. pvCall[c].at' = (IF ended THEN "ended" ELSE "running")
      BY <1>5, <1>6
    <3>4. ~ended => pvFlight' # 0 /\ Head(pvTail)' = c
      BY <1>4, <1>8
    <3> QED BY <1>5, <1>6, <2>1, <3>1, <3>2, <3>3, <3>4 DEF CallFits
  <2>2. CASE b # c
    <3>1. CallFits(b) /\ pvCall'[b] = pvCall[b] /\ Requests(b)' = Requests(b)
      BY <1>6, <2>2 DEF ReadPreviews
    <3>2. pvCall[b].at # "running"
      BY <2>2, <3>1 DEF CallFits
    <3>3. b \in InSeq(pvTail)' <=> b \in InSeq(pvTail)
      BY <1>7, <2>2 DEF InSeq
    <3>4. Paired(b, pvCall[b].outs)' = Paired(b, pvCall[b].outs)
      BY <3>1 DEF Paired
    <3> QED BY <3>1, <3>2, <3>3, <3>4 DEF CallFits, Paired
  <2> QED BY <2>1, <2>2
<1>10. pvFlight' # 0 => pvTail' # <<>> /\ InFlight(Head(pvTail))'
  <2>1. ASSUME ~ended PROVE InFlight(c)' /\ pvTail' = pvTail
    BY <1>3, <1>4, <1>5, <1>6, <1>8, <2>1 DEF InFlight
  <2>2. pvFlight' # 0 => ~ended
    BY <1>4
  <2> QED BY <2>1, <2>2 DEF InFlight
<1> QED BY <1>6, <1>7, <1>9, <1>10 DEF ReadPreviews

LEMMA ReadPreviewsKeep ==
  ASSUME ReadPreviews,
         \/ \E c \in ReadCalls : PreviewsQueued(c) \/ PreviewTurn(c) \/ PreviewStopped(c)
                                 \/ \E paths \in AskedFor : PreviewsAsked(c, paths)
         \/ ImageCame \/ ConnectionChanged \/ \E p \in {1, 2} : OldImageCame(p)
         \/ UNCHANGED previewVars
  PROVE  ReadPreviews'
<1>0. /\ pvCall \in [ReadCalls -> AnyPreviews] /\ pvTail \in Seq(ReadCalls) /\ Once(pvTail) /\ pvGen \in Nat
      /\ \A c \in ReadCalls : CallFits(c)
      /\ pvFlight # 0 => pvTail # <<>> /\ InFlight(Head(pvTail))
  BY DEF ReadPreviews
<1>1. ASSUME NEW c \in ReadCalls, PreviewTurn(c) PROVE ReadPreviews'
  <2>1. Paired(c, <<>>)
    <3>1. Len(Requests(c)) \in Nat
      BY <1>0, RequestsFacts DEF AnyPreviews
    <3>2. <<>> \in Seq(Outs) /\ Len(<<>>) = 0
      OBVIOUS
    <3> QED BY <3>1, <3>2 DEF Paired
  <2> QED BY <1>0, <1>1, <2>1, ReadGoesOn DEF PreviewTurn
<1>2. ASSUME NEW out \in Outs, pvFlight # 0, out.ok => out.image = pvFlight,
             PreviewGoesOn(Head(pvTail), Append(pvCall[Head(pvTail)].outs, out)), pvGen' \in Nat
      PROVE  ReadPreviews'
  <2> DEFINE c == Head(pvTail)
             outs == pvCall[c].outs
  <2>1. c \in ReadCalls /\ pvTail # <<>> /\ InFlight(c)
    BY <1>0, <1>2, TailFacts, InSeqFacts
  <2>2. Paired(c, outs) /\ Len(outs) < Len(Requests(c)) /\ pvFlight = Requests(c)[Len(outs) + 1]
    BY <1>0, <2>1 DEF CallFits, InFlight
  <2>3. Len(Requests(c)) \in Nat
    BY <1>0, <2>1, RequestsFacts DEF AnyPreviews
  <2> HIDE DEF outs, c
  <2>4. /\ outs \in Seq(Outs) /\ Len(outs) \in Nat
        /\ Append(outs, out) \in Seq(Outs) /\ Len(Append(outs, out)) = Len(outs) + 1
        /\ \A i \in 1..Len(outs) : Append(outs, out)[i] = outs[i]
        /\ Append(outs, out)[Len(outs) + 1] = out
    BY <2>2, AppendProperties, LenProperties DEF Paired
  <2>5. Paired(c, Append(outs, out))
    <3> DEFINE more == Append(outs, out)
    <3>1. more \in Seq(Outs) /\ Len(more) = Len(outs) + 1 /\ more[Len(outs) + 1] = out
          /\ \A i \in 1..Len(outs) : more[i] = outs[i]
      BY <2>4
    <3> HIDE DEF more
    <3>2. ASSUME NEW i \in 1..Len(more) PROVE more[i].ok => more[i].image = Requests(c)[i]
      <4>1. CASE i \in 1..Len(outs)
        BY <2>2, <3>1, <4>1 DEF Paired
      <4>2. CASE i = Len(outs) + 1
        BY <1>2, <2>2, <3>1, <4>2
      <4> QED BY <2>4, <3>1, <4>1, <4>2
    <3>3. Len(more) <= Len(Requests(c))
      BY <2>2, <2>3, <2>4, <3>1
    <3> QED BY <3>1, <3>2, <3>3 DEF Paired, more
  <2> QED BY <1>2, <2>1, <2>5, ReadGoesOn DEF c, outs
<1>3. pvFlight # 0 => pvFlight \in {1, 2}
  <2> DEFINE c == Head(pvTail)
  <2>1. ASSUME pvFlight # 0 PROVE c \in ReadCalls /\ InFlight(c)
    BY <1>0, <2>1, TailFacts, InSeqFacts
  <2> HIDE DEF c
  <2>2. ASSUME pvFlight # 0 PROVE pvFlight \in {1, 2}
    <3>1. /\ Len(Requests(c)) \in Nat /\ \A i \in 1..Len(Requests(c)) : Requests(c)[i] \in {1, 2}
      BY <1>0, <2>1, <2>2, RequestsFacts DEF AnyPreviews
    <3>2. Len(pvCall[c].outs) \in Nat
      BY <1>0, <2>1, <2>2, LenProperties DEF AnyPreviews
    <3> QED BY <2>1, <2>2, <3>1, <3>2 DEF InFlight
  <2> QED BY <2>2
<1>4. /\ Failed \in Outs /\ ~Failed.ok
      /\ \A p \in {1, 2} : ImageOf(p) \in Outs /\ ImageOf(p).image = p
  BY DEF Failed, ImageOf, Out, Outs
<1>5. CASE ImageCame
  BY <1>0, <1>2, <1>3, <1>4, <1>5 DEF ImageCame
<1>6. ASSUME NEW p \in {1, 2}, OldImageCame(p) PROVE ReadPreviews'
  <2>1. CASE Awaited(p)
    BY <1>0, <1>2, <1>4, <1>6, <2>1 DEF OldImageCame, Awaited
  <2>2. CASE ~Awaited(p)
    <3>1. UNCHANGED <<pvCall, pvTail, pvFlight, pvGen>>
      BY <1>6, <2>2 DEF OldImageCame
    <3> QED BY <3>1 DEF ReadPreviews, CallFits, InFlight, Paired, Requests
  <2> QED BY <2>1, <2>2
<1>7. CASE ConnectionChanged
  <2>1. pvGen' \in Nat
    BY <1>0, <1>7 DEF ConnectionChanged
  <2>2. CASE pvFlight # 0
    BY <1>2, <1>4, <1>7, <2>1, <2>2 DEF ConnectionChanged
  <2>3. CASE pvFlight = 0
    <3>1. UNCHANGED <<pvCall, pvTail, pvFlight>>
      BY <1>7, <2>3 DEF ConnectionChanged
    <3> QED BY <2>1, <3>1 DEF ReadPreviews, CallFits, InFlight, Paired, Requests
  <2> QED BY <2>2, <2>3
<1>8. CASE UNCHANGED previewVars
  BY <1>8 DEF previewVars, ReadPreviews, CallFits, InFlight, Paired, Requests
<1>9. ASSUME NEW c \in ReadCalls, NEW call \in AnyPreviews, pvCall' = [pvCall EXCEPT ![c] = call],
             UNCHANGED <<pvFlight, pvGen>>, call.outs = pvCall[c].outs,
             call.paths = pvCall[c].paths \/ pvCall[c].outs = <<>>,
             call.at \in {"none", "looking"} => pvCall[c].outs = <<>>,
             \/ call.at = pvCall[c].at /\ UNCHANGED pvTail /\ call.paths = pvCall[c].paths
             \/ /\ pvCall[c].at \in {"none", "looking"} /\ call.at \in {"looking", "ended"} /\ UNCHANGED pvTail
             \/ pvCall[c].at \in {"none", "looking"} /\ call.at = "queued" /\ pvTail' = Append(pvTail, c)
      PROVE  ReadPreviews'
  <2>1. /\ pvCall'[c] = call /\ pvCall' \in [ReadCalls -> AnyPreviews]
        /\ \A b \in ReadCalls \ {c} : pvCall'[b] = pvCall[b] /\ Requests(b)' = Requests(b)
    BY <1>0, <1>9 DEF Requests
  <2>2. Paired(c, call.outs)'
    <3>1. CASE call.paths = pvCall[c].paths
      <4>1. Requests(c)' = Requests(c)
        BY <2>1, <3>1 DEF Requests
      <4> QED BY <1>0, <1>9, <2>1, <4>1 DEF CallFits, Paired
    <3>2. CASE pvCall[c].outs = <<>>
      <4> DEFINE paths == call.paths
      <4>1. paths \in AskedFor \cup {<<>>}
        BY <1>9 DEF AnyPreviews
      <4>2. Requests(c)' = Only(paths, {1, 2})
        BY <2>1 DEF Requests
      <4>3. paths \in Seq(1..3)
        <5>1. <<1, 2>> \in Seq(1..3) /\ <<1, 3, 1>> \in Seq(1..3) /\ <<2, 1, 3>> \in Seq(1..3) /\ <<>> \in Seq(1..3)
          OBVIOUS
        <5> QED BY <4>1, <5>1 DEF AskedFor
      <4>4. Len(Requests(c)') \in Nat
        BY <4>2, <4>3, OnlyFacts, LenProperties
      <4>5. call.outs = <<>> /\ <<>> \in Seq(Outs) /\ Len(<<>>) = 0
        BY <1>9, <3>2
      <4> QED BY <4>4, <4>5 DEF Paired
    <3> QED BY <1>9, <3>1, <3>2
  <2>3. pvCall[c].at \in {"none", "looking"} => c \notin InSeq(pvTail) /\ pvCall[c].outs = <<>>
    BY <1>0 DEF CallFits
  <2>4. /\ pvTail' \in Seq(ReadCalls) /\ Once(pvTail')
        /\ InSeq(pvTail') = InSeq(pvTail) \cup (IF pvTail' = pvTail THEN {} ELSE {c})
        /\ pvTail # <<>> => pvTail' # <<>> /\ Head(pvTail') = Head(pvTail)
    <3>1. CASE pvTail' = pvTail
      BY <1>0, <3>1
    <3>2. CASE pvTail' # pvTail
      <4>1. pvTail' = Append(pvTail, c) /\ c \notin InSeq(pvTail)
        BY <1>9, <2>3, <3>2
      <4> QED BY <1>0, <3>2, <4>1, AppendFacts, InSeqFacts
    <3> QED BY <3>1, <3>2
  <2>5. ASSUME NEW b \in ReadCalls PROVE CallFits(b)'
    <3>1. CASE b = c
      <4>1. c \in InSeq(pvTail)' <=> call.at \in {"queued", "running"}
        BY <1>0, <1>9, <2>3, <2>4, AppendFacts DEF CallFits, InSeq
      <4>2. call.at = "running" => pvFlight' # 0 /\ Head(pvTail') = c
        BY <1>0, <1>9 DEF CallFits
      <4> QED BY <1>9, <2>1, <2>2, <3>1, <4>1, <4>2 DEF CallFits, Paired
    <3>2. CASE b # c
      <4>1. CallFits(b) /\ pvCall'[b] = pvCall[b] /\ Requests(b)' = Requests(b)
        BY <1>0, <2>1, <3>2
      <4>2. b \in InSeq(pvTail)' <=> b \in InSeq(pvTail)
        BY <2>4, <3>2 DEF InSeq
      <4>3. pvCall[b].at = "running" => pvTail # <<>>
        BY <1>0, <4>1 DEF CallFits
      <4> QED BY <1>9, <2>4, <4>1, <4>2, <4>3 DEF CallFits, Paired
    <3> QED BY <3>1, <3>2
  <2>6. pvFlight' # 0 => pvTail' # <<>> /\ InFlight(Head(pvTail))'
    <3> SUFFICES ASSUME pvFlight # 0 PROVE pvTail' # <<>> /\ InFlight(Head(pvTail))'
      BY <1>9
    <3> DEFINE h == Head(pvTail)
    <3>1. h \in ReadCalls /\ pvTail' # <<>> /\ Head(pvTail') = h /\ InFlight(h)
      BY <1>0, <2>4, TailFacts, InSeqFacts
    <3> HIDE DEF h
    <3>2. CASE h # c
      BY <1>9, <2>1, <3>1, <3>2 DEF InFlight
    <3>3. CASE h = c
      <4>1. call.at = "running" /\ call.paths = pvCall[c].paths
        BY <1>9, <3>1, <3>3 DEF InFlight
      <4>2. Requests(c)' = Requests(c)
        BY <2>1, <4>1 DEF Requests
      <4> QED BY <1>9, <2>1, <3>1, <3>3, <4>1, <4>2 DEF InFlight
    <3> QED BY <3>2, <3>3
  <2> QED BY <1>0, <1>9, <2>1, <2>4, <2>5, <2>6 DEF ReadPreviews
<1>10. ASSUME NEW c \in ReadCalls,
              PreviewsQueued(c) \/ PreviewStopped(c) \/ \E paths \in AskedFor : PreviewsAsked(c, paths)
       PROVE  ReadPreviews'
  <2>0. pvCall[c] \in AnyPreviews /\ CallFits(c)
    BY <1>0
  <2>1. CASE PreviewsQueued(c)
    <3>1. CASE pvCall[c].stopped
      <4> DEFINE call == [pvCall[c] EXCEPT !.at = "ended"]
      <4>1. call \in AnyPreviews /\ call.outs = pvCall[c].outs /\ call.paths = pvCall[c].paths /\ call.at = "ended"
        BY <2>0 DEF AnyPreviews
      <4>2. pvCall' = [pvCall EXCEPT ![c] = call] /\ pvCall[c].at = "looking" /\ UNCHANGED <<pvTail, pvFlight, pvGen>>
        BY <2>1, <3>1 DEF PreviewsQueued
      <4> HIDE DEF call
      <4> QED BY <1>9, <2>0, <4>1, <4>2 DEF CallFits
    <3>2. CASE ~pvCall[c].stopped
      <4> DEFINE call == [pvCall[c] EXCEPT !.at = "queued", !.started = pvGen]
      <4>1. call \in AnyPreviews /\ call.outs = pvCall[c].outs /\ call.paths = pvCall[c].paths /\ call.at = "queued"
        BY <1>0, <2>0 DEF AnyPreviews
      <4>2. /\ pvCall' = [pvCall EXCEPT ![c] = call] /\ pvCall[c].at = "looking" /\ pvTail' = Append(pvTail, c)
            /\ UNCHANGED <<pvFlight, pvGen>>
        BY <2>1, <3>2 DEF PreviewsQueued
      <4> HIDE DEF call
      <4> QED BY <1>9, <2>0, <4>1, <4>2 DEF CallFits
    <3> QED BY <3>1, <3>2
  <2>2. CASE PreviewStopped(c)
    <3> DEFINE call == [pvCall[c] EXCEPT !.stopped = TRUE]
    <3>1. /\ call \in AnyPreviews /\ call.outs = pvCall[c].outs /\ call.paths = pvCall[c].paths
          /\ call.at = pvCall[c].at
      BY <2>0 DEF AnyPreviews
    <3>2. pvCall' = [pvCall EXCEPT ![c] = call] /\ UNCHANGED <<pvTail, pvFlight, pvGen>>
      BY <2>2 DEF PreviewStopped
    <3> HIDE DEF call
    <3> QED BY <1>9, <2>0, <3>1, <3>2 DEF CallFits
  <2>3. ASSUME NEW paths \in AskedFor, PreviewsAsked(c, paths) PROVE ReadPreviews'
    <3> DEFINE call == [pvCall[c] EXCEPT !.paths = paths, !.at = "looking"]
    <3>1. call \in AnyPreviews /\ call.outs = pvCall[c].outs /\ call.at = "looking"
      BY <2>0 DEF AnyPreviews
    <3>2. pvCall' = [pvCall EXCEPT ![c] = call] /\ UNCHANGED <<pvTail, pvFlight, pvGen>> /\ pvCall[c].at = "none"
      BY <2>3 DEF PreviewsAsked
    <3> HIDE DEF call
    <3> QED BY <1>9, <2>0, <3>1, <3>2 DEF CallFits
  <2> QED BY <1>10, <2>1, <2>2, <2>3
<1> QED BY <1>1, <1>5, <1>6, <1>7, <1>8, <1>10

LEMMA ReadStarts == ReadingInit => RdInv
<1> SUFFICES ASSUME ReadingInit PROVE RdInv
  OBVIOUS
<1>1. ReadPages
  BY DEF ReadingInit, ReadPages, NoCursor, Queries
<1>2. ASSUME NEW c \in ReadCalls PROVE CallFits(c)
  <2>1. /\ pvCall[c].paths = <<>> /\ pvCall[c].outs = <<>> /\ pvCall[c].at = "none" /\ pvCall[c] \in AnyPreviews
        /\ pvTail = <<>>
    BY DEF ReadingInit, AnyPreviews
  <2>2. Len(Requests(c)) \in Nat /\ <<>> \in Seq(Outs) /\ Len(<<>>) = 0
    BY <2>1, RequestsFacts
  <2>3. c \notin InSeq(pvTail)
    BY <2>1 DEF InSeq
  <2> QED BY <2>1, <2>2, <2>3 DEF CallFits, Paired
<1>3. pvCall \in [ReadCalls -> AnyPreviews]
  BY DEF ReadingInit, AnyPreviews
<1> QED BY <1>1, <1>2, <1>3 DEF ReadingInit, RdInv, ReadPreviews, Once

(* Pages and previews keep their invariant in every step.                   *)
THEOREM ReadingInvariance == ReadingInit /\ [][ReadingNext]_readVars => []RdInv
<1>1. ASSUME RdInv, [ReadingNext]_readVars PROVE RdInv'
  <2>1. CASE UNCHANGED readVars
    BY <1>1, <2>1, ReadPagesKeep, ReadPreviewsKeep DEF RdInv, readVars, pageVars, previewVars
  <2>2. CASE ReadingNext
    <3>1. CASE (FirstPage \/ NextPage \/ FolderChanges) /\ UNCHANGED <<arWhat, previewVars>>
      BY <1>1, <3>1, ReadPagesKeep, ReadPreviewsKeep DEF RdInv
    <3>2. CASE /\ \/ \E c \in ReadCalls : \/ PreviewsQueued(c) \/ PreviewTurn(c) \/ PreviewStopped(c)
                                         \/ \E paths \in AskedFor : PreviewsAsked(c, paths)
                  \/ ImageCame \/ ConnectionChanged \/ \E p \in {1, 2} : OldImageCame(p)
               /\ UNCHANGED pageVars
      BY <1>1, <3>2, ReadPagesKeep, ReadPreviewsKeep DEF RdInv
    <3> QED BY <2>2, <3>1, <3>2, Zenon DEF ReadingNext, ReadingProgress
  <2> QED BY <1>1, <2>1, <2>2
<1> QED BY ReadStarts, <1>1, PTL

LEMMA RdInvGives == RdInv => ReadingSafe
<1> SUFFICES ASSUME RdInv PROVE ReadingSafe
  OBVIOUS
<1>0. ReadPages /\ ReadPreviews /\ \A c \in ReadCalls : CallFits(c)
  BY DEF RdInv, ReadPreviews
<1>1. ReadingTypeOK
  BY <1>0 DEF ReadPages, ReadPreviews, CallFits, Paired, InFlight, ReadingTypeOK
<1>2. PagesCover
  <2> SUFFICES ASSUME arSame
               PROVE  /\ IsPrefix(arGot, Matched(arQuery))
                      /\ arCursor.offset = 0 => arGot = Matched(arQuery)
    BY DEF PagesCover
  <2> DEFINE all == Matched(arQuery)
  <2>1. PICK T : all \in Seq(T)
    BY <1>0, MatchedFacts DEF ReadPages
  <2>2. Len(all) \in Nat /\ SubSeq(all, 1, Len(all)) = all /\ \A n \in 0..Len(all) : IsPrefix(SubSeq(all, 1, n), all)
    BY <2>1, WholeFacts
  <2>3. arCursor.offset \in Nat
    BY <1>0 DEF ReadPages
  <2>4. IF arCursor.offset = 0 THEN arGot = all ELSE arCursor.offset < Len(all) /\ arGot = SubSeq(all, 1, arCursor.offset)
    BY <1>0 DEF ReadPages
  <2> HIDE DEF all
  <2>5. CASE arCursor.offset = 0
    <3>1. Len(all) \in 0..Len(all) /\ arGot = SubSeq(all, 1, Len(all))
      BY <2>2, <2>4, <2>5
    <3>2. IsPrefix(SubSeq(all, 1, Len(all)), all)
      BY <2>2, <3>1
    <3>3. IsPrefix(arGot, all) /\ arGot = all
      BY <2>4, <2>5, <3>1, <3>2
    <3> QED BY <3>3 DEF all
  <2>6. CASE arCursor.offset # 0
    <3>1. arCursor.offset \in 0..Len(all)
      BY <2>2, <2>3, <2>4, <2>6
    <3> QED BY <2>2, <2>4, <2>6, <3>1 DEF all
  <2> QED BY <2>5, <2>6
<1>3. PreviewsPaired
  <2> SUFFICES ASSUME NEW c \in ReadCalls, NEW n \in DOMAIN FineOnes(c)
               PROVE  FineOnes(c)[n].path = FineOnes(c)[n].out.image
    BY DEF PreviewsPaired
  <2> DEFINE outs == pvCall[c].outs
             s == [i \in 1..Len(outs) |-> [path |-> Requests(c)[i], out |-> outs[i]]]
             K == {i \in 1..Len(outs) : outs[i].ok}
             T == {s[i] : i \in 1..Len(outs)}
  <2>1. Paired(c, outs) /\ Len(outs) \in Nat
    BY <1>0, LenProperties DEF CallFits, Paired
  <2>2. FineOnes(c) = Picked(s, K)
    BY Zenon DEF FineOnes
  <2>3. /\ \A i \in 1..Len(outs) : s[i].path = Requests(c)[i] /\ s[i].out = outs[i]
        /\ DOMAIN s = 1..Len(outs)
    OBVIOUS
  <2>4. s \in [1..Len(outs) -> T]
    OBVIOUS
  <2> HIDE DEF outs, s, T
  <2>5. s \in Seq(T) /\ Len(s) = Len(outs) /\ K \in SUBSET (1..Len(s))
    BY <2>1, <2>4, SeqDef, LenProperties
  <2> HIDE DEF K
  <2>6. /\ Picked(s, K) \in Seq(T) /\ Len(Picked(s, K)) = Cardinality(K) /\ Cardinality(K) \in Nat
        /\ \E at \in [1..Cardinality(K) -> K] : \A m \in 1..Cardinality(K) : Picked(s, K)[m] = s[at[m]]
    BY <2>5, PickedFacts
  <2>7. n \in 1..Cardinality(K)
    BY <2>2, <2>6, LenProperties
  <2>8. PICK i \in K : FineOnes(c)[n] = s[i]
    BY <2>2, <2>6, <2>7
  <2> QED BY <2>1, <2>3, <2>8 DEF K, Paired
<1>4. NoneForgotten
  <2>1. ToSet(pvTail) = InSeq(pvTail)
    <3>1. DOMAIN pvTail = 1..Len(pvTail)
      BY <1>0, LenProperties DEF ReadPreviews
    <3> QED BY <3>1 DEF ToSet, InSeq
  <2> QED BY <1>0, <2>1 DEF CallFits, NoneForgotten
<1> QED BY <1>1, <1>2, <1>3, <1>4 DEF ReadingSafe

(* Pages of an unchanged folder cover it, and images go with their names.   *)
THEOREM ReadingIsSafe == ReadingInit /\ [][ReadingNext]_readVars => []ReadingSafe
BY ReadingInvariance, RdInvGives, PTL

-----------------------------------------------------------------------------
(* The command line (CommandLine).  The words of a line are read one by one. *)
ReadOver(f, s) == f[0] = NothingRead /\ \A n \in 1..Len(s) : f[n] = WordRead(f[n - 1], s[n])

LEMMA ReadsExist ==
  ASSUME NEW s, Len(s) \in Nat
  PROVE  \E f : f = [n \in 0..Len(s) |-> f[n]] /\ ReadOver(f, s)
<1> DEFINE Begun(m, f) == f[0] = NothingRead /\ \A n \in 1..m : f[n] = WordRead(f[n - 1], s[n])
           Good(m) == \E f : f = [n \in 0..m |-> f[n]] /\ Begun(m, f)
           T == {m \in 0..Len(s) : ~Good(m)}
<1>2. Good(0)
  <2> DEFINE g == [n \in 0..0 |-> NothingRead]
  <2> HIDE DEF NothingRead
  <2>1. g = [n \in 0..0 |-> g[n]] /\ Begun(0, g)
    OBVIOUS
  <2> HIDE DEF g, Begun
  <2> QED BY <2>1
<1>3. ASSUME NEW x \in 1..Len(s), Good(x - 1) PROVE Good(x)
  <2>1. PICK f : f = [n \in 0..(x - 1) |-> f[n]] /\ Begun(x - 1, f)
    BY <1>3
  <2>5. f[0] = NothingRead /\ \A n \in 1..(x - 1) : f[n] = WordRead(f[n - 1], s[n])
    BY <2>1
  <2> DEFINE g == [n \in 0..x |-> IF n = x THEN WordRead(f[x - 1], s[x]) ELSE f[n]]
  <2>2. \A n \in 0..x : g[n] = IF n = x THEN WordRead(f[x - 1], s[x]) ELSE f[n]
    OBVIOUS
  <2>3. g = [n \in 0..x |-> g[n]]
    OBVIOUS
  <2> HIDE DEF g
  <2>4. Begun(x, g)
    <3>1. g[0] = NothingRead
      BY <2>5, <2>2
    <3>2. ASSUME NEW n \in 1..x PROVE g[n] = WordRead(g[n - 1], s[n])
      <4>1. g[n - 1] = f[n - 1]
        BY <2>2
      <4>2. CASE n = x
        BY <2>2, <4>1, <4>2
      <4>3. CASE n # x
        BY <2>5, <2>2, <4>1, <4>3
      <4> QED BY <4>2, <4>3
    <3> QED BY <3>1, <3>2
  <2> HIDE DEF Begun
  <2> QED BY <2>3, <2>4
<1> HIDE DEF Good
<1>4. ASSUME T # {} PROVE FALSE
  <2>1. T \subseteq Nat
    OBVIOUS
  <2> HIDE DEF T
  <2>2. PICK x \in T : \A y \in T : x <= y
    BY <1>4, <2>1, LeastOf
  <2> USE DEF T
  <2>3. x \in 1..Len(s) /\ ~Good(x)
    BY <1>2, <2>2
  <2>4. x - 1 \in 0..Len(s) /\ x - 1 \notin T
    BY <2>2, <2>3
  <2> QED BY <1>3, <2>3, <2>4
<1>5. Good(Len(s))
  BY <1>4
<1> QED BY <1>5 DEF Good, ReadOver

LEMMA ReadsFacts ==
  ASSUME NEW s, Len(s) \in Nat
  PROVE  ReadOver(WordsRead(s), s)
<1>1. PICK f : f = [n \in 0..Len(s) |-> f[n]] /\ ReadOver(f, s)
  BY ReadsExist
<1> DEFINE Then(h) == [n \in 0..Len(s) |-> IF n = 0 THEN NothingRead ELSE WordRead(h[n - 1], s[n])]
<1>3. f = Then(f)
  BY <1>1 DEF ReadOver
<1>4. WordsRead(s) = CHOOSE h : h = Then(h)
  BY Zenon DEF WordsRead
<1> HIDE DEF Then
<1>5. WordsRead(s) = Then(WordsRead(s))
  BY <1>3, <1>4, Zenon
<1>6. PICK g : g = WordsRead(s)
  OBVIOUS
<1>7. g = Then(g)
  BY <1>5, <1>6, Zenon
<1>8. ReadOver(g, s)
  <2>1. \A n \in 0..Len(s) : g[n] = IF n = 0 THEN NothingRead ELSE WordRead(g[n - 1], s[n])
    BY <1>7 DEF Then
  <2> QED BY <2>1 DEF ReadOver
<1> QED BY <1>6, <1>8

-----------------------------------------------------------------------------
(* Words.                                                                  *)

LEMMA SchemaFacts ==
  /\ Params = {"limit", "server", "path", "paths", "overwrite"}
  /\ Schema["limit"] = {"integer"} /\ Schema["server"] = {"integer", "string"} /\ Schema["path"] = {"string"}
  /\ Schema["paths"] = {"array"} /\ Schema["overwrite"] = {"boolean"}
<1>1. Params = {"limit", "server", "path", "paths", "overwrite"}
  BY DEF Params, Schema
<1> QED BY <1>1 DEF Schema

LEMMA TextFacts ==
  ASSUME NEW w \in Texts
  PROVE  /\ w.flag = "" /\ w.reads \in {"integer", "none", "boolean", "array", "object"}
         /\ w.reads = "array" <=> w = Two
         /\ w.reads = "boolean" => w.text = "true"
         /\ ~Inline(w)
<1>1. /\ Seven.flag = "" /\ Seven.reads = "integer" /\ Plain.flag = "" /\ Plain.reads = "none"
      /\ Yes.flag = "" /\ Yes.reads = "boolean" /\ Yes.text = "true"
      /\ Two.flag = "" /\ Two.reads = "array" /\ Object.flag = "" /\ Object.reads = "object"
  BY DEF Seven, Plain, Yes, Two, Object, Text
<1>2. w \in {Seven, Plain, Yes, Two, Object}
  BY DEF Texts
<1> QED BY <1>1, <1>2 DEF Inline

LEMMA WordFacts ==
  ASSUME NEW w \in Words
  PROVE  /\ w.flag = "" => w \in Texts
         /\ w.flag # "" => w.flag \in Params \cup {"args", "no-overwrite", "unknown"}
         /\ Inline(w) => /\ w.flag \in {"server", "overwrite"} /\ w.reads \in {"integer", "boolean"}
                         /\ w.reads = "boolean" => w.text = "true"
<1> DEFINE Flags == {Flag(p) : p \in Params \union {"args", "no-overwrite", "unknown"}}
           Both == {[flag |-> p, text |-> v.text, reads |-> v.reads] : p \in {"server", "overwrite"}, v \in {Seven, Yes}}
<1>0. Words = (Texts \union Flags) \union Both
  BY DEF Words, Flags, Both
<1>1. CASE w \in Texts
  BY <1>1, TextFacts
<1>2. CASE w \in Flags
  <2>1. PICK p \in Params \union {"args", "no-overwrite", "unknown"} : w = Flag(p)
    BY <1>2
  <2>2. w.flag = p /\ w.text = ""
    BY <2>1 DEF Flag
  <2>3. p # ""
    BY <2>1, SchemaFacts
  <2> QED BY <2>1, <2>2, <2>3 DEF Inline
<1>3. CASE w \in Both
  <2>1. PICK p \in {"server", "overwrite"}, v \in {Seven, Yes} : w = [flag |-> p, text |-> v.text, reads |-> v.reads]
    BY <1>3
  <2>2. w.flag = p /\ w.text = v.text /\ w.reads = v.reads
    BY <2>1
  <2>3. v.reads \in {"integer", "boolean"} /\ (v.reads = "boolean" => v.text = "true")
    <3>1. Seven.reads = "integer" /\ Yes.reads = "boolean" /\ Yes.text = "true"
      BY DEF Seven, Yes, Text
    <3> QED BY <2>1, <3>1
  <2>4. p # "" /\ p \in Params
    BY <2>1, SchemaFacts
  <2> QED BY <2>1, <2>2, <2>3, <2>4
<1> HIDE DEF Flags, Both
<1> QED BY <1>0, <1>1, <1>2, <1>3

-----------------------------------------------------------------------------
(* The state of the reader.                                                *)
ArgsOf(st) == st.args
BaseOf(st) == st.base
OpenOf(st) == st.open
ErrorOf(st) == st.error
IsState(st) == DOMAIN st = {"base", "args", "open", "error"} /\ ErrorOf(st) \in BOOLEAN /\ BaseOf(st) \in BOOLEAN

WithValue(args, p, v) == [q \in DOMAIN args \union {p} |-> IF q = p THEN v ELSE args[q]]

LEMMA GivenFacts ==
  ASSUME NEW st, IsState(st), NEW p, NEW v
  PROVE  /\ IsState(Given(st, p, v)) /\ ArgsOf(Given(st, p, v)) = WithValue(ArgsOf(st), p, v) /\ OpenOf(Given(st, p, v)) = ""
         /\ BaseOf(Given(st, p, v)) = BaseOf(st) /\ ErrorOf(Given(st, p, v)) = ErrorOf(st)
<1> DEFINE a == WithValue(ArgsOf(st), p, v)
           g == Given(st, p, v)
<1>1. g = [st EXCEPT !.args = a, !.open = ""]
  BY Zenon DEF Given, WithValue, ArgsOf
<1> HIDE DEF a, g
<1>2. IsState(g) /\ ArgsOf(g) = a /\ OpenOf(g) = "" /\ BaseOf(g) = BaseOf(st) /\ ErrorOf(g) = ErrorOf(st)
  BY <1>1 DEF IsState, ArgsOf, BaseOf, OpenOf, ErrorOf
<1> QED BY <1>2, Zenon DEF a, g

LEMMA WrongFacts ==
  ASSUME NEW st, IsState(st)
  PROVE  IsState(Wrong(st)) /\ ErrorOf(Wrong(st)) = TRUE
BY DEF Wrong, IsState, ErrorOf, BaseOf

Opened(st, p) == [st EXCEPT !.open = p]
Based(st) == [st EXCEPT !.base = TRUE, !.open = ""]

LEMMA OpenedFacts ==
  ASSUME NEW st, IsState(st), NEW p
  PROVE  /\ IsState(Opened(st, p)) /\ ArgsOf(Opened(st, p)) = ArgsOf(st) /\ OpenOf(Opened(st, p)) = p
         /\ BaseOf(Opened(st, p)) = BaseOf(st) /\ ErrorOf(Opened(st, p)) = ErrorOf(st)
BY DEF IsState, ArgsOf, BaseOf, OpenOf, ErrorOf, Opened

LEMMA BasedFacts ==
  ASSUME NEW st, IsState(st)
  PROVE  /\ IsState(Based(st)) /\ ArgsOf(Based(st)) = ArgsOf(st) /\ OpenOf(Based(st)) = "" /\ BaseOf(Based(st)) = TRUE
         /\ ErrorOf(Based(st)) = ErrorOf(st)
BY DEF IsState, ArgsOf, BaseOf, OpenOf, ErrorOf, Based

(* WordRead(), case by case.                                               *)
LEMMA WordReadIs ==
  ASSUME NEW st, ErrorOf(st) = FALSE, NEW w
  PROVE  /\ w.flag # "" /\ OpenOf(st) \in {"", "maybe"} => WordRead(st, w) = FlagRead(Opened(st, ""), w)
         /\ w.flag = "" /\ w = Yes /\ OpenOf(st) = "maybe" => WordRead(st, w) = Given(st, "overwrite", Yields(TRUE))
         /\ w.flag = "" /\ OpenOf(st) \notin {"", "maybe"} => WordRead(st, w) = Takes(st, OpenOf(st), w)
         /\ ~(w.flag # "" /\ OpenOf(st) \in {"", "maybe"}) /\ ~(w = Yes /\ OpenOf(st) = "maybe")
            /\ ~(w.flag = "" /\ OpenOf(st) \notin {"", "maybe"}) => WordRead(st, w) = Wrong(st)
<1> DEFINE a == FlagRead([st EXCEPT !.open = ""], w)
           b == Given(st, "overwrite", Yields(TRUE))
           c == Takes(st, OpenOf(st), w)
           d == Wrong(st)
<1>1. WordRead(st, w) = CASE w.flag # "" /\ OpenOf(st) \in {"", "maybe"} -> a
                          [] w = Yes /\ OpenOf(st) = "maybe" -> b
                          [] w.flag = "" /\ OpenOf(st) \notin {"", "maybe"} -> c
                          [] OTHER -> d
  BY Zenon DEF WordRead, OpenOf, ErrorOf
<1>2. a = FlagRead(Opened(st, ""), w)
  BY Zenon DEF Opened
<1> HIDE DEF a, b, c, d
<1> DEFINE r == WordRead(st, w)
<1> HIDE DEF r
<1>3. r = CASE w.flag # "" /\ OpenOf(st) \in {"", "maybe"} -> a
                          [] w = Yes /\ OpenOf(st) = "maybe" -> b
                          [] w.flag = "" /\ OpenOf(st) \notin {"", "maybe"} -> c
                          [] OTHER -> d
  BY <1>1, Zenon DEF r
<1>4. w.flag # "" /\ OpenOf(st) \in {"", "maybe"} => r = a
  <2>1. ASSUME w.flag # "", OpenOf(st) \in {"", "maybe"} PROVE w # Yes
    <3>1. Yes.flag = ""
      BY DEF Yes, Text
    <3> QED BY <2>1, <3>1
  <2> QED BY <1>3, <2>1
<1>5. w.flag = "" /\ w = Yes /\ OpenOf(st) = "maybe" => r = b
  BY <1>3
<1>6. w.flag = "" /\ OpenOf(st) \notin {"", "maybe"} => r = c
  BY <1>3
<1>7. ~(w.flag # "" /\ OpenOf(st) \in {"", "maybe"}) /\ ~(w = Yes /\ OpenOf(st) = "maybe")
         /\ ~(w.flag = "" /\ OpenOf(st) \notin {"", "maybe"}) => r = d
  BY <1>3
<1> QED BY <1>2, <1>4, <1>5, <1>6, <1>7, Zenon DEF r, b, c, d

LEMMA FlagReadIs ==
  ASSUME NEW st, NEW w
  PROVE  /\ w.flag = "no-overwrite" /\ ~Inline(w) => FlagRead(st, w) = Given(st, "overwrite", Yields(FALSE))
         /\ w.flag = "unknown" /\ ~Inline(w) => FlagRead(st, w) = Wrong(st)
         /\ w.flag \notin {"no-overwrite", "unknown"} /\ Inline(w) => FlagRead(st, w) = Takes(st, w.flag, w)
         /\ w.flag = "overwrite" /\ ~Inline(w)
              => FlagRead(st, w) = Opened(Given(st, "overwrite", Yields(TRUE)), "maybe")
         /\ w.flag \notin {"no-overwrite", "unknown", "overwrite"} /\ ~Inline(w) => FlagRead(st, w) = Opened(st, w.flag)
<1> DEFINE a == Given(st, "overwrite", Yields(FALSE))
           b == Wrong(st)
           c == Takes(st, w.flag, w)
           d == [Given(st, "overwrite", Yields(TRUE)) EXCEPT !.open = "maybe"]
           e == [st EXCEPT !.open = w.flag]
           r == FlagRead(st, w)
           i == Inline(w)
<1>1. r = CASE w.flag = "no-overwrite" -> a
            [] w.flag = "unknown" -> b
            [] i -> c
            [] w.flag = "overwrite" /\ ~i -> d
            [] OTHER -> e
  BY Zenon DEF FlagRead
<1>2. d = Opened(Given(st, "overwrite", Yields(TRUE)), "maybe") /\ e = Opened(st, w.flag)
  BY Zenon DEF Opened
<1>3. i \in BOOLEAN
  BY DEF Inline
<1> HIDE DEF a, b, c, d, e, r, i
<1>4. w.flag = "no-overwrite" /\ ~i => r = a
  BY <1>1, <1>3
<1>5. w.flag = "unknown" /\ ~i => r = b
  BY <1>1, <1>3
<1>6. w.flag \notin {"no-overwrite", "unknown"} /\ i => r = c
  BY <1>1, <1>3
<1>7. w.flag = "overwrite" /\ ~i => r = d
  BY <1>1, <1>3
<1>8. w.flag \notin {"no-overwrite", "unknown", "overwrite"} /\ ~i => r = e
  BY <1>1, <1>3
<1> QED BY <1>2, <1>4, <1>5, <1>6, <1>7, <1>8, Zenon DEF a, b, c, r, i

LEMMA NothingReadFacts ==
  /\ IsState(NothingRead) /\ ErrorOf(NothingRead) = FALSE /\ BaseOf(NothingRead) = FALSE /\ OpenOf(NothingRead) = ""
  /\ ArgsOf(NothingRead) = <<>> /\ DOMAIN ArgsOf(NothingRead) = {}
<1>1. ArgsOf(NothingRead) = <<>> /\ DOMAIN <<>> = {}
  BY DEF NothingRead, ArgsOf
<1> QED BY <1>1 DEF NothingRead, BaseOf, OpenOf, ErrorOf, IsState

(* convert().                                                              *)
LEMMA ConvertFacts ==
  ASSUME NEW p \in Params, NEW w, Converted(Schema[p], w) # Bad
  PROVE  LET v == Converted(Schema[p], w) IN
         /\ v.text = w.text /\ v.as \in Schema[p]
         /\ p = "overwrite" => v = Value("boolean", w.text) /\ w.reads = "boolean"
<1>1. CASE w.reads \in Schema[p]
  <2>1. Converted(Schema[p], w) = Value(w.reads, w.text)
    BY <1>1 DEF Converted
  <2>2. Value(w.reads, w.text).text = w.text /\ Value(w.reads, w.text).as = w.reads
    BY DEF Value
  <2>3. p = "overwrite" => w.reads = "boolean"
    BY <1>1, SchemaFacts
  <2> QED BY <1>1, <2>1, <2>2, <2>3
<1>2. CASE w.reads \notin Schema[p]
  <2>1. "string" \in Schema[p] /\ Converted(Schema[p], w) = Value("string", w.text)
    BY <1>2 DEF Converted
  <2>2. Value("string", w.text).text = w.text /\ Value("string", w.text).as = "string"
    BY DEF Value
  <2>3. p # "overwrite"
    BY <2>1, SchemaFacts
  <2> QED BY <2>1, <2>2, <2>3
<1> QED BY <1>1, <1>2

-----------------------------------------------------------------------------
(* What is open after n words: the last one, a flag without its value.      *)
OpenIs(n, st) ==
  /\ OpenOf(st) \in {"", "maybe", "args"} \cup (Params \ {"overwrite"})
  /\ OpenOf(st) = "maybe" <=> n > 0 /\ lnArgv[n].flag = "overwrite" /\ ~Inline(lnArgv[n])
  /\ \A p \in (Params \ {"overwrite"}) \cup {"args"} :
       OpenOf(st) = p <=> n > 0 /\ lnArgv[n].flag = p /\ ~Inline(lnArgv[n])

(* What the value at i gives for p.                                         *)
Fits(p, i, v) ==
  IF p = "overwrite" THEN v = Yields(lnArgv[i].flag # "no-overwrite")
  ELSE v.text = lnArgv[i].text /\ v.as \in Schema[p]

ItemsSoFar(args) == IF "paths" \in DOMAIN args THEN args["paths"] ELSE <<>>

Effect(n, st, st2) ==
  \/ (\A p \in Params \cup {"args"} : ~ValueAt(p, n + 1)) /\ ArgsOf(st2) = ArgsOf(st) /\ BaseOf(st2) = BaseOf(st)
  \/ \E q \in Params \ {"paths"} : \E v :
       /\ \A p \in Params \cup {"args"} : ValueAt(p, n + 1) <=> p = q
       /\ Fits(q, n + 1, v) /\ ArgsOf(st2) = WithValue(ArgsOf(st), q, v) /\ BaseOf(st2) = BaseOf(st)
  \/ /\ \A p \in Params \cup {"args"} : ValueAt(p, n + 1) <=> p = "args"
     /\ ArgsOf(st2) = ArgsOf(st) /\ BaseOf(st2) = TRUE
  \/ /\ \A p \in Params \cup {"args"} : ValueAt(p, n + 1) <=> p = "paths"
     /\ lnArgv[n + 1].flag = "" /\ BaseOf(st2) = BaseOf(st)
     /\ ArgsOf(st2) = WithValue(ArgsOf(st), "paths", ItemsSoFar(ArgsOf(st)) \o Items(lnArgv[n + 1]))

LEMMA ValueAtFacts ==
  ASSUME NEW n \in Nat, lnArgv[n + 1] \in Words, NEW st, OpenIs(n, st), NEW p \in Params \cup {"args"}
  PROVE  LET w == lnArgv[n + 1] IN
         ValueAt(p, n + 1) <=> \/ w.flag = p /\ (Inline(w) \/ p = "overwrite")
                               \/ p = "overwrite" /\ w.flag = "no-overwrite"
                               \/ w.flag = "" /\ (IF p = "overwrite" THEN OpenOf(st) = "maybe" ELSE OpenOf(st) = p)
<1> DEFINE w == lnArgv[n + 1]
<1>1. n + 1 > 1 <=> n > 0
  OBVIOUS
<1>2. (n + 1) - 1 = n
  OBVIOUS
<1>3. ValueAt(p, n + 1) <=>
           \/ w.flag = p /\ (Inline(w) \/ p = "overwrite")
           \/ p = "overwrite" /\ w.flag = "no-overwrite"
           \/ n > 0 /\ w.flag = "" /\ lnArgv[n].flag = p /\ ~Inline(lnArgv[n])
  BY <1>1, <1>2 DEF ValueAt
<1> HIDE DEF w
<1>4. (n > 0 /\ lnArgv[n].flag = p /\ ~Inline(lnArgv[n])) <=> (IF p = "overwrite" THEN OpenOf(st) = "maybe" ELSE OpenOf(st) = p)
  <2> HIDE DEF Inline, Params
  <2> QED BY DEF OpenIs
<1> QED BY <1>3, <1>4 DEF w

LEMMA OverwriteIs ==
  /\ Value("boolean", "true") = Yields(TRUE)
BY DEF Yields

LEMMA WordEffect ==
  ASSUME NEW n \in Nat, lnArgv[n + 1] \in Words, NEW st, IsState(st), ErrorOf(st) = FALSE, OpenIs(n, st),
         NEW st2, st2 = WordRead(st, lnArgv[n + 1]), ErrorOf(st2) = FALSE
  PROVE  IsState(st2) /\ OpenIs(n + 1, st2) /\ Effect(n, st, st2)
<1> DEFINE w == lnArgv[n + 1]
           st0 == Opened(st, "")
<1>0. \A p \in Params \cup {"args"} :
         ValueAt(p, n + 1) <=> \/ w.flag = p /\ (Inline(w) \/ p = "overwrite")
                               \/ p = "overwrite" /\ w.flag = "no-overwrite"
                               \/ w.flag = "" /\ (IF p = "overwrite" THEN OpenOf(st) = "maybe" ELSE OpenOf(st) = p)
  BY ValueAtFacts
<1>w. /\ w.flag = "" => w \in Texts /\ ~Inline(w)
      /\ w.flag # "" => w.flag \in Params \cup {"args", "no-overwrite", "unknown"}
      /\ Inline(w) => /\ w.flag \in {"server", "overwrite"} /\ w.reads \in {"integer", "boolean"}
                      /\ w.reads = "boolean" => w.text = "true"
  BY WordFacts, TextFacts
<1>p. Params = {"limit", "server", "path", "paths", "overwrite"}
  BY SchemaFacts
<1>s. IsState(st0) /\ ArgsOf(st0) = ArgsOf(st) /\ OpenOf(st0) = "" /\ BaseOf(st0) = BaseOf(st) /\ ErrorOf(st0) = FALSE
  BY OpenedFacts
<1>o. /\ n + 1 > 0
      /\ \A g : OpenIs(n + 1, g) <=>
           /\ OpenOf(g) \in {"", "maybe", "args"} \cup (Params \ {"overwrite"})
           /\ OpenOf(g) = "maybe" <=> w.flag = "overwrite" /\ ~Inline(w)
           /\ \A p \in (Params \ {"overwrite"}) \cup {"args"} : OpenOf(g) = p <=> w.flag = p /\ ~Inline(w)
  <2>1. n + 1 > 0
    OBVIOUS
  <2> HIDE DEF Inline, Params
  <2> QED BY <2>1 DEF OpenIs
<1>f. \A q, v : Fits(q, n + 1, v) <=> IF q = "overwrite" THEN v = Yields(w.flag # "no-overwrite")
                                      ELSE v.text = w.text /\ v.as \in Schema[q]
  BY DEF Fits
<1>e. ASSUME NEW p, NEW g, IsState(g), Takes(g, p, w) = st2, p \in Params \ {"paths"}, ArgsOf(g) = ArgsOf(st), BaseOf(g) = BaseOf(st)
      PROVE  LET v == Converted(Schema[p], w) IN
             /\ v.text = w.text /\ v.as \in Schema[p]
             /\ p = "overwrite" => v = Value("boolean", w.text) /\ w.reads = "boolean"
             /\ IsState(st2) /\ ArgsOf(st2) = WithValue(ArgsOf(st), p, v) /\ BaseOf(st2) = BaseOf(st) /\ OpenOf(st2) = ""
  <2>1. st2 = IF Converted(Schema[p], w) = Bad THEN Wrong(g) ELSE Given(g, p, Converted(Schema[p], w))
    BY <1>e, <1>p DEF Takes
  <2>2. Converted(Schema[p], w) # Bad
    BY <2>1, <1>e, WrongFacts
  <2>4. p \in Params
    BY <1>e
  <2> DEFINE v == Converted(Schema[p], w)
  <2>3. st2 = Given(g, p, v)
    BY <2>1, <2>2
  <2>5. /\ v.text = w.text /\ v.as \in Schema[p]
        /\ p = "overwrite" => v = Value("boolean", w.text) /\ w.reads = "boolean"
    BY <2>2, <2>4, ConvertFacts
  <2> HIDE DEF v
  <2>6. IsState(st2) /\ ArgsOf(st2) = WithValue(ArgsOf(st), p, v) /\ BaseOf(st2) = BaseOf(st) /\ OpenOf(st2) = ""
    <3>1. IsState(st2) /\ ArgsOf(st2) = WithValue(ArgsOf(g), p, v) /\ BaseOf(st2) = BaseOf(g) /\ OpenOf(st2) = ""
      BY <1>e, <2>3, GivenFacts, Zenon
    <3> QED BY <1>e, <3>1, Zenon
  <2> QED BY <2>5, <2>6 DEF v
<1> HIDE DEF w, st0
<1>1. CASE w.flag # "" /\ OpenOf(st) \in {"", "maybe"}
  <2>0. st2 = FlagRead(st0, w)
    BY <1>1, WordReadIs DEF w, st0
  <2>1. CASE w.flag = "no-overwrite"
    <3>1. st2 = Given(st0, "overwrite", Yields(FALSE))
      BY <1>w, <2>0, <2>1, FlagReadIs
    <3>2. /\ IsState(st2) /\ ArgsOf(st2) = WithValue(ArgsOf(st), "overwrite", Yields(FALSE)) /\ OpenOf(st2) = "" /\ BaseOf(st2) = BaseOf(st)
      <4> DEFINE p == "overwrite"
                 v == Yields(FALSE)
      <4>1. st2 = Given(st0, p, v)
        BY <3>1
      <4> HIDE DEF p, v
      <4>3. IsState(st2) /\ ArgsOf(st2) = WithValue(ArgsOf(st0), p, v) /\ OpenOf(st2) = "" /\ BaseOf(st2) = BaseOf(st0)
        BY <1>s, <4>1, GivenFacts, Zenon
      <4>2. IsState(st2) /\ ArgsOf(st2) = WithValue(ArgsOf(st), p, v) /\ OpenOf(st2) = "" /\ BaseOf(st2) = BaseOf(st)
        BY <1>s, <4>3, Zenon
      <4> QED BY <4>2, Zenon DEF p, v
    <3>3. OpenIs(n + 1, st2)
      BY <1>o, <1>p, <2>1, <3>2
    <3>4. \A p \in Params \cup {"args"} : ValueAt(p, n + 1) <=> p = "overwrite"
      BY <1>0, <1>1, <1>p, <2>1
    <3>5. Fits("overwrite", n + 1, Yields(FALSE)) /\ "overwrite" \in Params \ {"paths"}
      BY <1>f, <1>p, <2>1
    <3> QED BY <3>2, <3>3, <3>4, <3>5 DEF Effect
  <2>2. CASE w.flag = "unknown"
    <3>1. st2 = Wrong(st0)
      BY <1>w, <2>0, <2>2, FlagReadIs
    <3> QED BY <1>s, <3>1, WrongFacts
  <2>3. CASE Inline(w)
    <3>1. st2 = Takes(st0, w.flag, w) /\ w.flag \in Params \ {"paths"}
      BY <1>w, <1>p, <2>0, <2>3, FlagReadIs
    <3> DEFINE v == Converted(Schema[w.flag], w)
    <3>2. /\ v.text = w.text /\ v.as \in Schema[w.flag]
          /\ w.flag = "overwrite" => v = Value("boolean", w.text) /\ w.reads = "boolean"
          /\ IsState(st2) /\ ArgsOf(st2) = WithValue(ArgsOf(st), w.flag, v) /\ BaseOf(st2) = BaseOf(st) /\ OpenOf(st2) = ""
      BY <1>e, <1>s, <3>1
    <3> HIDE DEF v
    <3>3. OpenIs(n + 1, st2)
      BY <1>o, <1>p, <2>3, <3>2
    <3>4. \A p \in Params \cup {"args"} : ValueAt(p, n + 1) <=> p = w.flag
      BY <1>0, <1>1, <1>p, <1>w, <2>3
    <3>5. Fits(w.flag, n + 1, v)
      <4>1. w.flag = "overwrite" => v = Yields(TRUE)
        BY <1>w, <2>3, <3>2, OverwriteIs
      <4> QED BY <1>f, <3>2, <4>1
    <3> QED BY <3>1, <3>2, <3>3, <3>4, <3>5 DEF Effect
  <2>4. CASE w.flag = "overwrite" /\ ~Inline(w)
    <3> DEFINE g == Given(st0, "overwrite", Yields(TRUE))
    <3>1. st2 = Opened(g, "maybe")
      BY <2>0, <2>4, FlagReadIs
    <3>2. IsState(g) /\ ArgsOf(g) = WithValue(ArgsOf(st), "overwrite", Yields(TRUE)) /\ BaseOf(g) = BaseOf(st)
      <4> DEFINE p == "overwrite"
                 v == Yields(TRUE)
      <4>1. g = Given(st0, p, v)
        OBVIOUS
      <4> HIDE DEF p, v, g
      <4>3. IsState(g) /\ ArgsOf(g) = WithValue(ArgsOf(st0), p, v) /\ BaseOf(g) = BaseOf(st0)
        BY <1>s, <4>1, GivenFacts, Zenon
      <4>2. IsState(g) /\ ArgsOf(g) = WithValue(ArgsOf(st), p, v) /\ BaseOf(g) = BaseOf(st)
        BY <1>s, <4>3, Zenon
      <4> QED BY <4>2, Zenon DEF p, v
    <3> HIDE DEF g
    <3>3. IsState(st2) /\ ArgsOf(st2) = WithValue(ArgsOf(st), "overwrite", Yields(TRUE)) /\ BaseOf(st2) = BaseOf(st) /\ OpenOf(st2) = "maybe"
      <4> DEFINE o == "maybe"
      <4>1. st2 = Opened(g, o)
        BY <3>1
      <4> HIDE DEF o
      <4>2. IsState(st2) /\ ArgsOf(st2) = ArgsOf(g) /\ BaseOf(st2) = BaseOf(g) /\ OpenOf(st2) = o
        BY <3>2, <4>1, OpenedFacts
      <4> QED BY <3>2, <4>2, Zenon DEF o
    <3>4. OpenIs(n + 1, st2)
      BY <1>o, <1>p, <2>4, <3>3
    <3>5. \A p \in Params \cup {"args"} : ValueAt(p, n + 1) <=> p = "overwrite"
      BY <1>0, <1>1, <1>p, <2>4
    <3>6. Fits("overwrite", n + 1, Yields(TRUE)) /\ "overwrite" \in Params \ {"paths"}
      BY <1>f, <1>p, <2>4
    <3> QED BY <3>3, <3>4, <3>5, <3>6 DEF Effect
  <2>5. CASE w.flag \notin {"no-overwrite", "unknown", "overwrite"} /\ ~Inline(w)
    <3>1. st2 = Opened(st0, w.flag)
      BY <2>0, <2>5, FlagReadIs
    <3>2. IsState(st2) /\ ArgsOf(st2) = ArgsOf(st) /\ BaseOf(st2) = BaseOf(st) /\ OpenOf(st2) = w.flag
      <4> DEFINE o == w.flag
      <4>1. st2 = Opened(st0, o)
        BY <3>1
      <4> HIDE DEF o
      <4>2. IsState(st2) /\ ArgsOf(st2) = ArgsOf(st0) /\ BaseOf(st2) = BaseOf(st0) /\ OpenOf(st2) = o
        BY <1>s, <4>1, OpenedFacts
      <4> QED BY <1>s, <4>2, Zenon DEF o
    <3>3. OpenIs(n + 1, st2)
      BY <1>1, <1>o, <1>p, <1>w, <2>5, <3>2
    <3>4. \A p \in Params \cup {"args"} : ~ValueAt(p, n + 1)
      BY <1>0, <1>1, <1>p, <2>5
    <3> QED BY <3>2, <3>3, <3>4 DEF Effect
  <2> QED BY <2>1, <2>2, <2>3, <2>4, <2>5
<1>2. CASE w = Yes /\ OpenOf(st) = "maybe"
  <2>1. w.flag = "" /\ w \in Texts
    BY <1>2, TextFacts DEF Texts
  <2>2. st2 = Given(st, "overwrite", Yields(TRUE))
    BY <1>2, <2>1, WordReadIs DEF w
  <2>3. IsState(st2) /\ ArgsOf(st2) = WithValue(ArgsOf(st), "overwrite", Yields(TRUE)) /\ BaseOf(st2) = BaseOf(st) /\ OpenOf(st2) = ""
    <3> DEFINE p == "overwrite"
               v == Yields(TRUE)
    <3>1. st2 = Given(st, p, v)
      BY <2>2
    <3> HIDE DEF p, v
    <3>2. IsState(st2) /\ ArgsOf(st2) = WithValue(ArgsOf(st), p, v) /\ OpenOf(st2) = "" /\ BaseOf(st2) = BaseOf(st)
      BY <3>1, GivenFacts, Zenon
    <3> QED BY <3>2, Zenon DEF p, v
  <2>4. OpenIs(n + 1, st2)
    BY <1>o, <1>p, <2>1, <2>3
  <2>5. \A p \in Params \cup {"args"} : ValueAt(p, n + 1) <=> p = "overwrite"
    BY <1>0, <1>2, <1>p, <2>1
  <2>6. Fits("overwrite", n + 1, Yields(TRUE)) /\ "overwrite" \in Params \ {"paths"}
    BY <1>f, <1>p, <2>1
  <2> QED BY <2>3, <2>4, <2>5, <2>6 DEF Effect
<1>3. CASE w.flag = "" /\ OpenOf(st) \notin {"", "maybe"}
  <2>0. st2 = Takes(st, OpenOf(st), w) /\ OpenOf(st) \in {"args"} \cup (Params \ {"overwrite"})
    BY <1>3, WordReadIs DEF w, OpenIs
  <2>1. \A p \in Params \cup {"args"} : ValueAt(p, n + 1) <=> p = OpenOf(st)
    BY <1>0, <1>3, <1>p, <1>w, <2>0
  <2>2. ASSUME OpenOf(st2) = "" PROVE OpenIs(n + 1, st2)
    BY <1>3, <1>o, <1>p, <2>2
  <2>3. CASE OpenOf(st) = "args"
    <3>1. st2 = IF w = Object THEN Based(st) ELSE Wrong(st)
      BY <2>0, <2>3, Zenon DEF Takes, Based
    <3>2. st2 = Based(st)
      BY <3>1, WrongFacts
    <3>3. IsState(st2) /\ ArgsOf(st2) = ArgsOf(st) /\ BaseOf(st2) = TRUE /\ OpenOf(st2) = ""
      BY <3>2, BasedFacts
    <3> QED BY <2>1, <2>2, <2>3, <3>3 DEF Effect
  <2>4. CASE OpenOf(st) = "paths"
    <3>1. st2 = Given(st, "paths", ItemsSoFar(ArgsOf(st)) \o Items(w))
      BY <2>0, <2>4, Zenon DEF Takes, ItemsGiven, ItemsSoFar, ArgsOf
    <3>2. IsState(st2) /\ ArgsOf(st2) = WithValue(ArgsOf(st), "paths", ItemsSoFar(ArgsOf(st)) \o Items(w)) /\ BaseOf(st2) = BaseOf(st)
          /\ OpenOf(st2) = ""
      <4> DEFINE p == "paths"
                 v == ItemsSoFar(ArgsOf(st)) \o Items(w)
      <4>1. st2 = Given(st, p, v)
        BY <3>1
      <4> HIDE DEF p, v
      <4>2. IsState(st2) /\ ArgsOf(st2) = WithValue(ArgsOf(st), p, v) /\ OpenOf(st2) = "" /\ BaseOf(st2) = BaseOf(st)
        BY <4>1, GivenFacts, Zenon
      <4> QED BY <4>2, Zenon DEF p, v
    <3> QED BY <1>3, <2>1, <2>2, <2>4, <3>2 DEF Effect, w
  <2>5. CASE OpenOf(st) \notin {"args", "paths"}
    <3> DEFINE v == Converted(Schema[OpenOf(st)], w)
    <3>0. OpenOf(st) \in Params \ {"paths", "overwrite"}
      BY <2>0, <2>5, <1>p
    <3>1. /\ v.text = w.text /\ v.as \in Schema[OpenOf(st)]
          /\ IsState(st2) /\ ArgsOf(st2) = WithValue(ArgsOf(st), OpenOf(st), v) /\ BaseOf(st2) = BaseOf(st) /\ OpenOf(st2) = ""
      BY <1>e, <2>0, <3>0
    <3> HIDE DEF v
    <3>2. Fits(OpenOf(st), n + 1, v)
      BY <1>f, <3>0, <3>1
    <3> QED BY <2>1, <2>2, <3>0, <3>1, <3>2 DEF Effect
  <2> QED BY <2>3, <2>4, <2>5
<1>4. CASE ~(w.flag # "" /\ OpenOf(st) \in {"", "maybe"}) /\ ~(w = Yes /\ OpenOf(st) = "maybe")
           /\ ~(w.flag = "" /\ OpenOf(st) \notin {"", "maybe"})
  <2>1. st2 = Wrong(st)
    BY <1>4, WordReadIs DEF w
  <2> QED BY <2>1, WrongFacts
<1> QED BY <1>1, <1>2, <1>3, <1>4

-----------------------------------------------------------------------------
(* What was read of the first n words.                                     *)
PathsAt(n) == {i \in 1..n : ValueAt("paths", i)}
ListsAt(n) == {i \in 1..n : ValueAt("paths", i) /\ lnArgv[i] = Two}
AnyItem == {Value("string", "a"), Value("string", "b")} \cup {Value("string", lnArgv[i].text) : i \in 1..Len(lnArgv)}
LastOf(p, i, n) == ValueAt(p, i) /\ \A j \in 1..n : j > i => ~ValueAt(p, j)

SoFar(n, args, base) ==
  /\ DOMAIN args \subseteq Params
  /\ \A p \in Params : p \in DOMAIN args <=> \E i \in 1..n : ValueAt(p, i)
  /\ base = TRUE <=> \E i \in 1..n : ValueAt("args", i)
  /\ \A p \in Params \ {"paths"}, i \in 1..n : LastOf(p, i, n) => Fits(p, i, args[p])
  /\ ItemsSoFar(args) \in Seq(AnyItem)
  /\ Len(ItemsSoFar(args)) = Cardinality(PathsAt(n)) + Cardinality(ListsAt(n))

LEMMA OneOrTwo ==
  ASSUME NEW T, NEW x \in T, NEW y \in T
  PROVE  <<x, y>> \in Seq(T) /\ Len(<<x, y>>) = 2 /\ <<x>> \in Seq(T) /\ Len(<<x>>) = 1
<1>1. <<x, y>> \in Seq(T)
  OBVIOUS
<1>2. <<x>> \in Seq(T)
  OBVIOUS
<1>3. Len(<<x, y>>) = 2 /\ Len(<<x>>) = 1
  OBVIOUS
<1> QED BY <1>1, <1>2, <1>3

LEMMA ItemsFacts ==
  ASSUME NEW n \in 1..Len(lnArgv), lnArgv[n] \in Words, lnArgv[n].flag = ""
  PROVE  Items(lnArgv[n]) \in Seq(AnyItem) /\ Len(Items(lnArgv[n])) = (IF lnArgv[n] = Two THEN 2 ELSE 1)
<1> DEFINE w == lnArgv[n]
           a == Value("string", "a")
           b == Value("string", "b")
           c == Value("string", w.text)
<1>1. w.reads = "array" <=> w = Two
  BY WordFacts, TextFacts
<1>2. a \in AnyItem /\ b \in AnyItem /\ c \in AnyItem
  BY DEF AnyItem
<1>3. Items(w) = IF w.reads = "array" THEN <<a, b>> ELSE <<c>>
  BY Zenon DEF Items
<1> HIDE DEF w, a, b, c
<1>4. <<a, b>> \in Seq(AnyItem) /\ Len(<<a, b>>) = 2 /\ <<c>> \in Seq(AnyItem) /\ Len(<<c>>) = 1
  BY <1>2, OneOrTwo
<1> QED BY <1>1, <1>3, <1>4 DEF w

LEMMA AtFacts ==
  ASSUME NEW n \in Nat
  PROVE  /\ IsFiniteSet(PathsAt(n)) /\ IsFiniteSet(ListsAt(n))
         /\ Cardinality(PathsAt(n)) \in Nat /\ Cardinality(ListsAt(n)) \in Nat
         /\ Cardinality(PathsAt(n + 1)) = Cardinality(PathsAt(n)) + IF ValueAt("paths", n + 1) THEN 1 ELSE 0
         /\ Cardinality(ListsAt(n + 1)) = Cardinality(ListsAt(n))
                                           + IF ValueAt("paths", n + 1) /\ lnArgv[n + 1] = Two THEN 1 ELSE 0
<1> DEFINE V(i) == ValueAt("paths", i)
           W(i) == ValueAt("paths", i) /\ lnArgv[i] = Two
<1>1. IsFiniteSet(1..n)
  BY FS_Interval
<1>2. PathsAt(n) = {i \in 1..n : V(i)} /\ PathsAt(n + 1) = {i \in 1..(n + 1) : V(i)}
  BY DEF PathsAt
<1>3. ListsAt(n) = {i \in 1..n : W(i)} /\ ListsAt(n + 1) = {i \in 1..(n + 1) : W(i)}
  BY DEF ListsAt
<1> HIDE DEF V, W
<1>4. IsFiniteSet(PathsAt(n)) /\ IsFiniteSet(ListsAt(n))
  BY <1>1, <1>2, <1>3, FS_Subset
<1>5. Cardinality(PathsAt(n)) \in Nat /\ Cardinality(ListsAt(n)) \in Nat
  BY <1>4, FS_CardinalityType
<1>6. /\ n + 1 \notin PathsAt(n) /\ PathsAt(n + 1) = IF V(n + 1) THEN PathsAt(n) \cup {n + 1} ELSE PathsAt(n)
      /\ n + 1 \notin ListsAt(n) /\ ListsAt(n + 1) = IF W(n + 1) THEN ListsAt(n) \cup {n + 1} ELSE ListsAt(n)
  BY <1>2, <1>3
<1>7. Cardinality(PathsAt(n) \cup {n + 1}) = Cardinality(PathsAt(n)) + 1
  BY <1>4, <1>6, FS_AddElement
<1>8. Cardinality(ListsAt(n) \cup {n + 1}) = Cardinality(ListsAt(n)) + 1
  BY <1>4, <1>6, FS_AddElement
<1>9. Cardinality(PathsAt(n + 1)) = Cardinality(PathsAt(n)) + IF V(n + 1) THEN 1 ELSE 0
  BY <1>5, <1>6, <1>7
<1>10. Cardinality(ListsAt(n + 1)) = Cardinality(ListsAt(n)) + IF W(n + 1) THEN 1 ELSE 0
  BY <1>5, <1>6, <1>8
<1> QED BY <1>4, <1>5, <1>9, <1>10 DEF V, W

LEMMA EffectKeeps ==
  ASSUME NEW n \in Nat, n + 1 \in 1..Len(lnArgv), lnArgv[n + 1] \in Words, NEW st, NEW st2, Effect(n, st, st2),
         SoFar(n, ArgsOf(st), BaseOf(st))
  PROVE  SoFar(n + 1, ArgsOf(st2), BaseOf(st2))
<1> DEFINE args == ArgsOf(st)
           base == BaseOf(st)
           args2 == ArgsOf(st2)
           base2 == BaseOf(st2)
<1>0. /\ DOMAIN args \subseteq Params
      /\ \A p \in Params : p \in DOMAIN args <=> \E i \in 1..n : ValueAt(p, i)
      /\ base = TRUE <=> \E i \in 1..n : ValueAt("args", i)
      /\ \A p \in Params \ {"paths"}, i \in 1..n : LastOf(p, i, n) => Fits(p, i, args[p])
      /\ ItemsSoFar(args) \in Seq(AnyItem)
      /\ Len(ItemsSoFar(args)) = Cardinality(PathsAt(n)) + Cardinality(ListsAt(n))
  BY DEF SoFar
<1>1. 1..(n + 1) = (1..n) \cup {n + 1}
  OBVIOUS
<1>p. Params = {"limit", "server", "path", "paths", "overwrite"}
  BY SchemaFacts
(* What is the last value once there is one more word.                     *)
<1>2. ASSUME NEW p, NEW i \in 1..(n + 1), LastOf(p, i, n + 1)
      PROVE  IF ValueAt(p, n + 1) THEN i = n + 1 ELSE i \in 1..n /\ LastOf(p, i, n)
  <2>1. i # n + 1 => n + 1 > i /\ i \in 1..n
    BY <1>2
  <2> QED BY <1>1, <1>2, <2>1 DEF LastOf
<1>3. ASSUME ~ValueAt("paths", n + 1), ItemsSoFar(args2) = ItemsSoFar(args)
      PROVE  /\ ItemsSoFar(args2) \in Seq(AnyItem)
             /\ Len(ItemsSoFar(args2)) = Cardinality(PathsAt(n + 1)) + Cardinality(ListsAt(n + 1))
  BY <1>0, <1>3, AtFacts
<1>4. ASSUME \A p \in Params \cup {"args"} : ~ValueAt(p, n + 1), args2 = args, base2 = base
      PROVE  SoFar(n + 1, args2, base2)
  <2>1. \A p \in Params : p \in DOMAIN args2 <=> \E i \in 1..(n + 1) : ValueAt(p, i)
    BY <1>0, <1>1, <1>4
  <2>2. base2 = TRUE <=> \E i \in 1..(n + 1) : ValueAt("args", i)
    BY <1>0, <1>1, <1>4
  <2>3. \A p \in Params \ {"paths"}, i \in 1..(n + 1) : LastOf(p, i, n + 1) => Fits(p, i, args2[p])
    BY <1>0, <1>2, <1>4
  <2>4. ~ValueAt("paths", n + 1)
    BY <1>4, <1>p
  <2> HIDE DEF args, args2, base, base2
  <2> QED BY <1>0, <1>3, <1>4, <2>1, <2>2, <2>3, <2>4 DEF SoFar
<1>5. ASSUME NEW q \in Params \ {"paths"}, NEW v,
             \A p \in Params \cup {"args"} : ValueAt(p, n + 1) <=> p = q,
             Fits(q, n + 1, v), args2 = WithValue(args, q, v), base2 = base
      PROVE  SoFar(n + 1, args2, base2)
  <2> HIDE DEF args, args2, base, base2
  <2>0. DOMAIN args2 = DOMAIN args \cup {q} /\ args2[q] = v /\ \A p \in DOMAIN args : p # q => args2[p] = args[p]
    <3>1. args2 = WithValue(args, q, v)
      BY <1>5
    <3> QED BY <3>1 DEF WithValue
  <2>1. \A p \in Params : p \in DOMAIN args2 <=> \E i \in 1..(n + 1) : ValueAt(p, i)
    BY <1>0, <1>1, <1>5, <2>0
  <2>2. base2 = TRUE <=> \E i \in 1..(n + 1) : ValueAt("args", i)
    <3>1. ~ValueAt("args", n + 1)
      BY <1>5, <1>p
    <3> QED BY <1>0, <1>1, <1>5, <3>1
  <2>3. ASSUME NEW p \in Params \ {"paths"}, NEW i \in 1..(n + 1), LastOf(p, i, n + 1)
        PROVE  Fits(p, i, args2[p])
    <3>1. CASE p = q
      <4>1. i = n + 1
        BY <1>2, <1>5, <2>3, <3>1
      <4> QED BY <1>5, <2>0, <3>1, <4>1
    <3>2. CASE p # q
      <4>1. i \in 1..n /\ LastOf(p, i, n)
        BY <1>2, <1>5, <2>3, <3>2
      <4>2. p \in DOMAIN args
        BY <1>0, <4>1 DEF LastOf
      <4> QED BY <1>0, <2>0, <3>2, <4>1, <4>2
    <3> QED BY <3>1, <3>2
  <2>4. ~ValueAt("paths", n + 1) /\ ItemsSoFar(args2) = ItemsSoFar(args)
    <3>1. ~ValueAt("paths", n + 1)
      BY <1>5, <1>p
    <3>2. "paths" # q
      BY <1>5
    <3> QED BY <2>0, <3>1, <3>2 DEF ItemsSoFar
  <2>5. DOMAIN args2 \subseteq Params
    BY <1>0, <1>5, <2>0
  <2> QED BY <1>3, <2>1, <2>2, <2>3, <2>4, <2>5 DEF SoFar
<1>6. ASSUME \A p \in Params \cup {"args"} : ValueAt(p, n + 1) <=> p = "args", args2 = args, base2 = TRUE
      PROVE  SoFar(n + 1, args2, base2)
  <2>0. ValueAt("args", n + 1) /\ \A p \in Params : ~ValueAt(p, n + 1)
    BY <1>6, <1>p
  <2>1. \A p \in Params : p \in DOMAIN args2 <=> \E i \in 1..(n + 1) : ValueAt(p, i)
    BY <1>0, <1>1, <1>6, <2>0
  <2>2. base2 = TRUE /\ \E i \in 1..(n + 1) : ValueAt("args", i)
    BY <1>1, <1>6, <2>0
  <2>3. \A p \in Params \ {"paths"}, i \in 1..(n + 1) : LastOf(p, i, n + 1) => Fits(p, i, args2[p])
    BY <1>0, <1>2, <1>6, <2>0
  <2>4. ~ValueAt("paths", n + 1)
    BY <2>0, <1>p
  <2> HIDE DEF args, args2, base, base2
  <2> QED BY <1>0, <1>3, <1>6, <2>1, <2>2, <2>3, <2>4 DEF SoFar
<1>7. ASSUME \A p \in Params \cup {"args"} : ValueAt(p, n + 1) <=> p = "paths", lnArgv[n + 1].flag = "", base2 = base,
             args2 = WithValue(args, "paths", ItemsSoFar(args) \o Items(lnArgv[n + 1]))
      PROVE  SoFar(n + 1, args2, base2)
  <2> DEFINE v == ItemsSoFar(args) \o Items(lnArgv[n + 1])
             q == "paths"
  <2> HIDE DEF args, args2, base, base2
  <2>a. args2 = WithValue(args, q, v)
    BY <1>7
  <2> HIDE DEF v, q
  <2>b. DOMAIN args2 = DOMAIN args \cup {q} /\ args2[q] = v /\ \A p \in DOMAIN args : p # q => args2[p] = args[p]
    BY <2>a DEF WithValue
  <2>0. DOMAIN args2 = DOMAIN args \cup {"paths"} /\ args2["paths"] = v
        /\ \A p \in DOMAIN args : p # "paths" => args2[p] = args[p]
    BY <2>b DEF q
  <2>1. \A p \in Params : p \in DOMAIN args2 <=> \E i \in 1..(n + 1) : ValueAt(p, i)
    BY <1>0, <1>1, <1>7, <2>0
  <2>2. base2 = TRUE <=> \E i \in 1..(n + 1) : ValueAt("args", i)
    <3>1. ~ValueAt("args", n + 1)
      <4>1. "args" # "paths" /\ "args" \in Params \cup {"args"}
        OBVIOUS
      <4> QED BY <1>7, <4>1, Zenon
    <3> QED BY <1>0, <1>1, <1>7, <3>1
  <2>3. ASSUME NEW p \in Params \ {"paths"}, NEW i \in 1..(n + 1), LastOf(p, i, n + 1)
        PROVE  Fits(p, i, args2[p])
    <3>1. i \in 1..n /\ LastOf(p, i, n)
      BY <1>2, <1>7, <2>3
    <3>2. p \in DOMAIN args
      BY <1>0, <3>1 DEF LastOf
    <3> QED BY <1>0, <2>0, <2>3, <3>1, <3>2
  <2>4. /\ ItemsSoFar(args2) = v /\ v \in Seq(AnyItem)
        /\ Len(v) = Cardinality(PathsAt(n + 1)) + Cardinality(ListsAt(n + 1))
    <3> DEFINE a == ItemsSoFar(args)
               b == Items(lnArgv[n + 1])
    <3>1. b \in Seq(AnyItem) /\ Len(b) = (IF lnArgv[n + 1] = Two THEN 2 ELSE 1)
      BY <1>7, ItemsFacts
    <3>2. a \in Seq(AnyItem) /\ Len(a) = Cardinality(PathsAt(n)) + Cardinality(ListsAt(n))
      BY <1>0
    <3>3. v = a \o b
      BY DEF v
    <3> HIDE DEF a, b
    <3>4. v \in Seq(AnyItem) /\ Len(v) = Len(a) + Len(b)
      BY <3>1, <3>2, <3>3, ConcatProperties
    <3>5. ValueAt("paths", n + 1)
      BY <1>7, <1>p
    <3>6. ItemsSoFar(args2) = v
      BY <2>0 DEF ItemsSoFar
    <3>7. /\ Cardinality(PathsAt(n)) \in Nat /\ Cardinality(ListsAt(n)) \in Nat
          /\ Cardinality(PathsAt(n + 1)) = Cardinality(PathsAt(n)) + 1
          /\ Cardinality(ListsAt(n + 1)) = Cardinality(ListsAt(n)) + IF lnArgv[n + 1] = Two THEN 1 ELSE 0
      BY <3>5, AtFacts
    <3>8. Len(v) = Cardinality(PathsAt(n + 1)) + Cardinality(ListsAt(n + 1))
      BY <3>1, <3>2, <3>4, <3>7
    <3> QED BY <3>4, <3>6, <3>8
  <2>5. DOMAIN args2 \subseteq Params
    BY <1>0, <1>p, <2>0
  <2> QED BY <2>1, <2>2, <2>3, <2>4, <2>5 DEF SoFar
<1> HIDE DEF args, args2, base, base2
<1> QED
  <2>1. \/ (\A p \in Params \cup {"args"} : ~ValueAt(p, n + 1)) /\ args2 = args /\ base2 = base
        \/ \E q \in Params \ {"paths"} : \E v :
             /\ \A p \in Params \cup {"args"} : ValueAt(p, n + 1) <=> p = q
             /\ Fits(q, n + 1, v) /\ args2 = WithValue(args, q, v) /\ base2 = base
        \/ /\ \A p \in Params \cup {"args"} : ValueAt(p, n + 1) <=> p = "args"
           /\ args2 = args /\ base2 = TRUE
        \/ /\ \A p \in Params \cup {"args"} : ValueAt(p, n + 1) <=> p = "paths"
           /\ lnArgv[n + 1].flag = "" /\ base2 = base
           /\ args2 = WithValue(args, "paths", ItemsSoFar(args) \o Items(lnArgv[n + 1]))
    BY Zenon DEF Effect, args, args2, base, base2
  <2>2. SoFar(n + 1, args2, base2)
    BY <1>4, <1>5, <1>6, <1>7, <2>1
  <2> QED BY <2>2 DEF args2, base2

LEMMA TakesState ==
  ASSUME NEW st, IsState(st), NEW p, NEW w
  PROVE  IsState(Takes(st, p, w))
<1>1. IsState(Based(st)) /\ IsState(Wrong(st)) /\ \A q, v : IsState(Given(st, q, v))
  BY BasedFacts, WrongFacts, GivenFacts
<1>2. CASE p = "args"
  <2>1. Takes(st, p, w) = IF w = Object THEN Based(st) ELSE Wrong(st)
    BY <1>2, Zenon DEF Takes, Based
  <2> QED BY <1>1, <2>1
<1>3. CASE p = "paths"
  <2>1. \E q, v : Takes(st, p, w) = Given(st, q, v)
    BY <1>3, Zenon DEF Takes, ItemsGiven
  <2> QED BY <1>1, <2>1
<1>4. CASE p # "args" /\ p # "paths"
  <2> DEFINE v == Converted(Schema[p], w)
  <2>1. Takes(st, p, w) = IF v = Bad THEN Wrong(st) ELSE Given(st, p, v)
    BY <1>4 DEF Takes
  <2> HIDE DEF v
  <2> QED BY <1>1, <2>1
<1> QED BY <1>2, <1>3, <1>4

LEMMA WordState ==
  ASSUME NEW st, IsState(st), NEW w \in Words
  PROVE  IsState(WordRead(st, w)) /\ (ErrorOf(st) = TRUE => WordRead(st, w) = st)
<1>1. CASE ErrorOf(st) = TRUE
  <2>1. WordRead(st, w) = st
    BY <1>1 DEF WordRead, ErrorOf
  <2> QED BY <2>1
<1>2. CASE ErrorOf(st) = FALSE
  <2>1. w.flag = "" => ~Inline(w)
    BY DEF Inline
  <2>2. IsState(Wrong(st)) /\ IsState(Takes(st, OpenOf(st), w)) /\ IsState(Given(st, "overwrite", Yields(TRUE)))
    BY WrongFacts, TakesState, GivenFacts
  <2>3. IsState(FlagRead(Opened(st, ""), w))
    <3> DEFINE g == Opened(st, "")
    <3>1. IsState(g)
      BY OpenedFacts
    <3> HIDE DEF g
    <3>2. /\ IsState(Wrong(g)) /\ IsState(Takes(g, w.flag, w)) /\ IsState(Opened(g, w.flag))
      BY <3>1, WrongFacts, TakesState, OpenedFacts
    <3>3. IsState(Given(g, "overwrite", Yields(FALSE))) /\ IsState(Given(g, "overwrite", Yields(TRUE)))
      BY <3>1, GivenFacts
    <3>4. IsState(Opened(Given(g, "overwrite", Yields(TRUE)), "maybe"))
      BY <3>3, OpenedFacts
    <3>5. Inline(w) => w.flag \in {"server", "overwrite"}
      BY WordFacts
    <3> QED
      <4>1. CASE Inline(w)
        BY <3>2, <3>5, <4>1, FlagReadIs DEF g
      <4>2. CASE ~Inline(w) /\ w.flag = "no-overwrite"
        BY <3>3, <4>2, FlagReadIs DEF g
      <4>3. CASE ~Inline(w) /\ w.flag = "unknown"
        BY <3>2, <4>3, FlagReadIs DEF g
      <4>4. CASE ~Inline(w) /\ w.flag = "overwrite"
        BY <3>4, <4>4, FlagReadIs DEF g
      <4>5. CASE ~Inline(w) /\ w.flag \notin {"no-overwrite", "unknown", "overwrite"}
        BY <3>2, <4>5, FlagReadIs DEF g
      <4> QED BY <4>1, <4>2, <4>3, <4>4, <4>5
  <2>4. CASE w.flag # "" /\ OpenOf(st) \in {"", "maybe"}
    BY <1>2, <2>3, <2>4, WordReadIs
  <2>5. CASE w.flag = "" /\ w = Yes /\ OpenOf(st) = "maybe"
    BY <1>2, <2>2, <2>5, WordReadIs
  <2>6. CASE w.flag = "" /\ OpenOf(st) \notin {"", "maybe"}
    BY <1>2, <2>2, <2>6, WordReadIs
  <2>7. CASE ~(w.flag # "" /\ OpenOf(st) \in {"", "maybe"}) /\ ~(w = Yes /\ OpenOf(st) = "maybe")
            /\ ~(w.flag = "" /\ OpenOf(st) \notin {"", "maybe"})
    BY <1>2, <2>2, <2>7, WordReadIs
  <2>8. w = Yes => w.flag = ""
    <3>1. Yes.flag = ""
      BY DEF Yes, Text
    <3> QED BY <3>1
  <2> QED BY <1>2, <2>4, <2>5, <2>6, <2>7, <2>8
<1> QED BY <1>1, <1>2 DEF IsState

LineTyped == lnArgv \in Seq(Words)

(* What was read of every part of the line.                                *)
LEMMA EveryPart ==
  ASSUME LineTyped
  PROVE  \A n \in 0..Len(lnArgv) :
            LET st == WordsRead(lnArgv)[n]
            IN  IsState(st) /\ (ErrorOf(st) = FALSE => OpenIs(n, st) /\ SoFar(n, ArgsOf(st), BaseOf(st)))
<1> DEFINE f == WordsRead(lnArgv)
           Good(n) == IsState(f[n]) /\ (ErrorOf(f[n]) = FALSE => OpenIs(n, f[n]) /\ SoFar(n, ArgsOf(f[n]), BaseOf(f[n])))
           T == {n \in 0..Len(lnArgv) : ~Good(n)}
<1>1. Len(lnArgv) \in Nat /\ \A i \in 1..Len(lnArgv) : lnArgv[i] \in Words
  BY LenProperties, ElementOfSeq DEF LineTyped
<1>2. f[0] = NothingRead /\ \A n \in 1..Len(lnArgv) : f[n] = WordRead(f[n - 1], lnArgv[n])
  BY <1>1, ReadsFacts DEF ReadOver
<1> HIDE DEF f
<1>3. Good(0)
  <2> DEFINE st == NothingRead
  <2>1. /\ IsState(st) /\ ErrorOf(st) = FALSE /\ BaseOf(st) = FALSE /\ OpenOf(st) = ""
        /\ ArgsOf(st) = <<>> /\ DOMAIN ArgsOf(st) = {}
    BY NothingReadFacts
  <2> HIDE DEF st
  <2>2. OpenIs(0, st)
    <3>1. "" \notin (Params \ {"overwrite"}) \cup {"args"}
      BY SchemaFacts
    <3> DEFINE V(p) == lnArgv[0].flag = p /\ ~Inline(lnArgv[0])
               o == OpenOf(st)
    <3>2. OpenIs(0, st) <=>
            /\ o \in {"", "maybe", "args"} \cup (Params \ {"overwrite"})
            /\ o = "maybe" <=> 0 > 0 /\ V("overwrite")
            /\ \A p \in (Params \ {"overwrite"}) \cup {"args"} : o = p <=> 0 > 0 /\ V(p)
      BY Zenon DEF OpenIs
    <3>3. o = ""
      BY <2>1
    <3> HIDE DEF V, o
    <3>4. ~(0 > 0)
      OBVIOUS
    <3>5. /\ o \in {"", "maybe", "args"} \cup (Params \ {"overwrite"})
          /\ ~(o = "maybe")
          /\ \A p \in (Params \ {"overwrite"}) \cup {"args"} : ~(o = p)
      BY <3>1, <3>3
    <3> QED BY <3>2, <3>4, <3>5, Zenon
  <2>3. ItemsSoFar(ArgsOf(st)) = <<>> /\ <<>> \in Seq(AnyItem) /\ Len(<<>>) = 0
    <3>1. "paths" \notin DOMAIN ArgsOf(st)
      BY <2>1
    <3>2. ItemsSoFar(ArgsOf(st)) = <<>>
      BY <3>1 DEF ItemsSoFar
    <3>3. <<>> \in Seq(AnyItem)
      OBVIOUS
    <3>4. Len(<<>>) = 0
      OBVIOUS
    <3> QED BY <3>2, <3>3, <3>4
  <2>4. PathsAt(0) = {} /\ ListsAt(0) = {} /\ Cardinality({}) = 0
    BY FS_EmptySet DEF PathsAt, ListsAt
  <2>5. SoFar(0, ArgsOf(st), BaseOf(st))
    <3>1. Len(ItemsSoFar(ArgsOf(st))) = Cardinality(PathsAt(0)) + Cardinality(ListsAt(0))
      BY <2>3, <2>4
    <3>2. 1..0 = {}
      OBVIOUS
    <3> DEFINE args == ArgsOf(st)
               base == BaseOf(st)
               items == ItemsSoFar(args)
    <3>3. DOMAIN args = {} /\ base = FALSE /\ items \in Seq(AnyItem)
      BY <2>1, <2>3, Zenon
    <3>4. Len(items) = Cardinality(PathsAt(0)) + Cardinality(ListsAt(0))
      BY <3>1
    <3> HIDE DEF args, base, items
    <3>5. DOMAIN args \subseteq Params
      BY <3>3
    <3>6. \A p \in Params : p \in DOMAIN args <=> \E i \in 1..0 : ValueAt(p, i)
      BY <3>2, <3>3
    <3>7. base = TRUE <=> \E i \in 1..0 : ValueAt("args", i)
      BY <3>2, <3>3
    <3>8. \A p \in Params \ {"paths"}, i \in 1..0 : LastOf(p, i, 0) => Fits(p, i, args[p])
      BY <3>2
    <3>9. SoFar(0, args, base)
      BY <3>3, <3>4, <3>5, <3>6, <3>7, <3>8, Zenon DEF SoFar, items
    <3> QED BY <3>9 DEF args, base
  <2> QED BY <1>2, <2>1, <2>2, <2>5 DEF st
<1>4. ASSUME NEW n \in 1..Len(lnArgv), Good(n - 1) PROVE Good(n)
  <2> DEFINE m == n - 1
             st == f[m]
             st2 == f[n]
             w == lnArgv[n]
  <2>1. m \in Nat /\ m + 1 = n /\ w \in Words /\ st2 = WordRead(st, w)
    BY <1>1, <1>2
  <2>2. IsState(st) /\ (ErrorOf(st) = FALSE => OpenIs(m, st) /\ SoFar(m, ArgsOf(st), BaseOf(st)))
    BY <1>4
  <2> HIDE DEF m, st, st2
  <2>3. IsState(st2) /\ (ErrorOf(st) = TRUE => st2 = st)
    BY <2>1, <2>2, WordState
  <2>4. ASSUME ErrorOf(st2) = FALSE PROVE OpenIs(n, st2) /\ SoFar(n, ArgsOf(st2), BaseOf(st2))
    <3>1. ErrorOf(st) = FALSE
      <4>1. ErrorOf(st) # TRUE
        BY <2>3, <2>4
      <4> QED BY <2>2, <4>1 DEF IsState
    <3>2. m + 1 \in 1..Len(lnArgv) /\ lnArgv[m + 1] \in Words /\ st2 = WordRead(st, lnArgv[m + 1])
      BY <2>1
    <3>3. OpenIs(m + 1, st2) /\ Effect(m, st, st2)
      BY <2>1, <2>2, <2>4, <3>1, <3>2, WordEffect
    <3>4. SoFar(m + 1, ArgsOf(st2), BaseOf(st2))
      BY <2>1, <2>2, <3>1, <3>2, <3>3, EffectKeeps
    <3> QED BY <2>1, <3>3, <3>4
  <2> QED BY <2>3, <2>4 DEF st2
<1> HIDE DEF Good
<1>5. ASSUME T # {} PROVE FALSE
  <2>1. T \subseteq Nat
    BY <1>1
  <2> HIDE DEF T
  <2>2. PICK x \in T : \A y \in T : x <= y
    BY <1>5, <2>1, LeastOf
  <2> USE DEF T
  <2>3. x \in 1..Len(lnArgv) /\ ~Good(x)
    BY <1>1, <1>3, <2>2
  <2>4. x - 1 \in 0..Len(lnArgv) /\ x - 1 \notin T
    BY <1>1, <2>2, <2>3
  <2> QED BY <1>4, <2>3, <2>4
<1>6. \A n \in 0..Len(lnArgv) : Good(n)
  BY <1>5
<1> QED BY <1>6 DEF Good, f

(* What ParseToolArgs() gives for a line without an error.                  *)
Nine == Value("integer", "9")
WithBase(st) == IF BaseOf(st) = TRUE /\ "limit" \notin DOMAIN ArgsOf(st) THEN Given(st, "limit", Nine) ELSE st
Parsed(st) == [WithBase(st) EXCEPT !.error = @ \/ OpenOf(st) \notin {"", "maybe"}]

LEMMA WithBaseFacts ==
  ASSUME NEW st, IsState(st)
  PROVE  /\ IsState(WithBase(st)) /\ ErrorOf(WithBase(st)) = ErrorOf(st)
         /\ IF BaseOf(st) = TRUE /\ "limit" \notin DOMAIN ArgsOf(st)
            THEN ArgsOf(WithBase(st)) = WithValue(ArgsOf(st), "limit", Nine)
            ELSE ArgsOf(WithBase(st)) = ArgsOf(st)
<1> DEFINE b == BaseOf(st) = TRUE /\ "limit" \notin DOMAIN ArgsOf(st)
           p == "limit"
           g == Given(st, p, Nine)
           a == ArgsOf(st)
           e == ErrorOf(st)
<1>1. WithBase(st) = IF b THEN g ELSE st
  BY Zenon DEF WithBase
<1>2. IsState(g) /\ ArgsOf(g) = WithValue(a, p, Nine) /\ ErrorOf(g) = e
  <2> HIDE DEF p
  <2> QED BY GivenFacts, Zenon
<1>3. IsState(st) /\ ErrorOf(st) = e /\ ArgsOf(st) = a
  OBVIOUS
<1>4. b \in BOOLEAN
  OBVIOUS
<1> HIDE DEF b, p, g, a, e
<1>5. CASE b
  <2>1. WithBase(st) = g
    BY <1>1, <1>5
  <2>2. IsState(WithBase(st)) /\ ArgsOf(WithBase(st)) = WithValue(a, p, Nine) /\ ErrorOf(WithBase(st)) = e
    BY <1>2, <2>1, Zenon
  <2> QED BY <1>5, <2>2, Zenon DEF b, p, a, e
<1>6. CASE ~b
  <2>1. WithBase(st) = st
    BY <1>1, <1>6
  <2>2. IsState(WithBase(st)) /\ ArgsOf(WithBase(st)) = a /\ ErrorOf(WithBase(st)) = e
    BY <1>3, <2>1, Zenon
  <2> QED BY <1>6, <2>2, Zenon DEF b, p, a, e
<1> QED BY <1>4, <1>5, <1>6

LEMMA ParsedFacts ==
  ASSUME NEW st, IsState(st), ~Parsed(st).error
  PROVE  ErrorOf(st) = FALSE /\ OpenOf(st) \in {"", "maybe"} /\ Parsed(st).args = ArgsOf(WithBase(st))
<1> DEFINE g == WithBase(st)
           o == OpenOf(st)
<1>1. IsState(g) /\ ErrorOf(g) = ErrorOf(st)
  BY WithBaseFacts
<1>2. ~[g EXCEPT !.error = @ \/ o \notin {"", "maybe"}].error
  BY Zenon DEF Parsed
<1>3. Parsed(st) = [g EXCEPT !.error = @ \/ o \notin {"", "maybe"}]
  BY Zenon DEF Parsed
<1> HIDE DEF g, o
<1>4. "error" \in DOMAIN g /\ "args" \in DOMAIN g /\ ErrorOf(g) = g.error /\ ArgsOf(g) = g.args
  BY <1>1 DEF IsState, ErrorOf, ArgsOf
<1>5. [g EXCEPT !.error = @ \/ o \notin {"", "maybe"}].error = (g.error \/ o \notin {"", "maybe"})
  BY <1>4
<1>6. ~(g.error \/ o \notin {"", "maybe"})
  BY <1>2, <1>5
<1>7. g.error = FALSE
  BY <1>1, <1>4, <1>6 DEF IsState
<1>8. Parsed(st).args = g.args
  BY <1>3, <1>4
<1>9. ErrorOf(st) = FALSE
  BY <1>1, <1>4, <1>7
<1>10. Parsed(st).args = ArgsOf(g)
  BY <1>8, <1>4
<1> QED BY <1>6, <1>9, <1>10 DEF g, o

LEMMA ParseIs ==
  ASSUME IsState(WordsRead(lnArgv)[Len(lnArgv)])
  PROVE  ParseToolArgs(lnArgv) = Parsed(WordsRead(lnArgv)[Len(lnArgv)])
<1> DEFINE st == WordsRead(lnArgv)[Len(lnArgv)]
           b == st.base
           l == "limit" \notin DOMAIN st.args
           g == Given(st, "limit", Nine)
           x == [(IF b /\ l THEN g ELSE st) EXCEPT !.error = @ \/ st.open \notin {"", "maybe"}]
           y == [(IF b = TRUE /\ l THEN g ELSE st) EXCEPT !.error = @ \/ st.open \notin {"", "maybe"}]
<1>1. ParseToolArgs(lnArgv) = x
  BY Zenon DEF ParseToolArgs, Nine
<1>2. Parsed(st) = y
  BY Zenon DEF Parsed, WithBase, BaseOf, OpenOf, ArgsOf
<1>3. b \in BOOLEAN
  BY Zenon DEF IsState, BaseOf
<1>4. x = y
  <2> HIDE DEF st, b, l, g
  <2>1. b = TRUE \/ b = FALSE
    BY <1>3
  <2>2. CASE b = TRUE
    BY <2>2, Zenon
  <2>3. CASE b = FALSE
    BY <2>3, Zenon
  <2> QED BY <2>1, <2>2, <2>3
<1> HIDE DEF x, y, st
<1>5. ParseToolArgs(lnArgv) = Parsed(st)
  BY <1>1, <1>2, <1>4
<1> QED BY <1>5 DEF st

AsWritten(args) ==
  /\ \A p \in Params : p \in DOMAIN args <=> LastAt(p) # {} \/ (p = "limit" /\ LastAt("args") # {})
  /\ \A p \in DOMAIN args \ {"paths", "overwrite"} : \A i \in LastAt(p) :
       args[p].text = lnArgv[i].text /\ args[p].as \in Schema[p]
  /\ "overwrite" \in DOMAIN args => \A i \in LastAt("overwrite") :
       args["overwrite"] = Yields(lnArgv[i].flag # "no-overwrite")
  /\ "paths" \in DOMAIN args =>
       Len(args["paths"]) = Cardinality({i \in DOMAIN lnArgv : ValueAt("paths", i)})
                            + Cardinality({i \in DOMAIN lnArgv : ValueAt("paths", i) /\ lnArgv[i] = Two})

LEMMA LastAtFacts ==
  ASSUME LineTyped, NEW p
  PROVE  /\ LastAt(p) = {i \in 1..Len(lnArgv) : LastOf(p, i, Len(lnArgv))}
         /\ LastAt(p) # {} <=> \E i \in 1..Len(lnArgv) : ValueAt(p, i)
<1> DEFINE N == Len(lnArgv)
           S == {i \in 1..N : ValueAt(p, i)}
<1>1. N \in Nat /\ DOMAIN lnArgv = 1..N
  BY LenProperties DEF LineTyped
<1> HIDE DEF N
<1>2. LastAt(p) = {i \in 1..N : LastOf(p, i, N)}
  BY <1>1 DEF LastAt, LastOf
<1>3. ASSUME S # {} PROVE LastAt(p) # {}
  <2>1. S \subseteq 0..N
    BY <1>1
  <2>2. \E k2 \in S : \A m \in S : m <= k2
    BY <1>1, <1>3, <2>1, LargestOf
  <2>3. PICK k2 \in S : \A m \in S : m <= k2
    BY <2>2
  <2>4. LastOf(p, k2, N)
    <3> SUFFICES ASSUME NEW j \in 1..N, j > k2 PROVE ~ValueAt(p, j)
      BY <2>3 DEF LastOf
    <3>1. j \in S => j <= k2
      BY <2>3
    <3>2. k2 \in 1..N
      BY <2>3
    <3> QED BY <1>1, <3>1, <3>2
  <2> QED BY <1>2, <2>3, <2>4
<1>4. LastAt(p) # {} => S # {}
  BY <1>2 DEF LastOf
<1> QED BY <1>2, <1>3, <1>4 DEF N

LEMMA ParsedWritten ==
  ASSUME LineTyped, ~ParseToolArgs(lnArgv).error
  PROVE  AsWritten(ParseToolArgs(lnArgv).args)
<1> DEFINE N == Len(lnArgv)
           st == WordsRead(lnArgv)[N]
           got == ParseToolArgs(lnArgv).args
           args == ArgsOf(st)
           base == BaseOf(st)
<1>1. N \in Nat /\ DOMAIN lnArgv = 1..N
  BY LenProperties DEF LineTyped
<1>2. IsState(st) /\ (ErrorOf(st) = FALSE => OpenIs(N, st) /\ SoFar(N, args, base))
  <2>1. N \in 0..Len(lnArgv)
    BY <1>1
  <2> QED BY <2>1, EveryPart
<1>3. ParseToolArgs(lnArgv) = Parsed(st)
  BY <1>2, ParseIs
<1> HIDE DEF st
<1>4. ErrorOf(st) = FALSE /\ got = ArgsOf(WithBase(st))
  BY <1>2, <1>3, ParsedFacts
<1>5. /\ DOMAIN args \subseteq Params
      /\ \A p \in Params : p \in DOMAIN args <=> \E i \in 1..N : ValueAt(p, i)
      /\ base = TRUE <=> \E i \in 1..N : ValueAt("args", i)
      /\ \A p \in Params \ {"paths"}, i \in 1..N : LastOf(p, i, N) => Fits(p, i, args[p])
      /\ ItemsSoFar(args) \in Seq(AnyItem)
      /\ Len(ItemsSoFar(args)) = Cardinality(PathsAt(N)) + Cardinality(ListsAt(N))
  BY <1>2, <1>4 DEF SoFar
<1>6. IF base = TRUE /\ "limit" \notin DOMAIN args THEN got = WithValue(args, "limit", Nine) ELSE got = args
  BY <1>2, <1>4, WithBaseFacts
<1> HIDE DEF got, args, base
<1>p. Params = {"limit", "server", "path", "paths", "overwrite"}
  BY SchemaFacts
<1>7. /\ \A p : p \in DOMAIN got <=> p \in DOMAIN args \/ (p = "limit" /\ base = TRUE)
      /\ \A p \in DOMAIN args : got[p] = args[p]
  <2>1. CASE base = TRUE /\ "limit" \notin DOMAIN args
    <3> DEFINE l == "limit"
    <3>1. got = WithValue(args, l, Nine) /\ l \notin DOMAIN args
      BY <1>6, <2>1
    <3> HIDE DEF l
    <3>2. DOMAIN got = DOMAIN args \cup {l} /\ \A p \in DOMAIN args : got[p] = args[p]
      BY <3>1 DEF WithValue
    <3> QED BY <2>1, <3>2 DEF l
  <2>2. CASE ~(base = TRUE /\ "limit" \notin DOMAIN args)
    BY <1>6, <2>2
  <2> QED BY <2>1, <2>2
<1>8. \A p : /\ LastAt(p) = {i \in 1..N : LastOf(p, i, N)}
             /\ LastAt(p) # {} <=> \E i \in 1..N : ValueAt(p, i)
  BY LastAtFacts
<1>9. ASSUME NEW p \in Params
      PROVE  p \in DOMAIN got <=> LastAt(p) # {} \/ (p = "limit" /\ LastAt("args") # {})
  BY <1>5, <1>7, <1>8
<1>10. ASSUME NEW p \in Params, NEW i \in LastAt(p)
       PROVE  p \in DOMAIN args /\ got[p] = args[p] /\ (p # "paths" => Fits(p, i, got[p]))
  <2>1. i \in 1..N /\ LastOf(p, i, N)
    BY <1>8, <1>10
  <2>2. p \in DOMAIN args
    BY <1>5, <2>1 DEF LastOf
  <2> QED BY <1>5, <1>7, <2>1, <2>2
<1>11. DOMAIN got \subseteq Params
  BY <1>5, <1>7, <1>p
<1>12. ASSUME NEW p \in DOMAIN got \ {"paths", "overwrite"}, NEW i \in LastAt(p)
       PROVE  got[p].text = lnArgv[i].text /\ got[p].as \in Schema[p]
  BY <1>10, <1>11, <1>12 DEF Fits
<1>13. ASSUME "overwrite" \in DOMAIN got, NEW i \in LastAt("overwrite")
       PROVE  got["overwrite"] = Yields(lnArgv[i].flag # "no-overwrite")
  BY <1>10, <1>p, <1>13 DEF Fits
<1>14. ASSUME "paths" \in DOMAIN got
       PROVE  Len(got["paths"]) = Cardinality({i \in DOMAIN lnArgv : ValueAt("paths", i)})
                            + Cardinality({i \in DOMAIN lnArgv : ValueAt("paths", i) /\ lnArgv[i] = Two})
  <2>1. "paths" \in DOMAIN args
    BY <1>7, <1>14
  <2>2. got["paths"] = ItemsSoFar(args)
    BY <1>7, <2>1 DEF ItemsSoFar
  <2>3. /\ PathsAt(N) = {i \in DOMAIN lnArgv : ValueAt("paths", i)}
        /\ ListsAt(N) = {i \in DOMAIN lnArgv : ValueAt("paths", i) /\ lnArgv[i] = Two}
    BY <1>1 DEF PathsAt, ListsAt
  <2> QED BY <1>5, <2>2, <2>3
<1>15. AsWritten(got)
  BY <1>9, <1>12, <1>13, <1>14 DEF AsWritten
<1> QED BY <1>15 DEF got

-----------------------------------------------------------------------------
(* The invariant of the command line.                                      *)
Parses == ParseToolArgs(lnArgv)

LnInv ==
  /\ LineTyped
  /\ lnExit \in {9, 0, 1, 2, 4} /\ (lnAt = "exit" <=> lnExit # 9)
  /\ lnAt = "call" => ~Parses.error
  /\ lnRan # <<>> => lnAt = "exit" /\ lnRan = <<Parses.args>> /\ ~Parses.error
  /\ lnExit = 2 => lnRan = <<>>
  /\ lnExit = 0 => lnRan # <<>>
  /\ lnApp.up => lnWasUp
  /\ lnAt \in {"list", "call"} /\ ~lnEnv => lnWasUp
  /\ ~lnEnv /\ "other" \in lnTold => lnWasUp

LEMMA LnInvGives ==
  ASSUME LnInv
  PROVE  LineSafe
<1>1. LineTypeOK
  BY DEF LnInv, LineTypeOK
<1>2. RanAsWritten
  <2>1. ASSUME lnRan # <<>> PROVE AsWritten(lnRan[1])
    <3>1. lnRan = <<Parses.args>> /\ AsWritten(Parses.args)
      BY <2>1, ParsedWritten DEF LnInv, Parses
    <3>2. lnRan[1] = Parses.args
      BY <3>1
    <3> QED BY <3>1, <3>2, Zenon
  <2> QED BY <2>1, Zenon DEF RanAsWritten, AsWritten
<1>3. ExitIsTrue
  BY DEF LnInv, ExitIsTrue
<1>4. StaleKept
  BY DEF LnInv, StaleKept
<1> QED BY <1>1, <1>2, <1>3, <1>4 DEF LineSafe

LEMMA LnInvInit ==
  ASSUME LineInit
  PROVE  LnInv
<1>1. LineTyped
  <2>1. PICK n \in 0..MaxTokensGiven : lnArgv \in [1..n -> Words]
    BY DEF LineInit
  <2>2. n \in Nat
    BY LineAssumption
  <2> QED BY <2>1, <2>2, SeqDef DEF LineTyped
<1> QED BY <1>1 DEF LineInit, LnInv

LEMMA LnInvNext ==
  ASSUME LnInv, [LineNext]_lineVars
  PROVE  LnInv'
<1> USE DEF LnInv
<1>1. ASSUME lnArgv' = lnArgv
      PROVE  Parses' = Parses /\ LineTyped'
  BY <1>1 DEF Parses, LineTyped
<1>2. CASE UNCHANGED lineVars
  BY <1>1, <1>2 DEF lineVars
<1>3. CASE ReadsEndpoint
  BY <1>1, <1>3 DEF ReadsEndpoint, Keeps
<1>4. CASE ReadsToken
  BY <1>1, <1>4 DEF ReadsToken, Keeps, Exits
<1>5. CASE ChecksAlive
  BY <1>1, <1>5 DEF ChecksAlive, Keeps, Exits, Alive
<1>6. CASE ListsTools
  BY <1>1, <1>6 DEF ListsTools, Keeps, Exits, Asks, Unanswered, Parses
<1>7. CASE CallsTool
  BY <1>1, <1>7 DEF CallsTool, Keeps, Exits, Asks, Unanswered, Parses
<1>8. CASE (MakesToken \/ StopsListening \/ AppDies \/ OtherTakesPort)
           /\ UNCHANGED <<lnArgv, lnEnv, lnAt, lnFound, lnExit, lnRan, lnTold, lnWasUp>>
  BY <1>1, <1>8 DEF MakesToken, StopsListening, AppDies, OtherTakesPort, AppStep
<1> QED BY <1>2, <1>3, <1>4, <1>5, <1>6, <1>7, <1>8, Zenon DEF LineNext, LineProgress

(* However the app lives meanwhile, the tool runs with what is written on   *)
(* the line, the exit code tells whether it did, and a dead app's token     *)
(* stays untold.                                                           *)
THEOREM LineIsSafe == LineInit /\ [][LineNext]_lineVars => []LineSafe
<1>1. LineInit => LnInv
  BY LnInvInit
<1>2. LnInv /\ [LineNext]_lineVars => LnInv'
  BY LnInvNext
<1>3. LnInv => LineSafe
  BY LnInvGives
<1> QED BY <1>1, <1>2, <1>3, PTL

-----------------------------------------------------------------------------
(* Whichever service runs, what this computer keeps is what it was given:  *)
(* the services share no state, so each of them keeps its part alone.      *)
THEOREM DiskIsKept == Spec => []DiskSafe
<1>1. Init => SlabInit /\ FileOpsInit /\ MediaInit /\ DatabaseInit
  BY Zenon DEF Init
<1>2. [Next]_vars => [SlabNext]_slabVars
  BY Zenon DEF Next, vars, OthersIdle, Idle
<1>3. [Next]_vars => [FileOpsNext]_fileOpsVars
  BY Zenon DEF Next, vars, OthersIdle, Idle
<1>4. [Next]_vars => [MediaNext]_mediaVars
  BY Zenon DEF Next, vars, OthersIdle, Idle
<1>5. [Next]_vars => [DatabaseNext]_databaseVars
  BY Zenon DEF Next, vars, OthersIdle, Idle
<1>6. Spec => /\ SlabInit /\ [][SlabNext]_slabVars
              /\ FileOpsInit /\ [][FileOpsNext]_fileOpsVars
              /\ MediaSpec /\ DatabaseSpec
  BY <1>1, <1>2, <1>3, <1>4, <1>5, PTL DEF Spec, MediaSpec, DatabaseSpec
<1>7. SwInv /\ FoInv /\ McInv /\ DbInv => DiskSafe
  BY SwInvGives, FoInvGives, McInvGives, DbInvGives DEF DiskSafe
<1> QED BY <1>6, <1>7, SlabInvariance, FileOpsInvariance, MediaInvariance, DatabaseInvariance, PTL

(* Whichever service runs, agents get what they asked for, and what they    *)
(* ask for is what they meant.                                             *)
THEOREM CommandsAreSafe == Spec => []CommandsSafe
<1>1. Init => ToolsInit /\ ReadingInit /\ LineInit
  BY Zenon DEF Init
<1>2. [Next]_vars => [ToolsNext]_toolVars
  BY Zenon DEF Next, vars, OthersIdle, Idle
<1>3. [Next]_vars => [ReadingNext]_readVars
  BY Zenon DEF Next, vars, OthersIdle, Idle
<1>4. [Next]_vars => [LineNext]_lineVars
  BY Zenon DEF Next, vars, OthersIdle, Idle
<1>5. Spec => /\ ToolsInit /\ [][ToolsNext]_toolVars
              /\ ReadingInit /\ [][ReadingNext]_readVars
              /\ LineInit /\ [][LineNext]_lineVars
  BY <1>1, <1>2, <1>3, <1>4, PTL DEF Spec
<1>6. ToolsSafe /\ ReadingSafe /\ LineSafe => CommandsSafe
  BY DEF CommandsSafe
<1>7. ToolsSpec <=> ToolsInit /\ [][ToolsNext]_toolVars
  BY PTL DEF ToolsSpec
<1> QED BY <1>5, <1>6, <1>7, ToolsAreSafe, ReadingIsSafe, LineIsSafe, PTL
=============================================================================
