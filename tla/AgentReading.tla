----------------------------- MODULE AgentReading -----------------------------
(***************************************************************************)
(* What agents read: a folder page by page (list_directory), and previews  *)
(* of images (get_image_previews), which are made one at a time on each    *)
(* connection, in the order of the calls (thumbnailPreviews.ts), while the *)
(* connection may change and the user may stop a call.                     *)
(***************************************************************************)
EXTENDS Filtering

CONSTANTS ReadCalls,     \* calls for previews
          MaxReadSteps,  \* bound: pages asked, and changes of the folder
          MaxResets      \* bound: changes of the connection, and stops

ASSUME ReadingAssumption == IsFiniteSet(ReadCalls) /\ MaxReadSteps \in Nat /\ MaxResets \in Nat

VARIABLES
  arWhat,      \* "pages" or "previews"
  arFolder,    \* the entries of the folder, as numbers in the order of names
  arCursor,    \* nextCursor of the last page: [query, offset]; NoCursor without
  arQuery,     \* what the first page asked for
  arGot,       \* the entries of the pages so far
  arSame,      \* history: the folder has not changed since the first page
  arSteps,
  pvCall,      \* previews: per call [paths, at, stopped, started, outs]
  pvTail,      \* the calls in their order, the first one running
  pvFlight,    \* inFlight: the path whose image is being made; 0 none
  pvGen,       \* generation
  pvOld,       \* paths whose images older queues may still report
  pvActs

readVars == <<arWhat, arFolder, arCursor, arQuery, arGot, arSame, arSteps,
              pvCall, pvTail, pvFlight, pvGen, pvOld, pvActs>>
pageVars == <<arFolder, arCursor, arQuery, arGot, arSame, arSteps>>
previewVars == <<pvCall, pvTail, pvFlight, pvGen, pvOld, pvActs>>

-----------------------------------------------------------------------------
(* Pages.  Entries 3 and 4 are folders; entry 2 has no time.                *)
Entries == 1..4
IsFolder(e) == e \in {3, 4}
TimeOf(e) == IF e = 2 THEN 0 ELSE e     \* 0: none, which is in no range
Queries == [kind : {"all", "files"}, from : {0, 3}]
NoCursor == [query |-> [kind |-> "all", from |-> 0], offset |-> 0]

(* The filters, and folders first, then names.                              *)
Qualifies(e, q) == (q.kind = "files" => ~IsFolder(e)) /\ (q.from > 0 => TimeOf(e) # 0 /\ TimeOf(e) >= q.from)
Before(d, e) == IF IsFolder(d) = IsFolder(e) THEN d < e ELSE IsFolder(d)
Matched(q) ==
  LET matches == {e \in arFolder : Qualifies(e, q)}
  IN  [i \in 1..Cardinality(matches) |-> CHOOSE e \in matches : Cardinality({d \in matches : Before(d, e)}) = i - 1]

(* One call of list_directory; a cursor of another query is refused.        *)
PageFrom(q, offset, limit) ==
  LET all == Matched(q)
      end == IF offset + limit < Len(all) THEN offset + limit ELSE Len(all)
      page == SubSeq(all, offset + 1, end)
      to == offset + Len(page) IN
  /\ arGot' = (IF offset = 0 THEN <<>> ELSE arGot) \o page
  /\ arCursor' = IF to < Len(all) THEN [query |-> q, offset |-> to] ELSE NoCursor

PageSteps == arWhat = "pages" /\ arSteps < MaxReadSteps /\ arSteps' = arSteps + 1
FirstPage ==
  /\ PageSteps
  /\ \E q \in Queries, limit \in 1..2 : arQuery' = q /\ PageFrom(q, 0, limit)
  /\ arSame' = TRUE
  /\ UNCHANGED arFolder
NextPage ==
  /\ PageSteps /\ arCursor.offset > 0
  /\ \E q \in Queries, limit \in 1..2 :
       IF q = arCursor.query THEN PageFrom(q, arCursor.offset, limit) ELSE UNCHANGED <<arGot, arCursor>>
  /\ UNCHANGED <<arFolder, arQuery, arSame>>
FolderChanges ==
  /\ PageSteps
  /\ \E e \in Entries : arFolder' = IF e \in arFolder THEN arFolder \ {e} ELSE arFolder \union {e}
  /\ arSame' = FALSE
  /\ UNCHANGED <<arCursor, arQuery, arGot>>

-----------------------------------------------------------------------------
(* Previews.  Of path 3 there is no image.                                  *)
AskedFor == {<<1, 2>>, <<1, 3, 1>>, <<2, 1, 3>>}
Requests(c) == Only(pvCall[c].paths, {1, 2})
Out(ok, image) == [ok |-> ok, image |-> image]
ImageOf(p) == Out(TRUE, p)
Failed == Out(FALSE, 0)

(* The loop over the requests, as far as it comes without waiting: all that *)
(* is left fails when the connection changed or the call was stopped; what  *)
(* was made before is not made again.                                      *)
Fill(c, outs) ==
  LET reqs == Requests(c)
      halted == pvGen' # pvCall[c].started \/ pvCall[c].stopped
      made(i) == {j \in 1..Len(outs) : reqs[j] = reqs[i]}
      reached == {n \in Len(outs)..Len(reqs) : halted \/ \A i \in (Len(outs) + 1)..n : made(i) # {}}
      end == CHOOSE n \in reached : \A m \in reached : m <= n
  IN  [i \in 1..end |-> IF i <= Len(outs) THEN outs[i]
                        ELSE IF halted THEN Failed ELSE outs[CHOOSE j \in made(i) : TRUE]]

(* Then it waits for the next image, or answers and the next call runs.     *)
PreviewGoesOn(c, outs) ==
  LET filled == Fill(c, outs)
      ended == Len(filled) = Len(Requests(c)) IN
  /\ pvCall' = [pvCall EXCEPT ![c].outs = filled, ![c].at = IF ended THEN "ended" ELSE "running"]
  /\ pvTail' = IF ended THEN Tail(pvTail) ELSE pvTail
  /\ pvFlight' = IF ended THEN 0 ELSE Requests(c)[Len(filled) + 1]

PreviewsAsked(c, paths) ==
  /\ pvCall[c].at = "none"
  /\ pvCall' = [pvCall EXCEPT ![c].paths = paths, ![c].at = "looking"]
  /\ UNCHANGED <<pvTail, pvFlight, pvGen, pvOld, pvActs>>

(* The folder was listed; a stopped call asks for nothing.                  *)
PreviewsQueued(c) ==
  /\ pvCall[c].at = "looking"
  /\ IF pvCall[c].stopped THEN pvCall' = [pvCall EXCEPT ![c].at = "ended"] /\ UNCHANGED pvTail
     ELSE /\ pvCall' = [pvCall EXCEPT ![c].at = "queued", ![c].started = pvGen]
          /\ pvTail' = Append(pvTail, c)
  /\ UNCHANGED <<pvFlight, pvGen, pvOld, pvActs>>

PreviewTurn(c) ==
  /\ pvTail # <<>> /\ c = Head(pvTail) /\ pvCall[c].at = "queued"
  /\ UNCHANGED pvGen /\ PreviewGoesOn(c, <<>>)
  /\ UNCHANGED <<pvOld, pvActs>>

(* finish(): an image, or that there is none, of the path that is awaited.  *)
Awaited(p) == pvFlight # 0 /\ pvFlight = p
ImageCame ==
  /\ pvFlight # 0
  /\ UNCHANGED pvGen
  /\ \E out \in {ImageOf(pvFlight), Failed} : PreviewGoesOn(Head(pvTail), Append(pvCall[Head(pvTail)].outs, out))
  /\ UNCHANGED <<pvOld, pvActs>>

(* A queue that was given up reports after all.                             *)
OldImageCame(p) ==
  /\ p \in pvOld /\ pvOld' = pvOld \ {p}
  /\ UNCHANGED pvGen
  /\ IF Awaited(p) THEN PreviewGoesOn(Head(pvTail), Append(pvCall[Head(pvTail)].outs, ImageOf(p)))
     ELSE UNCHANGED <<pvCall, pvTail, pvFlight>>
  /\ UNCHANGED pvActs

(* reset(): the status of the connection changed.                           *)
ConnectionChanged ==
  /\ pvActs < MaxResets /\ pvActs' = pvActs + 1
  /\ pvGen' = pvGen + 1
  /\ pvOld' = IF pvFlight = 0 THEN pvOld ELSE pvOld \union {pvFlight}
  /\ IF pvFlight = 0 THEN UNCHANGED <<pvCall, pvTail, pvFlight>>
     ELSE PreviewGoesOn(Head(pvTail), Append(pvCall[Head(pvTail)].outs, Failed))

PreviewStopped(c) ==
  /\ pvActs < MaxResets /\ pvActs' = pvActs + 1
  /\ pvCall[c].at \notin {"none", "ended"}
  /\ pvCall' = [pvCall EXCEPT ![c].stopped = TRUE]
  /\ UNCHANGED <<pvTail, pvFlight, pvGen, pvOld>>

-----------------------------------------------------------------------------
ReadingInit ==
  /\ arWhat \in {"pages", "previews"}
  /\ arFolder = Entries /\ arCursor = NoCursor /\ arQuery = NoCursor.query /\ arGot = <<>>
  /\ arSame = FALSE /\ arSteps = 0
  /\ pvCall = [c \in ReadCalls |-> [paths |-> <<>>, at |-> "none", stopped |-> FALSE, started |-> 0, outs |-> <<>>]]
  /\ pvTail = <<>> /\ pvFlight = 0 /\ pvGen = 0 /\ pvOld = {} /\ pvActs = 0

ReadingProgress ==
  /\ arWhat = "previews"
  /\ ImageCame \/ \E c \in ReadCalls : PreviewsQueued(c) \/ PreviewTurn(c)
  /\ UNCHANGED <<arWhat, pageVars>>

ReadingNext ==
  \/ ReadingProgress
  \/ (FirstPage \/ NextPage \/ FolderChanges) /\ UNCHANGED <<arWhat, previewVars>>
  \/ /\ arWhat = "previews"
     /\ \/ \E c \in ReadCalls : PreviewStopped(c) \/ \E paths \in AskedFor : PreviewsAsked(c, paths)
        \/ ConnectionChanged \/ \E p \in {1, 2} : OldImageCame(p)
     /\ UNCHANGED <<arWhat, pageVars>>

ReadingSpec == ReadingInit /\ [][ReadingNext]_readVars /\ WF_readVars(ReadingProgress)

-----------------------------------------------------------------------------
ReadingTypeOK ==
  /\ arFolder \subseteq Entries
  /\ \A c \in ReadCalls : Len(pvCall[c].outs) <= Len(Requests(c))
  /\ pvFlight # 0 => pvTail # <<>> /\ pvCall[Head(pvTail)].at = "running"

(* The pages of a folder that does not change are together what matches,    *)
(* each entry once, whatever the sizes of the pages.                        *)
PagesCover ==
  arSame => /\ IsPrefix(arGot, Matched(arQuery))
            /\ arCursor.offset = 0 => arGot = Matched(arQuery)

(* The images of an answer are those of the previews that are said to be    *)
(* fine, in their order: what the command line saves is what it names.      *)
FineOnes(c) ==
  LET outs == pvCall[c].outs
  IN  Picked([i \in 1..Len(outs) |-> [path |-> Requests(c)[i], out |-> outs[i]]], {i \in 1..Len(outs) : outs[i].ok})
PreviewsPaired == \A c \in ReadCalls : \A i \in DOMAIN FineOnes(c) : FineOnes(c)[i].path = FineOnes(c)[i].out.image

(* Nothing waits for an image that no queue makes: a call that runs has one *)
(* in flight, and one that was asked for before the connection changed ends.*)
NoneForgotten == \A c \in ReadCalls : /\ pvCall[c].at = "running" => pvFlight # 0 /\ Head(pvTail) = c
                                      /\ pvCall[c].at = "queued" => c \in ToSet(pvTail)

ReadingSafe == ReadingTypeOK /\ PagesCover /\ PreviewsPaired /\ NoneForgotten

ReadingAtRest == \A c \in ReadCalls : pvCall[c].at \in {"none", "ended"}
=============================================================================
