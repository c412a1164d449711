------------------------------ MODULE FolderPlan ------------------------------
(***************************************************************************)
(* A send is planned without any state (folderPlan.ts, sameSidePlan.ts):   *)
(* the sources are walked against the destination, each file becomes an    *)
(* item to transfer, something left out or a conflict, and while a         *)
(* conflict has no decision the plan is thrown away and the window asks.   *)
(* The answer comes with the same request, to be planned anew against what *)
(* the two sides hold by then.  Paths below the destination are sequences  *)
(* of names, sources are sequences of positions.  A name is its stem, the  *)
(* numbers put behind it and how it is spelt: "upper" differs in case,     *)
(* "raw" has characters this computer refuses, "unusable" is no name here. *)
(***************************************************************************)
EXTENDS Naturals, Sequences, FiniteSets, SequencesExt

CONSTANTS MaxPlanChanges   \* bound: changes of the two sides while the sheet is open

ASSUME PlanAssumption == MaxPlanChanges \in Nat

VARIABLES fpMode,       \* a download, a send "into" a server (upload, relay), or "same" side
          fpFold,       \* this computer's names do not tell cases apart
          fpSources,    \* what is sent
          fpAsked,      \* the sources asked for, by position
          fpHere,       \* what the destination holds
          fpDecisions,  \* [target -> decision] of the request
          fpNewer,      \* the incoming files are newer
          fpStage, fpConflicts,
          fpResult,     \* what is queued at last
          fpChanges     \* changes so far (bound)

folderPlanVars == <<fpMode, fpFold, fpSources, fpAsked, fpHere, fpDecisions, fpNewer, fpStage,
                    fpConflicts, fpResult, fpChanges>>

Decisions == {"overwrite", "rename", "newer", "skip"}

-----------------------------------------------------------------------------
(* Names (entryName.ts)                                                     *)

Named(s, f) == [stem |-> s, nums |-> <<>>, form |-> f]
Folding == fpFold /\ fpMode # "into"
Key(n) == IF Folding /\ n.form = "upper" THEN [n EXCEPT !.form = "plain"] ELSE n
Keys(s) == {Key(n) : n \in s}
LocalName(n) == IF n.form = "raw" THEN [n EXCEPT !.form = "plain"] ELSE n

(* name (1), name (2), ...: the first that is free.                         *)
Candidate(name, n) == [name EXCEPT !.nums = Append(@, n)]
FirstFree(name, taken) ==
  LET free == {n \in 1..Cardinality(taken) + 1 : Key(Candidate(name, n)) \notin Keys(taken)}
  IN  Candidate(name, CHOOSE n \in free : \A m \in free : n <= m)
FreeName(name, taken) == FirstFree(name, taken \union {name})

(* The first of equal names keeps it, the others get a number that avoids every name of the batch. *)
UniqueNames(names) ==
  LET next(out, name) == Append(out, IF Key(name) \notin Keys(ToSet(out)) THEN name
                                     ELSE FirstFree(name, ToSet(out) \union ToSet(names)))
  IN  FoldLeft(next, <<>>, names)

-----------------------------------------------------------------------------
(* Entries.  Bound: what is sent is at most a folder of files deep, so a    *)
(* function that calls itself for a folder is one of the outer level that is *)
(* given the one for the level below.                                      *)

Entry(n, k, inside) == [name |-> n, kind |-> k, kids |-> inside]
File(n) == Entry(n, "file", <<>>)
Numbered(path, entries) == [i \in DOMAIN entries |-> [source |-> Append(path, i), entry |-> entries[i]]]

(* findRemote: the entry of every path asked for, or none where one is missing. *)
Missing == \E p \in ToSet(fpAsked) : p[1] > Len(fpSources)
EntryOf(p) == IF Len(p) = 1 THEN fpSources[p[1]] ELSE fpSources[p[1]].kids[p[2]]
Outermost(paths) ==
  SelectSeq(paths, LAMBDA p : ~\E o \in ToSet(paths) : o # p /\ IsPrefix(o, p))
Found == LET tops == Outermost(fpAsked)
         IN  [i \in DOMAIN tops |-> [source |-> tops[i], entry |-> EntryOf(tops[i])]]

Kept(here, name) == {h \in here : Key(h.name) = Key(name)}
KindAt(here, name) == IF Kept(here, name) = {} THEN "none"
                      ELSE (CHOOSE h \in Kept(here, name) : TRUE).kind
KidsAt(here, name) == UNION {ToSet(h.kids) : h \in Kept(here, name)}

EmptyPlan == [items |-> <<>>, dirs |-> <<>>, skipped |-> <<>>, conflicts |-> <<>>]
Item(src, at) == [source |-> src, target |-> at, over |-> FALSE]
Skips(plan, src) == [plan EXCEPT !.skipped = Append(@, src)]
Adds(plan, src, at) == [plan EXCEPT !.items = Append(@, Item(src, at))]
Asks(plan, src, at) ==
  [plan EXCEPT !.conflicts = Append(@, [source |-> src, target |-> at, renameTo |-> at,
                                        skipAt |-> Len(plan.skipped)])]
Renames(plan, i, name) == [plan EXCEPT !.conflicts[i].renameTo = Append(Front(@), name)]

-----------------------------------------------------------------------------
(* planDownload: place() for one folder; here is what that folder holds,    *)
(* Below places the folders in it.                                         *)

UsableHere(item) == item.entry.kind # "link" /\ item.entry.name.form # "unusable"

PlaceIn(plan, dir, here, items, Below(_, _, _, _)) ==
  LET usable == SelectSeq(items, UsableHere)
      left   == SelectSeq(items, LAMBDA item : ~UsableHere(item))
      names  == UniqueNames([i \in DOMAIN usable |-> LocalName(usable[i].entry.name)])
      put(st, i) ==
        LET src    == usable[i].source
            entry  == usable[i].entry
            at     == Append(dir, names[i])
            taken  == KindAt(here, names[i])
            noted  == IF taken = "none" THEN st.occupied \union {names[i]} ELSE st.occupied
            made   == IF taken = "none" THEN [st.plan EXCEPT !.dirs = Append(@, at)] ELSE st.plan
        IN  IF entry.kind = "dir" /\ taken # "file"
            THEN [st EXCEPT !.occupied = noted,
                            !.plan = Below(made, at, KidsAt(here, names[i]), Numbered(src, entry.kids))]
            ELSE IF entry.kind = "file" /\ taken = "file"
            THEN [st EXCEPT !.plan = Asks(st.plan, src, at), !.mine = Append(@, Len(st.plan.conflicts) + 1)]
            ELSE IF taken # "none" THEN [st EXCEPT !.plan = Skips(st.plan, src)]
            ELSE [st EXCEPT !.occupied = noted, !.plan = Adds(st.plan, src, at)]
      placed == FoldLeft(put, [plan |-> [plan EXCEPT !.skipped = @ \o [i \in DOMAIN left |-> left[i].source]],
                               occupied |-> {h.name : h \in here}, mine |-> <<>>],
                         [i \in DOMAIN usable |-> i])
      rename(st, i) ==
        LET free == FreeName(Last(st.plan.conflicts[i].target), st.occupied)
        IN  [plan |-> Renames(st.plan, i, free), occupied |-> st.occupied \union {free}]
  IN  FoldLeft(rename, [plan |-> placed.plan, occupied |-> placed.occupied], placed.mine).plan

NoneBelow(plan, dir, here, items) == plan
PlaceFiles(plan, dir, here, items) == PlaceIn(plan, dir, here, items, NoneBelow)
PlaceAll(plan, dir, here, items) == PlaceIn(plan, dir, here, items, PlaceFiles)

-----------------------------------------------------------------------------
(* planUpload, planRelay: the files below the sources, then planIntoRemote. *)

CollectedIn(items, prefix, Below(_, _)) ==
  LET files(out, item) ==
        LET rel == Append(prefix, item.entry.name)
        IN  out \o (IF item.entry.kind = "dir" THEN Below(Numbered(item.source, item.entry.kids), rel)
                    ELSE <<[source |-> item.source, rel |-> rel, link |-> item.entry.kind = "link"]>>)
  IN  FoldLeft(files, <<>>, items)

NoFiles(items, prefix) == <<>>
CollectedFiles(items, prefix) == CollectedIn(items, prefix, NoFiles)
Collected(items, prefix) == CollectedIn(items, prefix, CollectedFiles)

(* A folder of the server: absent it is empty, and something else may stand in its place. *)
Blocked(dir) == dir # <<>> /\ KindAt(fpHere, dir[1]) \in {"file", "link"}
FolderAt(dir) == IF dir = <<>> THEN fpHere
                 ELSE IF KindAt(fpHere, dir[1]) = "dir" THEN KidsAt(fpHere, dir[1]) ELSE {}

PlanIntoRemote(files) ==
  LET put(st, f) ==
        LET dir      == Front(f.rel)
            unusable == \E i \in DOMAIN f.rel : f.rel[i].form = "unusable"
            there    == KindAt(FolderAt(dir), Last(f.rel))
            above    == IF dir = <<>> \/ Contains(st.plan.dirs, dir) THEN <<>> ELSE <<dir>>
            added    == Adds(st.plan, f.source, f.rel)
        IN  [seen |-> st.seen \union {f.rel},
             plan |-> IF unusable \/ f.rel \in st.seen \/ Blocked(dir) \/ there = "dir"
                      THEN Skips(st.plan, f.source)
                      ELSE IF there # "none" THEN Asks(st.plan, f.source, f.rel)
                      ELSE [added EXCEPT !.dirs = @ \o above]]
      links  == SelectSeq(files, LAMBDA f : f.link)
      walked == FoldLeft(put, [seen |-> {}, plan |-> [EmptyPlan EXCEPT !.skipped =
                                                       [i \in DOMAIN links |-> links[i].source]]],
                         SelectSeq(files, LAMBDA f : ~f.link)).plan
      rename(st, i) ==
        LET at   == walked.conflicts[i].target
            here == {h.name : h \in FolderAt(Front(at))} \union
                    {Last(p) : p \in {q \in st.entering : Front(q) = Front(at)}}
            free == FreeName(Last(at), here)
        IN  [plan |-> Renames(st.plan, i, free), entering |-> st.entering \union {Append(Front(at), free)}]
  IN  FoldLeft(rename, [plan |-> walked,
                        entering |-> {t.target : t \in ToSet(walked.items)} \union ToSet(walked.dirs)],
               [i \in DOMAIN walked.conflicts |-> i]).plan

-----------------------------------------------------------------------------
(* resolvePlan: the decisions applied, and the conflicts that have none.    *)

Decided(at) == IF at \in DOMAIN fpDecisions THEN fpDecisions[at] ELSE "none"
Overwrites(d) == d = "overwrite" \/ (d = "newer" /\ fpNewer)

Resolve(plan) ==
  LET apply(st, c) ==
        LET d == Decided(c.target)
        IN  IF Overwrites(d)
            THEN [st EXCEPT !.items = Append(@, [Item(c.source, c.target) EXCEPT !.over = TRUE])]
            ELSE IF d = "rename" THEN [st EXCEPT !.items = Append(@, Item(c.source, c.renameTo))]
            ELSE IF d \in {"skip", "newer"}
            THEN [st EXCEPT !.skipped = InsertAt(@, c.skipAt + st.inserted + 1, c.source),
                            !.inserted = @ + 1]
            ELSE [st EXCEPT !.open = @ \union {c.target}]
  IN  FoldLeft(apply, [items |-> plan.items, skipped |-> plan.skipped, dirs |-> plan.dirs,
                       open |-> {}, inserted |-> 0], plan.conflicts)

(* planSameSide, its decisions included: a folder is never written over.    *)
PlanSameSide(items) ==
  LET put(st, item) ==
        LET name   == item.entry.name
            there  == KindAt(fpHere, name)
            d      == Decided(<<name>>)
            folder == item.entry.kind = "dir" \/ there = "dir"
            free   == FreeName(name, st.taken)
            beside == [st EXCEPT !.items = Append(@, Item(item.source, <<free>>)),
                                 !.taken = @ \union {free}]
            met    == [st EXCEPT !.sent = @ \union {Key(name)}]
        IN  IF Key(name) \in st.sent THEN beside
            ELSE IF there = "none" THEN [met EXCEPT !.items = Append(@, Item(item.source, <<name>>))]
            ELSE IF d = "none" THEN [met EXCEPT !.open = @ \union {<<name>>}]
            ELSE IF d = "rename" THEN [beside EXCEPT !.sent = met.sent]
            ELSE IF ~folder /\ Overwrites(d)
            THEN [met EXCEPT !.items = Append(@, [Item(item.source, <<name>>) EXCEPT !.over = TRUE])]
            ELSE [met EXCEPT !.skipped = Append(@, item.source)]
  IN  FoldLeft(put, [items |-> <<>>, skipped |-> <<>>, dirs |-> <<>>, open |-> {}, sent |-> {},
                     taken |-> {h.name : h \in fpHere} \union {i.entry.name : i \in ToSet(items)}], items)

Planned ==
  CASE fpMode = "download" -> Resolve(PlaceAll(EmptyPlan, <<>>, fpHere, Found))
    [] fpMode = "into"     -> Resolve(PlanIntoRemote(Collected(Found, <<>>)))
    [] OTHER               -> PlanSameSide(Found)

-----------------------------------------------------------------------------
(* transfer:send, and the loop of useTransferStore.send around it.          *)

Nothing == [items |-> <<>>, skipped |-> <<>>, dirs |-> <<>>]

SendPlanned ==
  /\ fpStage = "asking"
  /\ IF Missing THEN fpStage' = "failed" /\ UNCHANGED <<fpConflicts, fpResult>>
     ELSE LET plan == Planned
          IN  IF plan.open # {}
              THEN fpStage' = "sheet" /\ fpConflicts' = plan.open /\ UNCHANGED fpResult
              ELSE /\ fpStage' = "queued" /\ UNCHANGED fpConflicts
                   /\ fpResult' = [items |-> plan.items, skipped |-> plan.skipped, dirs |-> plan.dirs]
  /\ UNCHANGED <<fpMode, fpFold, fpSources, fpAsked, fpHere, fpDecisions, fpNewer, fpChanges>>

(* The sheet decides each conflict, or one and all that follow it; a folder is kept beside. *)
SheetDecides ==
  /\ fpStage = "sheet"
  /\ \E d \in [fpConflicts -> Decisions] :
       fpDecisions' = [at \in DOMAIN fpDecisions \union fpConflicts |->
                         IF at \in fpConflicts THEN d[at] ELSE fpDecisions[at]]
  /\ fpStage' = "asking" /\ fpConflicts' = {}
  /\ UNCHANGED <<fpMode, fpFold, fpSources, fpAsked, fpHere, fpNewer, fpResult, fpChanges>>

SheetClosed ==
  /\ fpStage = "sheet"
  /\ fpStage' = "failed"
  /\ UNCHANGED <<fpMode, fpFold, fpSources, fpAsked, fpHere, fpDecisions, fpNewer, fpConflicts,
                 fpResult, fpChanges>>

(* Meanwhile somebody puts a file in the destination, takes one away, or removes a source.
   A send within one side reads the destination once (sendItems.ts:96-107), so nothing is new to it. *)
SidesChange ==
  /\ fpStage = "sheet" /\ fpMode # "same" /\ fpChanges < MaxPlanChanges
  /\ fpChanges' = fpChanges + 1
  /\ \/ \E s \in {"a", "b"}, n \in {<<>>, <<1>>} :
          LET new == File([Named(s, "plain") EXCEPT !.nums = n])
          IN  KindAt(fpHere, new.name) = "none" /\ fpHere' = fpHere \union {new} /\ UNCHANGED fpSources
     \/ \E h \in fpHere : fpHere' = fpHere \ {h} /\ UNCHANGED fpSources
     \/ fpMode # "same" /\ fpSources' = Front(fpSources) /\ UNCHANGED fpHere
  /\ UNCHANGED <<fpMode, fpFold, fpAsked, fpDecisions, fpNewer, fpStage, fpConflicts, fpResult>>

-----------------------------------------------------------------------------
(* Sources: equal names from two folders, names that meet on this computer  *)
(* only, a name that looks numbered, folders, a link, no name at all.       *)
A == Named("a", "plain")
Offers == <<File(A), File(Named("a", "raw")), File([A EXCEPT !.nums = <<1>>]),
            Entry(A, "dir", <<File(A), File(Named("a", "raw"))>>),
            Entry(Named("b", "plain"), "dir", <<File(A)>>),
            Entry(A, "link", <<>>), File(Named("a", "unusable")), File(Named("a", "upper"))>>
SourceLists ==
  {<<Offers[i]>> : i \in DOMAIN Offers} \union
  {<<Offers[i], Offers[j]>> : i, j \in DOMAIN Offers} \union
  {<<Offers[p[1]], Offers[p[2]], Offers[p[3]]>> : p \in {<<1, 2, 3>>, <<3, 2, 8>>, <<1, 4, 2>>, <<4, 5, 7>>}}
Fitting(mode, list) ==
  CASE mode = "same" -> \A i \in DOMAIN list : list[i].kind # "link" /\ list[i].name.form \in {"plain", "upper"}
    [] OTHER -> TRUE

Holdings ==
  {{}, {File(A)}, {File(A), File([A EXCEPT !.nums = <<1>>])}, {File(Named("a", "upper"))},
   {Entry(A, "dir", <<File(A)>>), File(Named("b", "plain"))},
   {Entry(Named("b", "plain"), "dir", <<File(A), Entry([A EXCEPT !.nums = <<1>>], "dir", <<>>)>>), File(A)}}

FolderPlanInit ==
  /\ fpMode \in {"download", "into", "same"}
  /\ fpFold \in (IF fpMode = "into" THEN {FALSE} ELSE BOOLEAN)
  /\ fpSources \in {l \in SourceLists : Fitting(fpMode, l)}
  /\ LET tops == [i \in DOMAIN fpSources |-> <<i>>]
     IN  fpAsked \in {tops} \union {Append(tops, <<i, 1>>) : i \in {k \in DOMAIN fpSources :
                                      fpMode = "download" /\ fpSources[k].kids # <<>>}}
  /\ fpHere \in Holdings
  /\ fpNewer \in BOOLEAN
  /\ fpDecisions = [at \in {} |-> "skip"]
  /\ fpStage = "asking"
  /\ fpConflicts = {}
  /\ fpResult = Nothing
  /\ fpChanges = 0

FolderPlanNext == SendPlanned \/ SheetDecides \/ SheetClosed \/ SidesChange

FolderPlanSpec == FolderPlanInit /\ [][FolderPlanNext]_folderPlanVars

-----------------------------------------------------------------------------
FolderPlanTypeOK ==
  /\ fpStage \in {"asking", "sheet", "queued", "failed"}
  /\ fpConflicts # {} => fpStage \in {"sheet", "failed"}
  /\ fpStage # "queued" => fpResult = Nothing
  /\ fpChanges <= MaxPlanChanges

Queued == IF fpStage = "queued" THEN DOMAIN fpResult.items ELSE {}
Target(i) == fpResult.items[i].target
FoldPath(p) == [i \in DOMAIN p |-> Key(p[i])]

(* No two transfers of one send write to one path, the new names of conflicts and numbered names
   included, on a computer that does not tell cases apart too (entryName.ts:72-83, folderPlan.ts:98). *)
OneTransferPerPath == \A i, j \in Queued : i # j => FoldPath(Target(i)) # FoldPath(Target(j))

(* A path that is taken when the plan is made is written to only if that very path was decided so,
   whatever changed since the question; a folder is never written over (D9, D10, D32).            *)
KindOf(p) == IF Len(p) = 1 THEN KindAt(fpHere, p[1]) ELSE KindAt(FolderAt(Front(p)), Last(p))
NothingReplacedUnasked ==
  \A i \in Queued : KindOf(Target(i)) # "none" =>
    /\ KindOf(Target(i)) = "file"
    /\ fpResult.items[i].over /\ Overwrites(Decided(Target(i)))

(* Every file asked for is transferred or reported as left out, once.                              *)
Leaves(src, entry) ==
  IF entry.kind = "dir" THEN {Append(src, k) : k \in DOMAIN entry.kids} ELSE {src}
Accounted(src) ==
  Cardinality({i \in Queued : fpResult.items[i].source = src})
    + Cardinality({i \in DOMAIN fpResult.skipped : IsPrefix(fpResult.skipped[i], src)})
NothingLost ==
  fpStage = "queued" =>
    \A f \in ToSet(Found) : \A src \in Leaves(f.source, f.entry) : Accounted(src) = 1

(* The folder of every file is there or is made first, and no file of the destination is in the way.
   A send into a server may name one path for a file and for a folder (see the README).            *)
FoldersReady ==
  \A i \in Queued :
    LET dir == Front(Target(i))
    IN  \/ dir = <<>>
        \/ KindAt(fpHere, dir[1]) = "dir"
        \/ KindAt(fpHere, dir[1]) = "none" /\ Contains(fpResult.dirs, dir)
FilesApartFromFolders ==
  fpMode = "download" => \A i \in Queued : FoldPath(Target(i)) \notin {FoldPath(d) : d \in ToSet(fpResult.dirs)}

(* The first of equal names keeps its name, also one that looks like a numbered copy of another: a
   number is given around the names of the whole batch (entryName.ts:70-74).                      *)
Namesakes(src) ==
  {k \in 1..Last(src) - 1 : LET e == EntryOf(Append(Front(src), k))
                           IN  UsableHere([entry |-> e]) /\ Key(LocalName(e.name)) = Key(LocalName(EntryOf(src).name))}
FirstKeepsName ==
  fpMode = "download" => \A i \in Queued :
    LET src == fpResult.items[i].source
        own == Append(Front(Target(i)), LocalName(EntryOf(src).name))
    IN  Namesakes(src) = {}
          => Target(i) = own \/ Decided(own) = "rename"

FolderPlanSafe ==
  /\ FolderPlanTypeOK /\ OneTransferPerPath /\ NothingReplacedUnasked
  /\ (fpMode # "same" => NothingLost) /\ FoldersReady /\ FilesApartFromFolders /\ FirstKeepsName
=============================================================================
