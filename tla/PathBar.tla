------------------------------- MODULE PathBar -------------------------------
(***************************************************************************)
(* The bar above a folder (PathBar.tsx, pathBarTools.ts, pathCrumbs.ts):    *)
(* which tools fit and which are folded away behind the last button, where  *)
(* the search field is drawn and when it gets the keyboard, and the typed    *)
(* path.  What an event sets is drawn by the next commits, in which the      *)
(* tools are measured and the focus is given; no event comes between them.   *)
(***************************************************************************)
EXTENDS Integers, Sequences, FiniteSets, SequencesExt

CONSTANTS
  BarWidths,     \* clientWidth of the bar
  WidestBar,     \* bound: all widths up to it are checked for what fits
  BarPlaces,     \* folders one may type or click
  MaxBarActs     \* bound: what the user does

ASSUME BarAssumption == /\ BarWidths \subseteq Nat \ {0} /\ WidestBar \in Nat
                        /\ BarPlaces \subseteq Nat \ {0} /\ MaxBarActs \in Nat

VARIABLES
  pbBar, pbCompact,   \* its width and what the ResizeObserver made of it
  pbFit,              \* fit, with the shape of the search it was measured for
  pbOpen,             \* searchOpen, of the pane
  pbQuery,            \* the tab has a query
  pbCounted,          \* the filter hides something: its count takes room
  pbPopover,          \* filterOpen
  pbEdit,             \* editingPath, of the pane
  pbDrawn,            \* the last commit: the measured shape, searchOpen, where the field is
  pbWaits,            \* focusSearch
  pbFocus,            \* what has the keyboard
  pbDue,              \* a commit is due
  pbAt,               \* the folder shown by the tab
  pbGoes,             \* typed paths that are being read
  pbAsked,            \* history: the search was opened and nothing was done since
  pbActs

barVars == <<pbBar, pbCompact, pbFit, pbOpen, pbQuery, pbCounted, pbPopover, pbEdit, pbDrawn, pbWaits,
             pbFocus, pbDue, pbAt, pbGoes, pbAsked, pbActs>>

-----------------------------------------------------------------------------
ToolOrder == <<"forward", "reload", "search", "filter", "sort", "view", "newFolder", "info">>
ToolKeep == <<"search", "filter", "sort", "view", "forward", "reload", "newFolder", "info">>
BarPad == 24
ToolGap == 6
FixedWidth == 32 + ToolGap + 32 + ToolGap + 4      \* back, up, the margin of the crumbs
CrumbMin == 160
CrumbFloor == 96

(* The measured widths: of the shape drawn last.                            *)
ToolWidth(shape) ==
  [t \in ToSet(ToolOrder) |->
     CASE t = "search" -> IF ~shape.search THEN 36 ELSE IF shape.compact THEN 150 ELSE 200
       [] t = "filter" -> (IF shape.compact THEN 36 ELSE 84) + (IF shape.counted THEN 22 ELSE 0)
       [] t = "sort" -> IF shape.compact THEN 52 ELSE 110
       [] t = "view" -> 68
       [] t = "reload" -> 28
       [] OTHER -> 32]

Folded(tools, gone) == SelectSeq(tools, LAMBDA t : t \notin gone)
RoomOf(w, tools) == FoldLeft(LAMBDA sum, t : sum + w[t] + (IF t = "reload" THEN 0 ELSE ToolGap), 0, tools)
Between(lo, n, hi) == IF n < lo THEN lo ELSE IF n > hi THEN hi ELSE n

(* The tools in the order they are kept in, as far as the budget goes; an    *)
(* open search that does not fit takes the place of the crumbs.             *)
KeptTools(w, room, searchOpen) ==
  FoldLeft(LAMBDA acc, t :
             IF acc.full THEN acc
             ELSE IF RoomOf(w, <<t>>) <= acc.budget
                  THEN [acc EXCEPT !.keep = @ \union {t}, !.budget = @ - RoomOf(w, <<t>>)]
             ELSE IF t = "search" /\ searchOpen THEN [acc EXCEPT !.slot = TRUE]
             ELSE [acc EXCEPT !.full = TRUE],
           [keep |-> {}, slot |-> FALSE, full |-> FALSE, budget |-> room - Between(CrumbFloor, room, CrumbMin)],
           ToolKeep)

FitPathTools(bar, w, searchOpen) ==
  LET inner == bar - BarPad
      free == inner - FixedWidth - RoomOf(w, ToolOrder)
      room == inner - FixedWidth - (32 + ToolGap)
      kept == KeptTools(w, room, searchOpen)
      shown == Folded(ToolOrder, ToSet(ToolOrder) \ kept.keep)
  IN  IF free >= CrumbMin
      THEN [shown |-> ToolOrder, overflow |-> <<>>, slot |-> FALSE, crumbs |-> free]
      ELSE [shown |-> shown, slot |-> kept.slot, crumbs |-> room - RoomOf(w, shown),
            overflow |-> Folded(ToolOrder, kept.keep \union (IF kept.slot THEN {"search"} ELSE {}))]

(* fitCrumbs(): how many of the folders below the root are named, the last   *)
(* ones; the others are behind an ellipsis.                                *)
CrumbsFit(widths, n, available, more) ==
  Head(widths) + (IF n < Len(widths) - 1 THEN more ELSE 0)
    + FoldLeft(LAMBDA sum, x : sum + x, 0, SubSeq(widths, Len(widths) - n + 1, Len(widths))) <= available
FitCrumbs(widths, available, more) ==
  LET keep[n \in 0..(Len(widths) - 1)] ==
        IF n > 1 /\ ~CrumbsFit(widths, n, available, more) THEN keep[n - 1] ELSE n
  IN  keep[Len(widths) - 1]

-----------------------------------------------------------------------------
ShowSearch == ~pbCompact \/ pbOpen \/ pbQuery
Shape == [search |-> ShowSearch, compact |-> pbCompact, counted |-> pbCounted]
Measured(bar, shape) == [forSearch |-> shape.search, fit |-> FitPathTools(bar, ToolWidth(shape), shape.search)]

(* Where the field is drawn, if it is: an input in the slot and one among    *)
(* the tools are two.                                                      *)
FieldPlace ==
  LET fit == pbFit.fit IN
  CASE fit.slot /\ ShowSearch -> IF pbEdit THEN "none" ELSE "slot"
    [] ~(fit.slot /\ ShowSearch) /\ Contains(fit.shown, "search") -> IF ShowSearch THEN "bar" ELSE "button"
    [] OTHER -> "none"
IsField(place) == place \in {"slot", "bar"}
FilterFolded == ~Contains(pbFit.fit.shown, "filter")

(* One commit: what is drawn, measured again if its shape changed; the       *)
(* field gets the keyboard if it was asked for and measured as it is now.    *)
Commit ==
  /\ pbDue
  /\ LET place == FieldPlace
         waits == IF pbOpen # pbDrawn.open THEN pbOpen ELSE pbWaits
         given == waits /\ IsField(place) /\ pbFit.forSearch = ShowSearch
         lost == \/ pbFocus = "search" /\ place # pbDrawn.place
                 \/ pbFocus = "path" /\ ~pbEdit
     IN  /\ pbDrawn' = [shape |-> Shape, open |-> pbOpen, place |-> place, edit |-> pbEdit]
         /\ pbFocus' = IF given THEN "search"
                       ELSE IF pbEdit /\ ~pbDrawn.edit THEN "path"
                       ELSE IF lost THEN "nothing" ELSE pbFocus
         /\ pbWaits' = (waits /\ ~given)
  /\ IF Shape = pbDrawn.shape THEN pbDue' = FALSE /\ UNCHANGED pbFit
     ELSE pbDue' = TRUE /\ pbFit' = Measured(pbBar, Shape)
  /\ pbPopover' = (pbPopover /\ FilterFolded)
  /\ UNCHANGED <<pbBar, pbCompact, pbOpen, pbQuery, pbCounted, pbEdit, pbAt, pbGoes, pbAsked, pbActs>>

BarActs == ~pbDue /\ pbActs < MaxBarActs /\ pbActs' = pbActs + 1
NotDrawn == UNCHANGED <<pbDrawn, pbWaits>>

(* The observer measures what is drawn, still in the old shape.             *)
BarResized ==
  /\ BarActs /\ \E bar \in BarWidths \ {pbBar} :
       /\ pbBar' = bar /\ pbCompact' = (bar < 900)
       /\ pbFit' = Measured(bar, pbDrawn.shape)
  /\ pbDue' = TRUE /\ NotDrawn
  /\ pbAsked' = FALSE
  /\ UNCHANGED <<pbOpen, pbQuery, pbCounted, pbPopover, pbEdit, pbFocus, pbAt, pbGoes>>

(* Ctrl+F in the list, the button, or the entry of the menu.                 *)
SearchOpened ==
  /\ BarActs /\ pbFocus \notin {"search", "path"}
  /\ pbOpen' = TRUE /\ pbDue' = ~pbOpen /\ pbAsked' = ~pbOpen /\ NotDrawn
  /\ UNCHANGED <<pbBar, pbCompact, pbFit, pbQuery, pbCounted, pbPopover, pbEdit, pbFocus, pbAt, pbGoes>>

(* The keyboard goes elsewhere: the search and the typed path are closed, and *)
(* who leaves the path finds the list focused.                              *)
FocusLeaves ==
  /\ BarActs /\ pbFocus \in {"search", "path"}
  /\ IF pbFocus = "search" THEN pbOpen' = FALSE /\ UNCHANGED pbEdit
     ELSE pbEdit' = FALSE /\ UNCHANGED pbOpen
  /\ pbFocus' \in IF pbFocus = "path" THEN {"list"} ELSE {"list", "else"}
  /\ pbDue' = TRUE /\ pbAsked' = FALSE /\ NotDrawn
  /\ UNCHANGED <<pbBar, pbCompact, pbFit, pbQuery, pbCounted, pbPopover, pbAt, pbGoes>>
FieldClicked ==
  /\ BarActs /\ IsField(pbDrawn.place) /\ pbFocus \notin {"search", "path"}
  /\ pbFocus' = "search" /\ UNCHANGED pbDue /\ pbAsked' = FALSE /\ NotDrawn
  /\ UNCHANGED <<pbBar, pbCompact, pbFit, pbOpen, pbQuery, pbCounted, pbPopover, pbEdit, pbAt, pbGoes>>

(* A letter, the cross, or the Escape of the field, which leaves it.         *)
QueryTyped ==
  /\ BarActs /\ pbFocus = "search" /\ pbQuery' = TRUE
  /\ pbDue' = TRUE /\ pbAsked' = FALSE /\ NotDrawn
  /\ UNCHANGED <<pbBar, pbCompact, pbFit, pbOpen, pbCounted, pbPopover, pbEdit, pbFocus, pbAt, pbGoes>>
QueryCleared ==
  /\ BarActs /\ pbQuery /\ pbQuery' = FALSE
  /\ IF pbFocus = "search" THEN pbOpen' = FALSE /\ pbFocus' \in {"list", "else"}
     ELSE UNCHANGED <<pbOpen, pbFocus>>
  /\ pbDue' = TRUE /\ pbAsked' = FALSE /\ NotDrawn
  /\ UNCHANGED <<pbBar, pbCompact, pbFit, pbCounted, pbPopover, pbEdit, pbAt, pbGoes>>

FilterChanged ==
  /\ BarActs /\ pbFocus \notin {"search", "path"} /\ pbCounted' = ~pbCounted
  /\ pbDue' = TRUE /\ pbAsked' = FALSE /\ NotDrawn
  /\ UNCHANGED <<pbBar, pbCompact, pbFit, pbOpen, pbQuery, pbPopover, pbEdit, pbFocus, pbAt, pbGoes>>
FilterFromMenu ==
  /\ BarActs /\ pbFocus \notin {"search", "path"}
  /\ Contains(pbFit.fit.overflow, "filter") /\ pbPopover' = TRUE
  /\ pbDue' = TRUE /\ pbAsked' = FALSE /\ NotDrawn
  /\ UNCHANGED <<pbBar, pbCompact, pbFit, pbOpen, pbQuery, pbCounted, pbEdit, pbFocus, pbAt, pbGoes>>

-----------------------------------------------------------------------------
(* Ctrl+L or a click beside the crumbs, and PathInput.                       *)
PathOpened ==
  /\ BarActs /\ ~pbEdit /\ pbFocus \notin {"search", "path"}
  /\ pbEdit' = TRUE /\ pbDue' = TRUE /\ pbAsked' = FALSE /\ NotDrawn
  /\ UNCHANGED <<pbBar, pbCompact, pbFit, pbOpen, pbQuery, pbCounted, pbPopover, pbFocus, pbAt, pbGoes>>
PathEntered ==
  /\ BarActs /\ pbFocus = "path"
  /\ \E to \in BarPlaces : pbGoes' = Append(pbGoes, to)
  /\ pbAsked' = FALSE /\ NotDrawn
  /\ UNCHANGED <<pbBar, pbCompact, pbFit, pbOpen, pbQuery, pbCounted, pbPopover, pbEdit, pbFocus, pbDue, pbAt>>

(* navigate() of this tab, wherever it is by then; the query goes with the   *)
(* folder it was typed in.                                                 *)
Navigates(to) ==
  /\ pbAt' = to
  /\ pbQuery' = (pbQuery /\ pbAt' = pbAt)
CrumbClicked ==
  /\ BarActs /\ ~pbEdit /\ pbDrawn.place # "slot"
  /\ \E to \in BarPlaces \ {pbAt} : Navigates(to)
  /\ IF pbFocus = "search" THEN pbOpen' = FALSE ELSE UNCHANGED pbOpen
  /\ pbFocus' = "else" /\ pbDue' = TRUE /\ pbAsked' = FALSE /\ NotDrawn
  /\ UNCHANGED <<pbBar, pbCompact, pbFit, pbCounted, pbPopover, pbEdit, pbGoes>>

(* load() has answered: a folder that cannot be read leaves all as it is.     *)
PathRead ==
  /\ ~pbDue /\ pbGoes # <<>>
  /\ \E i \in DOMAIN pbGoes, ready \in BOOLEAN :
       /\ pbGoes' = RemoveAt(pbGoes, i)
       /\ IF ready
          THEN /\ Navigates(pbGoes[i])
               /\ pbEdit' = FALSE /\ pbFocus' = "list" /\ pbDue' = TRUE
               /\ IF pbFocus = "search" THEN pbOpen' = FALSE ELSE UNCHANGED pbOpen
               /\ pbAsked' = FALSE
          ELSE UNCHANGED <<pbAt, pbQuery, pbEdit, pbFocus, pbDue, pbOpen, pbAsked>>
  /\ NotDrawn
  /\ UNCHANGED <<pbBar, pbCompact, pbFit, pbCounted, pbPopover, pbActs>>

BarInit ==
  LET closed == [search |-> TRUE, compact |-> FALSE, counted |-> FALSE] IN
  /\ pbBar \in BarWidths /\ pbCompact = (pbBar < 900)
  /\ pbFit = Measured(pbBar, closed)        \* measured as mounted: not compact yet
  /\ pbOpen = FALSE /\ pbQuery = FALSE /\ pbCounted = FALSE /\ pbPopover = FALSE /\ pbEdit = FALSE
  /\ pbDrawn = [shape |-> closed, open |-> FALSE, place |-> "none", edit |-> FALSE]
  /\ pbWaits = FALSE /\ pbFocus = "list" /\ pbDue = TRUE
  /\ pbAt \in BarPlaces /\ pbGoes = <<>> /\ pbAsked = FALSE /\ pbActs = 0

BarNext ==
  \/ Commit \/ BarResized \/ SearchOpened \/ FocusLeaves \/ FieldClicked \/ QueryTyped \/ QueryCleared
  \/ FilterChanged \/ FilterFromMenu \/ PathOpened \/ PathEntered \/ CrumbClicked \/ PathRead

BarSpec == BarInit /\ [][BarNext]_barVars
-----------------------------------------------------------------------------
(* At every width each tool is in the bar or in the menu, the search else in *)
(* the place of the crumbs; none is shown while one that is kept longer is    *)
(* not; all fits, the crumbs keep their width, and no tool is folded that    *)
(* would fit beside them (X2-X6).                                          *)
FitSound(bar, shape) ==
  LET w == ToolWidth(shape)
      r == FitPathTools(bar, w, shape.search)
      here == ToSet(r.shown) \union (IF r.slot THEN {"search"} ELSE {})
      more == IF r.overflow = <<>> /\ ~r.slot THEN 0 ELSE 32 + ToolGap
      room == bar - BarPad - FixedWidth - more
      held == {i \in DOMAIN ToolKeep : ToolKeep[i] \in here}
      next == Cardinality(held) + 1
  IN  /\ ToSet(r.overflow) = ToSet(ToolOrder) \ here /\ (r.slot => shape.search /\ ~Contains(r.shown, "search"))
      /\ held = 1..Cardinality(held)
      /\ r.crumbs = room - RoomOf(w, r.shown) /\ (r.crumbs >= room \/ r.crumbs >= CrumbMin)
      /\ next <= Len(ToolKeep) => r.crumbs - RoomOf(w, <<ToolKeep[next]>>) < Between(CrumbFloor, room, CrumbMin)
BarShapes == [search : BOOLEAN, compact : BOOLEAN, counted : BOOLEAN]
CrumbWidths == UNION {[1..n -> {1, 3}] : n \in 2..5}
CrumbsSound(widths, available) ==
  LET n == FitCrumbs(widths, available, 2) IN
  /\ n \in 1..(Len(widths) - 1)
  /\ n > 1 => CrumbsFit(widths, n, available, 2)
  /\ \A m \in (n + 1)..(Len(widths) - 1) : ~CrumbsFit(widths, m, available, 2)
EverythingFits ==
  (pbActs = 0 /\ pbDrawn.place = "none" /\ \A w \in BarWidths : pbBar <= w) =>
    /\ \A bar \in 1..WidestBar, shape \in BarShapes : FitSound(bar, shape)
    /\ \A widths \in CrumbWidths, available \in 0..12 : CrumbsSound(widths, available)

(* What is drawn was measured as it is, and the popover of the folded filter *)
(* does not outlive its button.                                            *)
FitCurrent == ~pbDue => pbFit = Measured(pbBar, Shape) /\ (pbPopover => FilterFolded)

(* A query is never in force without its field in sight, and the search can  *)
(* be opened at every width.                                               *)
SearchInReach ==
  ~pbDue => /\ pbQuery => IsField(FieldPlace) \/ pbEdit
            /\ FieldPlace = "none" => pbEdit \/ Contains(pbFit.fit.overflow, "search")

(* The field asked for has the keyboard once it is drawn for good, although   *)
(* it may be drawn in another place first (X7); a typed path is not hidden    *)
(* by it.                                                                  *)
SearchHeard ==
  ~pbDue => /\ pbAsked /\ ~pbEdit => pbFocus = "search" /\ IsField(pbDrawn.place)
            /\ pbFocus = "search" => IsField(FieldPlace)
            /\ pbFocus = "path" => pbEdit

BarSafe == EverythingFits /\ FitCurrent /\ SearchInReach /\ SearchHeard
=============================================================================
