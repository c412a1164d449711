------------------------------ MODULE TabLayout ------------------------------
(***************************************************************************)
(* The tabs of the window and the split view (useTabsStore.ts,             *)
(* splitLayout.ts).  A layout is a record: the order of the tabs, the      *)
(* active one (0 before the first), the split pair, and for each tab the   *)
(* server it looks at (0 for a folder of this computer).  The operations   *)
(* are operators on layouts, so that handlers that make several of them    *)
(* can be written as one step.                                             *)
(***************************************************************************)
EXTENDS Filtering

NoSplit == [left |-> 0, right |-> 0]

Panes == {"left", "right"}

EmptyLayout == [tabs |-> <<>>, active |-> 0, split |-> NoSplit, srv |-> <<>>]

Has(s, id) == Contains(s.tabs, id)
Place(s, id) == CHOOSE i \in DOMAIN s.tabs : s.tabs[i] = id
Halves(s) == {s.split.left, s.split.right}
IsHalf(s, id) == s.split # NoSplit /\ id \in Halves(s)

(* splitShown: the active tab is one half of the pair. *)
Shown(s) == IsHalf(s, s.active)

HalfIn(s, pane) == IF pane = "left" THEN s.split.left ELSE s.split.right
PairOf(pane, id, other) ==
  IF pane = "left" THEN [left |-> id, right |-> other] ELSE [left |-> other, right |-> id]

SwapIn(tabs, a, b) == [i \in DOMAIN tabs |-> CASE tabs[i] = a -> b [] tabs[i] = b -> a
                                               [] OTHER -> tabs[i]]

(* The tabs without the one at position i, and with the sequence new put before it. *)
WithoutAt(tabs, i) == [k \in 1..(Len(tabs) - 1) |-> tabs[IF k < i THEN k ELSE k + 1]]
PutAt(tabs, i, new) == SubSeq(tabs, 1, i - 1) \o new \o SubSeq(tabs, i, Len(tabs))

-----------------------------------------------------------------------------
(* openTab: at the end; ids are given out in order and never reused. *)
NextId(s) == Len(s.srv) + 1

Opened(s, server, activate) ==
  [s EXCEPT !.tabs = Append(@, NextId(s)),
            !.srv = Append(@, server),
            !.active = IF activate \/ @ = 0 THEN NextId(s) ELSE @]

(* Fault: closing one half leaves the pair as it is. *)
PairStays(s, id) == s.split

(* Closing one half dissolves the pair. *)
PairAfter(s, id) == IF IsHalf(s, id) THEN NoSplit ELSE s.split

OtherHalf(s, id) == IF id = s.split.left THEN s.split.right ELSE s.split.left

Closed(s, id) ==
  IF Len(s.tabs) <= 1 \/ ~Has(s, id) THEN s
  ELSE LET i    == Place(s, id)
           rest == WithoutAt(s.tabs, i)
           next == rest[IF i <= Len(rest) THEN i ELSE Len(rest)]
       IN  [s EXCEPT !.tabs = rest,
                     !.active = IF @ # id THEN @
                                ELSE IF IsHalf(s, id) THEN OtherHalf(s, id) ELSE next,
                     !.split = PairAfter(s, id)]

Activated(s, id) == [s EXCEPT !.active = id]

Cycled(s, forward) ==
  IF s.tabs = <<>> THEN s
  ELSE LET n == Len(s.tabs)
           i == Place(s, s.active) - 1
       IN  Activated(s, s.tabs[((IF forward THEN i + 1 ELSE i + n - 1) % n) + 1])

Swapped(s) ==
  IF s.split = NoSplit THEN s
  ELSE [s EXCEPT !.tabs = SwapIn(s.tabs, s.split.left, s.split.right),
                 !.split = [left |-> s.split.right, right |-> s.split.left]]

(* A tab dropped before the right half goes behind the pair (P4). *)
BehindPair(s, beforeId) == IF s.split # NoSplit /\ beforeId = s.split.right THEN 1 ELSE 0

(* moveTab: a half takes the other with it; beforeId 0 is the end. *)
Moved(s, id, beforeId) ==
  LET unit == IF IsHalf(s, id) THEN Halves(s) ELSE {id}
      rest == Only(s.tabs, InSeq(s.tabs) \ unit)
  IN  IF beforeId \in unit \/ ~Has(s, id) \/ (beforeId # 0 /\ ~Has(s, beforeId)) THEN s
      ELSE LET at == IF beforeId = 0 THEN Len(rest) + 1
                     ELSE Place([s EXCEPT !.tabs = rest], beforeId) + BehindPair(s, beforeId)
           IN  [s EXCEPT !.tabs = PutAt(rest, at, Only(s.tabs, unit))]

(* splitPartner: the active tab, or for the active tab the next one. *)
Partner(s, id) ==
  IF id # s.active THEN s.active
  ELSE LET i == Place(s, id) IN IF i < Len(s.tabs) THEN s.tabs[i + 1] ELSE s.tabs[i - 1]

(* placeInPane while the pair shows: swap the halves, or take over the pane and its place. *)
PlacedInPair(s, id, pane) ==
  LET here == HalfIn(s, pane) IN
  IF id = here THEN s
  ELSE IF IsHalf(s, id) THEN Activated(Swapped(s), id)
  ELSE [s EXCEPT !.tabs = SwapIn(s.tabs, here, id),
                 !.split = PairOf(pane, id, OtherHalf(s, here)),
                 !.active = id]

(* placeInPane otherwise: a new pair next to its partner, which replaces a hidden pair. *)
PlacedBeside(s, id, pane) ==
  LET partner == Partner(s, id)
      rest == WithoutAt(s.tabs, Place(s, id))
      at == Place([s EXCEPT !.tabs = rest], partner) + (IF pane = "right" THEN 1 ELSE 0)
  IN  [s EXCEPT !.tabs = PutAt(rest, at, <<id>>),
                !.split = PairOf(pane, id, partner),
                !.active = id]

Placed(s, id, pane) ==
  IF Len(s.tabs) < 2 \/ ~Has(s, id) THEN s
  ELSE IF Shown(s) THEN PlacedInPair(s, id, pane) ELSE PlacedBeside(s, id, pane)

Unsplit(s) == [s EXCEPT !.split = NoSplit]

Toggled(s) == IF Shown(s) THEN Unsplit(s) ELSE Placed(s, s.active, "left")

(* adoptRemote: the active tab if it is that server's, else its first tab, else a new one. *)
Adopter(s, server) ==
  IF s.active # 0 /\ s.srv[s.active] = server THEN s.active
  ELSE LET mine == {i \in DOMAIN s.tabs : s.srv[s.tabs[i]] = server}
       IN  IF mine = {} THEN 0 ELSE s.tabs[CHOOSE i \in mine : \A k \in mine : i <= k]

Adopted(s, server, activate) ==
  LET target == Adopter(s, server) IN
  IF target = 0 THEN Opened(s, server, activate)
  ELSE IF activate THEN Activated(s, target) ELSE s

-----------------------------------------------------------------------------
(* The active tab exists, and the pair is two tabs side by side (P1, P4).   *)
ActiveListed(s) == IF s.tabs = <<>> THEN s.active = 0 ELSE Has(s, s.active)

PairTogether(s) ==
  s.split # NoSplit =>
    /\ Has(s, s.split.left) /\ Has(s, s.split.right)
    /\ Place(s, s.split.right) = Place(s, s.split.left) + 1

LayoutSound(s) == /\ IsInjective(s.tabs) /\ ActiveListed(s) /\ PairTogether(s)

-----------------------------------------------------------------------------
(***************************************************************************)
(* The tab strip (TabStrip.tsx, useTabDrag.ts, SplitOverlay.tsx): tabs are  *)
(* clicked, dragged to another place or into a half of the content, closed  *)
(* and opened by keys and menus, while connects of others open and close    *)
(* tabs under the pointer and under an open menu.                           *)
(***************************************************************************)

CONSTANTS StripTabs,     \* tabs at the beginning
          MaxStripTabs,  \* bound: tabs that there ever are
          MaxStripActs   \* bound: what the user and others do

ASSUME TabDragAssumption == StripTabs \in 1..MaxStripTabs /\ MaxStripTabs \in Nat /\ MaxStripActs \in Nat

VARIABLES
  tdTabs,      \* useTabsStore, a layout
  tdHeld,      \* the tab whose button the pointer is pressed on; 0: none
  tdDrag,      \* useTabDrag: [id, mode, zone, armed, insert, units], and useTabDragStore
  tdDwell,     \* the timer of the zone runs
  tdSuppress,  \* suppress: the next click is ignored
  tdUnarm,     \* the listeners of suppressAfterCancel() are there
  tdSoon,      \* the task that ends the suppression is due (it runs before the next press or key)
  tdMenu,      \* the open tab menu: [id, half]
  tdFate,      \* history: what the held pointer's click must not do, or must
  tdWrong,     \* history: clicks that did what they must not, drops that were shown otherwise
  tdActs

stripVars == <<tdTabs, tdHeld, tdDrag, tdDwell, tdSuppress, tdUnarm, tdSoon, tdMenu, tdFate, tdWrong, tdActs>>

NoTabDrag == [id |-> 0, mode |-> "reorder", zone |-> "none", armed |-> FALSE, insert |-> 0, units |-> <<>>]
NoMenu == [id |-> 0, half |-> FALSE]
Dragging == tdDrag.id # 0

(* The units of the strip, by their first tab: a tab, or the two of the pair. *)
UnitsOf(s) == IF s.split = NoSplit THEN s.tabs ELSE Only(s.tabs, InSeq(s.tabs) \ {s.split.right})

(* dropActionFor() and remainingFor(): what the overlay says will be done.   *)
DropAction(s, id, pane) ==
  IF Len(s.tabs) < 2 THEN "none"
  ELSE IF ~Shown(s) THEN "split"
  ELSE IF HalfIn(s, pane) = id THEN "none" ELSE IF IsHalf(s, id) THEN "swap" ELSE "replace"
OtherPane(pane) == IF pane = "left" THEN "right" ELSE "left"
RemainingTab(s, id, pane) ==
  CASE DropAction(s, id, pane) = "split" -> Partner(s, id)
    [] DropAction(s, id, pane) = "swap" -> HalfIn(s, pane)
    [] OTHER -> HalfIn(s, OtherPane(pane))
OverlayShown(s, d) == Has(s, d.id) /\ d.armed /\ d.zone \in Panes /\ DropAction(s, d.id, d.zone) # "none"

StripActs == tdActs < MaxStripActs /\ tdActs' = tdActs + 1
Tabs(s) == tdTabs' = s
PointerKept == UNCHANGED <<tdHeld, tdDrag, tdDwell, tdSuppress, tdUnarm, tdSoon, tdFate, tdWrong>>

-----------------------------------------------------------------------------
(* onPointerDown(): what was left of an earlier drag is forgotten.           *)
PressTab ==
  /\ StripActs /\ tdHeld = 0 /\ ~tdSoon
  /\ \E i \in DOMAIN tdTabs.tabs : tdHeld' = tdTabs.tabs[i]
  /\ tdSuppress' = FALSE /\ tdUnarm' = FALSE /\ tdFate' = "click" /\ tdMenu' = NoMenu
  /\ UNCHANGED <<tdTabs, tdDrag, tdDwell, tdSoon, tdWrong>>

(* onMove() at the strip: the units are those of the moment the drag began;  *)
(* insert counts those left of the pointer, 0 is outside the window.         *)
Listening == tdHeld # 0 /\ tdFate \in {"click", "drag"}
DragOf(d) == IF Dragging THEN d ELSE [d EXCEPT !.id = tdHeld, !.units = UnitsOf(tdTabs)]
DragInStrip ==
  /\ Listening
  /\ LET d == DragOf(tdDrag) IN
     \E at \in 0..(Len(d.units) + 1) :
       tdDrag' = [d EXCEPT !.mode = "reorder", !.zone = "none", !.armed = FALSE, !.insert = at]
  /\ tdDwell' = FALSE /\ tdFate' = "drag"
  /\ UNCHANGED <<tdTabs, tdHeld, tdSuppress, tdUnarm, tdSoon, tdMenu, tdWrong, tdActs>>

(* onMove() below it: another zone starts its wait anew.                     *)
DragBelow ==
  /\ Listening
  /\ LET d == DragOf(tdDrag) IN
     \E zone \in IF Len(tdTabs.tabs) >= 2 THEN {"left", "center", "right", "none"} ELSE {"none"} :
       /\ tdDrag' = [d EXCEPT !.mode = "split", !.insert = 0, !.zone = zone, !.armed = (@ /\ zone = d.zone)]
       /\ tdDwell' = IF zone = d.zone THEN tdDwell ELSE zone \in Panes
  /\ tdFate' = "drag"
  /\ UNCHANGED <<tdTabs, tdHeld, tdSuppress, tdUnarm, tdSoon, tdMenu, tdWrong, tdActs>>

DwellOver ==
  /\ tdDwell /\ tdDwell' = FALSE
  /\ tdDrag' = [tdDrag EXCEPT !.armed = (@ \/ DropAction(tdTabs, tdDrag.id, tdDrag.zone) # "none")]
  /\ UNCHANGED <<tdTabs, tdHeld, tdSuppress, tdUnarm, tdSoon, tdMenu, tdFate, tdWrong, tdActs>>

(* onUp(): the drag is done, in the strip before the unit that stood at the  *)
(* line, in an armed zone as the overlay showed.                            *)
BeforeOf(d) == IF d.insert > Len(d.units) THEN 0 ELSE d.units[d.insert]
AfterDrop(s, d) ==
  IF d.mode = "reorder" THEN IF d.insert = 0 THEN s ELSE Moved(s, d.id, BeforeOf(d))
  ELSE IF d.armed /\ d.zone \in Panes THEN Placed(s, d.id, d.zone) ELSE s

(* The drop did what the overlay promised, in that pane and the other one,   *)
(* and nothing when no overlay was to be seen.                              *)
AsPromised(s, d, after) ==
  d.mode = "split" =>
    IF OverlayShown(s, d)
    THEN Shown(after) /\ HalfIn(after, d.zone) = d.id /\ after.active = d.id
         /\ HalfIn(after, OtherPane(d.zone)) = RemainingTab(s, d.id, d.zone)
    ELSE after = s
(* The moved tab stands before the one at the line, with its pair, or the    *)
(* order is as it was.                                                     *)
MovedThere(s, d, after) ==
  d.mode = "reorder" /\ after # s =>
    IF d.insert > Len(d.units) THEN Last(after.tabs) \in {d.id} \union (IF IsHalf(s, d.id) THEN Halves(s) ELSE {})
    ELSE LET i == Place(after, BeforeOf(d)) IN
         \/ i > 1 /\ after.tabs[i - 1] \in {d.id} \union (IF IsHalf(s, d.id) THEN Halves(s) ELSE {})
         \/ s.split # NoSplit /\ BeforeOf(d) = s.split.right

(* The click of the release comes in the same task, before the suppression   *)
(* ends: to the held button if that is where the pointer is and it still is  *)
(* there.                                                                  *)
Clicked(swallow, fate, layout) ==
  \/ /\ Has(layout, tdHeld)
     /\ tdSuppress' = FALSE
     /\ tdTabs' = IF swallow THEN layout ELSE Activated(layout, tdHeld)
     /\ tdWrong' = tdWrong \union (IF fate = "drag" /\ ~swallow THEN {"leaked"} ELSE {})
                    \union (IF fate = "click" /\ swallow THEN {"eaten"} ELSE {})
  \/ tdSuppress' = swallow /\ tdTabs' = layout /\ UNCHANGED tdWrong

ReleaseClick ==
  /\ tdHeld # 0 /\ ~Dragging /\ ~tdUnarm
  /\ Clicked(tdSuppress, tdFate, tdTabs)
  /\ tdHeld' = 0 /\ tdFate' = "none"
  /\ UNCHANGED <<tdDrag, tdDwell, tdUnarm, tdSoon, tdMenu, tdActs>>
ReleaseDrag ==
  /\ Dragging
  /\ LET after == AfterDrop(tdTabs, tdDrag) IN
     \/ /\ Clicked(TRUE, "drag", after)
        /\ AsPromised(tdTabs, tdDrag, after) /\ MovedThere(tdTabs, tdDrag, after)
     \/ /\ ~(AsPromised(tdTabs, tdDrag, after) /\ MovedThere(tdTabs, tdDrag, after))
        /\ tdWrong' = tdWrong \union {"otherwise"} /\ tdTabs' = after /\ tdSuppress' = TRUE
  /\ tdSoon' = TRUE
  /\ tdHeld' = 0 /\ tdDrag' = NoTabDrag /\ tdDwell' = FALSE /\ tdFate' = "none"
  /\ UNCHANGED <<tdUnarm, tdMenu, tdActs>>

(* cancel() by Escape or blur while the button is still held: suppressed to  *)
(* the release, or to the next key.                                        *)
CancelDrag ==
  /\ StripActs /\ Dragging
  /\ tdDrag' = NoTabDrag /\ tdDwell' = FALSE /\ tdSuppress' = TRUE /\ tdUnarm' = TRUE /\ tdFate' = "cancelled"
  /\ UNCHANGED <<tdTabs, tdHeld, tdSoon, tdMenu, tdWrong>>
ReleaseCancelled ==
  /\ tdHeld # 0 /\ tdUnarm
  /\ Clicked(TRUE, "drag", tdTabs)
  /\ tdUnarm' = FALSE /\ tdSoon' = TRUE /\ tdHeld' = 0 /\ tdFate' = "none"
  /\ UNCHANGED <<tdDrag, tdDwell, tdMenu, tdActs>>
PointerCancelled ==
  /\ Listening
  /\ tdHeld' = 0 /\ tdDrag' = NoTabDrag /\ tdDwell' = FALSE /\ tdFate' = "none"
  /\ UNCHANGED <<tdTabs, tdSuppress, tdUnarm, tdSoon, tdMenu, tdWrong, tdActs>>
SuppressionEnds ==
  /\ tdSoon /\ tdSoon' = FALSE /\ tdSuppress' = FALSE
  /\ UNCHANGED <<tdTabs, tdHeld, tdDrag, tdDwell, tdUnarm, tdMenu, tdFate, tdWrong, tdActs>>

-----------------------------------------------------------------------------
(* Keys: Ctrl+Tab, T, W and \, Delete on a tab; Enter or Space on a tab is a *)
(* click of its own.  Any of them ends the suppression after a cancel.       *)
KeyEnds == /\ tdUnarm' = FALSE /\ tdSuppress' = (tdSuppress /\ ~tdUnarm)
           /\ tdFate' = IF tdUnarm THEN "told" ELSE tdFate
StripKey ==
  /\ StripActs /\ ~tdSoon
  /\ \/ /\ \/ \E forward \in BOOLEAN : Tabs(Cycled(tdTabs, forward))
           \/ NextId(tdTabs) <= MaxStripTabs /\ Tabs(Opened(tdTabs, tdTabs.srv[tdTabs.active], TRUE))
           \/ \E i \in DOMAIN tdTabs.tabs : Tabs(Closed(tdTabs, tdTabs.tabs[i]))
           \/ Tabs(Toggled(tdTabs))
        /\ KeyEnds /\ UNCHANGED tdWrong
     \/ /\ \E i \in DOMAIN tdTabs.tabs : Tabs(IF tdSuppress /\ ~tdUnarm THEN tdTabs ELSE Activated(tdTabs, tdTabs.tabs[i]))
        /\ tdWrong' = IF tdSuppress /\ ~tdUnarm THEN tdWrong \union {"eaten"} ELSE tdWrong
        /\ KeyEnds
  /\ tdMenu' = NoMenu
  /\ UNCHANGED <<tdHeld, tdDrag, tdDwell, tdSoon>>

(* openTabMenu(): its items are those of the moment it opens.               *)
OpenTabMenu ==
  /\ StripActs /\ tdHeld = 0
  /\ \E i \in DOMAIN tdTabs.tabs : tdMenu' = [id |-> tdTabs.tabs[i], half |-> IsHalf(tdTabs, tdTabs.tabs[i])]
  /\ PointerKept /\ UNCHANGED tdTabs
PickFromMenu ==
  /\ tdMenu # NoMenu /\ tdHeld = 0 /\ tdMenu' = NoMenu
  /\ IF tdMenu.half THEN Tabs(Unsplit(tdTabs)) \/ Tabs(Swapped(tdTabs)) ELSE Tabs(Placed(tdTabs, tdMenu.id, "right"))
  /\ PointerKept /\ UNCHANGED tdActs

(* An agent's connect, and a connect into a half that is given up.          *)
OthersTabs ==
  /\ StripActs
  /\ \/ \E server \in {1, 2} : /\ NextId(tdTabs) <= MaxStripTabs \/ Adopter(tdTabs, server) # 0
                               /\ Tabs(Adopted(tdTabs, server, FALSE))
     \/ \E i \in DOMAIN tdTabs.tabs : Tabs(Closed(tdTabs, tdTabs.tabs[i]))
  /\ PointerKept /\ UNCHANGED tdMenu

StripInit ==
  /\ tdTabs = [EmptyLayout EXCEPT !.tabs = [i \in 1..StripTabs |-> i], !.active = 1, !.srv = [i \in 1..StripTabs |-> i - 1]]
  /\ tdHeld = 0 /\ tdDrag = NoTabDrag /\ tdDwell = FALSE /\ tdSuppress = FALSE /\ tdUnarm = FALSE /\ tdSoon = FALSE
  /\ tdMenu = NoMenu /\ tdFate = "none" /\ tdWrong = {} /\ tdActs = 0

StripNext ==
  \/ PressTab \/ DragInStrip \/ DragBelow \/ DwellOver \/ ReleaseClick \/ ReleaseDrag
  \/ CancelDrag \/ ReleaseCancelled \/ PointerCancelled \/ SuppressionEnds
  \/ StripKey \/ OpenTabMenu \/ PickFromMenu \/ OthersTabs

StripSpec == StripInit /\ [][StripNext]_stripVars

-----------------------------------------------------------------------------
(* The end of a drag, done or cancelled, never also selects a tab, and no    *)
(* other click is lost to one; a drop does what was shown, although tabs     *)
(* come and go under it.                                                   *)
DragsHonest == tdWrong = {}

(* The wait and the overlay belong to the drag that goes on; nothing of a    *)
(* drag is left when no button is held.                                     *)
DragEnds ==
  /\ Dragging => tdDrag.id = tdHeld /\ tdFate = "drag"
  /\ tdDwell => Dragging /\ tdDrag.zone \in Panes /\ ~tdDrag.armed
  /\ tdUnarm => tdSuppress
  /\ tdHeld = 0 /\ tdSuppress => tdSoon \/ tdUnarm

StripSafe == LayoutSound(tdTabs) /\ DragsHonest /\ DragEnds
=============================================================================
