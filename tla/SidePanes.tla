------------------------------ MODULE SidePanes ------------------------------
(***************************************************************************)
(* The two side panes (sidebarLayout.ts, useLayoutStore.ts,                *)
(* useResizableSidebar.ts, SidePane.tsx; the shortcuts of AppShell.tsx):    *)
(* their remembered widths, what is drawn of them in a window that may be   *)
(* too narrow, and a drag that works on a snapshot while keys, shortcuts    *)
(* and the window change the panes under it.                               *)
(***************************************************************************)
EXTENDS Integers, FiniteSets

CONSTANTS RowWidths,     \* widths the row of panes may have; 0 while it is not known
          PointerMoves,  \* how far the pointer is from where the drag began, to either side
          RawWidths,     \* widths read back from the storage
          MaxSideActs    \* bound: what the user and the window do

ASSUME SidePanesAssumption == RowWidths \union RawWidths \union PointerMoves \subseteq Nat /\ MaxSideActs \in Nat

VARIABLES
  spPane,      \* useLayoutStore: left and right, each [width, collapsed]
  spPriority,  \* useLayoutStore: priority
  spRow,       \* containerWidth
  spDrag,      \* useResizableSidebar: drag.current and live of the pane that is dragged
  spFocus,     \* "left" or "right" when the focus is inside that pane, "list" or "handle"
  spCalm,      \* history: nothing but the pointer changed the panes since the drag began
  spLeftAt,    \* history: the pane and width of a calm drag that just ended, or 0
  spActs

sideVars == <<spPane, spPriority, spRow, spDrag, spFocus, spCalm, spLeftAt, spActs>>

Sides == {"left", "right"}
OtherSide(s) == IF s = "left" THEN "right" ELSE "left"
PaneMin(s) == IF s = "left" THEN 180 ELSE 240
PaneDef(s) == IF s = "left" THEN 220 ELSE 288
PaneMax(s) == IF s = "left" THEN 360 ELSE 480
CenterMin == 480
Least(a, b) == IF a <= b THEN a ELSE b
Most(a, b) == IF a >= b THEN a ELSE b

ClampPaneWidth(s, width, max) == Least(Most(PaneMin(s), max), Most(PaneMin(s), width))
SanitizePane(s, raw, collapsed) == [width |-> ClampPaneWidth(s, raw, PaneMax(s)), collapsed |-> collapsed]

(* resolveDrag(): closed below half of the least width, open above all of it. *)
CollapseAt(s) == PaneMin(s) \div 2
ResolveDrag(s, raw, was, max) ==
  LET closed == IF was THEN raw < PaneMin(s) ELSE raw <= CollapseAt(s)
  IN  [collapsed |-> closed, width |-> IF closed THEN 0 ELSE ClampPaneWidth(s, raw, max)]

(* applyPaneKey(): no key closes a pane but Enter, which toggles it.         *)
ApplyPaneKey(s, pane, key, max) ==
  CASE key = "min" -> [width |-> PaneMin(s), collapsed |-> FALSE]
    [] key = "max" -> [width |-> ClampPaneWidth(s, PaneMax(s), max), collapsed |-> FALSE]
    [] OTHER -> IF pane.collapsed THEN [pane EXCEPT !.collapsed = (key = "shrink")]
                ELSE [pane EXCEPT !.width = ClampPaneWidth(s, @ + (IF key = "grow" THEN 64 ELSE -64), max)]

DragMax(s, row, other) ==
  IF row = 0 THEN PaneMax(s) ELSE Least(PaneMax(s), Most(PaneMin(s), row - CenterMin - other))

(* fitPaneWidths(): what is too much is cut from the other pane first, from  *)
(* both by what they can give when none has priority.                       *)
Drawn(pane) == IF pane.collapsed THEN 0 ELSE pane.width
Slack(s, pane) == IF pane.collapsed THEN 0 ELSE Most(0, pane.width - PaneMin(s))
Rounded(a, b) == (2 * a + b) \div (2 * b)
FitPaneWidths(row, panes, priority) ==
  LET excess == Drawn(panes.left) + Drawn(panes.right) - (row - CenterMin)
      slack == [s \in Sides |-> Slack(s, panes[s])]
      total == slack.left + slack.right
      first == IF priority = "none" THEN "left" ELSE OtherSide(priority)
      cut == IF priority = "none"
             THEN IF total = 0 THEN 0 ELSE Least(slack.left, Rounded(excess * slack.left, total))
             ELSE Least(slack[first], excess)
      second == Least(slack[OtherSide(first)], excess - cut)
      again == IF priority = "none" THEN Least(slack.left, excess - second) ELSE cut
  IN  IF row = 0 \/ excess <= 0 THEN [s \in Sides |-> Drawn(panes[s])]
      ELSE [s \in Sides |-> Drawn(panes[s]) - (IF s = first THEN again ELSE second)]

Fitted == FitPaneWidths(spRow, spPane, spPriority)
NoSideDrag == [side |-> "none", rendered |-> [width |-> 0, collapsed |-> TRUE], stored |-> [width |-> 0, collapsed |-> TRUE],
               other |-> 0, collapsed |-> TRUE, moved |-> FALSE, live |-> [width |-> 0, collapsed |-> TRUE]]
NotLeft == [side |-> "none", width |-> 0]
Live(s) == spDrag.side = s /\ spDrag.moved
Collapsed(s) == IF Live(s) THEN spDrag.live.collapsed ELSE spPane[s].collapsed
WidthOf(s) == IF Live(s) THEN spDrag.live.width ELSE Fitted[s]

-----------------------------------------------------------------------------
(* A pane that closes gives the focus to the list (SidePane).               *)
FocusOut(at) == \E f \in {at} : spFocus' = IF f \in Sides /\ Collapsed(f)' THEN "list" ELSE f

SideActs == spActs < MaxSideActs /\ spActs' = spActs + 1 /\ spLeftAt' = NotLeft
(* One change of the store: commit(), toggle() and reset().                 *)
CommitPane(s, pane) == spPane' = [spPane EXCEPT ![s] = pane] /\ spPriority' = s

GrabHandle(s) ==
  /\ SideActs /\ spDrag = NoSideDrag
  /\ spDrag' = [NoSideDrag EXCEPT !.side = s, !.rendered = [width |-> Fitted[s], collapsed |-> spPane[s].collapsed],
                  !.stored = spPane[s], !.other = Fitted[OtherSide(s)], !.collapsed = spPane[s].collapsed]
  /\ spFocus' = "handle" /\ spCalm' = TRUE
  /\ UNCHANGED <<spPane, spPriority, spRow>>

(* A move of the pointer works on the snapshot, with the row's width of now. *)
MoveHandle ==
  /\ spDrag # NoSideDrag
  /\ \E d \in PointerMoves \union {-m : m \in PointerMoves} :
       LET next == ResolveDrag(spDrag.side, Drawn(spDrag.rendered) + d, spDrag.collapsed,
                               DragMax(spDrag.side, spRow, spDrag.other)) IN
       spDrag' = [spDrag EXCEPT !.live = next, !.collapsed = next.collapsed, !.moved = TRUE]
  /\ UNCHANGED <<spPane, spPriority, spRow, spCalm, spLeftAt, spActs>>
  /\ FocusOut(spFocus)

(* finish(true) of the pointer's end, finish(false) of Escape.              *)
SettledPane == IF spDrag.live.collapsed THEN [spDrag.stored EXCEPT !.collapsed = TRUE]
           ELSE [width |-> spDrag.live.width, collapsed |-> FALSE]
LetGo ==
  /\ spDrag # NoSideDrag /\ spDrag' = NoSideDrag
  /\ IF spDrag.moved THEN CommitPane(spDrag.side, [SettledPane EXCEPT !.width = ClampPaneWidth(spDrag.side, @, PaneMax(spDrag.side))])
     ELSE UNCHANGED <<spPane, spPriority>>
  /\ spLeftAt' = IF spDrag.moved /\ spCalm THEN [side |-> spDrag.side, width |-> spDrag.live.width] ELSE NotLeft
  /\ UNCHANGED <<spRow, spCalm, spActs>>
  /\ FocusOut(spFocus)
EscapeDrag ==
  /\ spDrag # NoSideDrag /\ spDrag' = NoSideDrag
  /\ UNCHANGED <<spPane, spPriority, spRow, spCalm, spLeftAt, spActs>>
  /\ FocusOut(spFocus)

(* A key on the handle, from what is drawn; Enter and the shortcuts toggle    *)
(* what is stored, a double click resets it.                               *)
PaneKey(s) ==
  /\ SideActs
  /\ LET base == IF spPane[s].collapsed THEN spPane[s] ELSE [width |-> Fitted[s], collapsed |-> FALSE] IN
     \E key \in {"grow", "shrink", "min", "max"} :
       CommitPane(s, [ApplyPaneKey(s, base, key, DragMax(s, spRow, Fitted[OtherSide(s)])) EXCEPT
                        !.width = ClampPaneWidth(s, @, PaneMax(s))])
  /\ spCalm' = FALSE
  /\ UNCHANGED <<spRow, spDrag>>
  /\ FocusOut("handle")
TogglePane(s) ==
  /\ SideActs /\ CommitPane(s, [spPane[s] EXCEPT !.collapsed = ~@])
  /\ spCalm' = FALSE
  /\ UNCHANGED <<spRow, spDrag>>
  /\ FocusOut(spFocus)
ResetPane(s) ==
  /\ SideActs /\ spDrag = NoSideDrag
  /\ CommitPane(s, [width |-> PaneDef(s), collapsed |-> FALSE])
  /\ spCalm' = FALSE
  /\ UNCHANGED <<spRow, spDrag>>
  /\ FocusOut("handle")

RowResized ==
  /\ SideActs /\ spRow' \in RowWidths \ {spRow}
  /\ spCalm' = FALSE
  /\ UNCHANGED <<spPane, spPriority, spDrag, spFocus>>
(* cycleRegion() passes over a pane that is closed; so does a click.         *)
FocusMoves ==
  /\ SideActs /\ spFocus' \in {"list"} \union {s \in Sides : ~Collapsed(s)}
  /\ UNCHANGED <<spPane, spPriority, spRow, spDrag, spCalm>>

SidesInit ==
  /\ \E raw \in RawWidths, closed \in BOOLEAN :
       spPane = [left |-> SanitizePane("left", raw, closed), right |-> SanitizePane("right", PaneDef("right"), FALSE)]
  /\ spPriority = "none" /\ spRow = 0 /\ spDrag = NoSideDrag /\ spFocus = "list"
  /\ spCalm = FALSE /\ spLeftAt = NotLeft /\ spActs = 0

SidesNext ==
  \/ MoveHandle \/ LetGo \/ EscapeDrag \/ RowResized \/ FocusMoves
  \/ \E s \in Sides : GrabHandle(s) \/ PaneKey(s) \/ TogglePane(s) \/ ResetPane(s)

SidesSpec == SidesInit /\ [][SidesNext]_sideVars

-----------------------------------------------------------------------------
(* The middle keeps its width, or both panes are as narrow as they may be;   *)
(* under a drag, as long as only the pointer moves, or the dragged pane is.  *)
MiddleKept ==
  spRow # 0 /\ (spDrag = NoSideDrag \/ spCalm) =>
    \/ WidthOf("left") + WidthOf("right") <= spRow - CenterMin
    \/ \A s \in Sides : WidthOf(s) <= PaneMin(s) \/ Live(OtherSide(s))

(* What is remembered and drawn of a pane stays within its limits, for every  *)
(* order of drags, keys, shortcuts and sizes of the window.                 *)
WithinLimits ==
  \A s \in Sides :
    /\ spPane[s].width \in PaneMin(s)..PaneMax(s)
    /\ IF Collapsed(s) THEN WidthOf(s) = 0 ELSE WidthOf(s) \in PaneMin(s)..PaneMax(s)

(* A pane let go of stays as wide as it was drawn: no cut makes it jump.      *)
StaysAsLeft == spLeftAt # NotLeft => Fitted[spLeftAt.side] = spLeftAt.width

(* The focus is never inside a closed pane.                                 *)
FocusSeen == spFocus \in Sides => ~Collapsed(spFocus)

SidesSafe == MiddleKept /\ WithinLimits /\ StaysAsLeft /\ FocusSeen
=============================================================================
