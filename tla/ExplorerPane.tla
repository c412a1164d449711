----------------------------- MODULE ExplorerPane -----------------------------
(***************************************************************************)
(* One tab of the explorer (Explorer.tsx, selectionModel.ts, the history   *)
(* of useTabsStore.ts): where it is, what it shows of the listing it has,  *)
(* the selection, and the name being edited in place, while deletes,       *)
(* renames, new folders and LISTs are on their way, other clients change   *)
(* the folders and the connection is lost.  A pane is a record; what       *)
(* follows from its values on every render (which folder stays shown, what *)
(* happens to the name input) is Settled, a part of every step.            *)
(***************************************************************************)
EXTENDS Naturals, Sequences, FiniteSets, SequencesExt

CONSTANTS MaxPaneSteps,  \* bound: what the user does
          MaxPaneTurns   \* bound: changes of others and losses of the connection

ASSUME ExplorerPaneAssumption == MaxPaneSteps \in Nat /\ MaxPaneTurns \in Nat

VARIABLES pane, paneDisk,
          paneOdd,     \* places others changed since they were read
          paneDel, paneRen, paneMk,   \* one of each at a time (bound)
          paneTold,    \* changes of this connection the window is told of, 0: "dir" itself
          paneSteps, paneTurns

paneVars == <<pane, paneDisk, paneOdd, paneDel, paneRen, paneMk, paneTold, paneSteps, paneTurns>>

Places == {1, 2}                               \* 2 is the folder "dir" of 1
Order == <<"a", "b", "dir", "new", "re">>
PaneItem(p, n) == [at |-> p, name |-> n]
NoItem == PaneItem(0, "none")
NoOp == [stage |-> "none"]

-----------------------------------------------------------------------------
(* What is shown.                                                           *)

Refreshing(s, p) == s.status[p] # "loading" /\ s.gen[p] \in s.reads[p]
Cached(s) == s.status[s.at] = "ready" \/ s.known[s.at] # {}

Mode(s) ==
  IF ~s.live THEN IF Cached(s) THEN "stale" ELSE "panel"
  ELSE CASE s.status[s.at] \in {"never", "loading"} -> IF s.shown \notin {0, s.at} THEN "pending" ELSE "skeleton"
         [] s.status[s.at] = "error" -> "error"
         [] OTHER -> "live"
Interactive(s) == Mode(s) \in {"live", "stale"}

(* pending shows the last folder until the new one is read.                 *)
Base(s) == CASE Interactive(s) -> s.at [] Mode(s) = "pending" -> s.shown [] OTHER -> 0
Paths(s) ==
  IF Base(s) = 0 THEN <<>>
  ELSE LET names == SelectSeq(Order, LAMBDA n : n \in s.known[Base(s)] /\ ~(s.hides /\ n = "b"))
       IN  [i \in DOMAIN names |-> PaneItem(Base(s), names[i])]
Visible(s, item) == Contains(Paths(s), item)
Selected(s) == SelectSeq(Paths(s), LAMBDA it : Contains(s.sel, it))

-----------------------------------------------------------------------------
(* selectionModel.ts                                                        *)

Pick(s, sel, anchor, focus) == [s EXCEPT !.sel = sel, !.anchor = anchor, !.focus = focus]
SelectOnly(s, item) == Pick(s, <<item>>, item, item)
ClearSelection(s) == Pick(s, <<>>, NoItem, NoItem)
Or(a, b) == IF a = NoItem THEN b ELSE a

IndexIn(paths, item) == IF Contains(paths, item) THEN CHOOSE i \in DOMAIN paths : paths[i] = item ELSE 1
RangeOf(paths, a, b) ==
  LET i == IndexIn(paths, a)
      j == IndexIn(paths, b)
  IN  IF i <= j THEN SubSeq(paths, i, j) ELSE SubSeq(paths, j, i)
Joined(sel, more) == sel \o SelectSeq(more, LAMBDA it : ~Contains(sel, it))
Stretch(s, anchor, item, add) ==
  LET r == RangeOf(Paths(s), anchor, item)
  IN  Pick(s, IF add THEN Joined(s.sel, r) ELSE r, anchor, item)

MoveFocus(s, item, shift, ctrl) ==
  IF shift THEN Stretch(s, Or(s.anchor, Or(s.focus, item)), item, ctrl) ELSE SelectOnly(s, item)

ToggleSelect(s, item) ==
  IF ~Contains(s.sel, item) THEN Pick(s, Append(s.sel, item), item, item)
  ELSE LET rest == Remove(s.sel, item)
       IN  Pick(s, rest, item, IF rest = <<>> THEN NoItem ELSE Last(rest))

ClickSelect(s, item, shift, toggle) ==
  IF shift THEN Stretch(s, Or(s.anchor, item), item, toggle)
  ELSE IF toggle THEN ToggleSelect(s, item) ELSE SelectOnly(s, item)

SelectMany(s, paths) ==
  IF paths = <<>> THEN ClearSelection(s)
  ELSE Pick(s, paths, IF Contains(paths, s.anchor) THEN s.anchor ELSE paths[1], Last(paths))
SelectAll(s) ==
  IF Paths(s) = <<>> THEN ClearSelection(s)
  ELSE Pick(s, Paths(s), s.anchor, IF Visible(s, s.focus) THEN s.focus ELSE NoItem)

-----------------------------------------------------------------------------
(* Reading, and the history of the tab.                                     *)

Load(s, p) == [s EXCEPT !.gen[p] = @ + 1, !.reads[p] = @ \union {s.gen[p] + 1},
                        !.status[p] = IF @ = "never" THEN "loading" ELSE @]
LoadIf(s, p, wanted) == IF wanted THEN Load(s, p) ELSE s

(* The effect that reads the place the tab came to.                         *)
Come(s, p, item) ==
  LET there == [s EXCEPT !.at = p, !.hides = FALSE]
  IN  LoadIf(IF item = NoItem THEN ClearSelection(there) ELSE SelectOnly(there, item), p, s.live /\ p # s.at)
Navigate(s, p, item) ==
  IF p = s.at /\ item = NoItem THEN s
  ELSE Come(IF p = s.at THEN s ELSE [s EXCEPT !.back = Append(@, s.at), !.fwd = <<>>], p, item)
GoBack(s) ==
  IF s.back = <<>> THEN s
  ELSE Come([s EXCEPT !.back = Front(@), !.fwd = <<s.at>> \o @], Last(s.back),
            IF s.at = 2 /\ Last(s.back) = 1 THEN PaneItem(1, "dir") ELSE NoItem)
GoForward(s) ==
  IF s.fwd = <<>> THEN s
  ELSE Come([s EXCEPT !.fwd = Tail(@), !.back = Append(@, s.at)], s.fwd[1], NoItem)
GoUp(s) == IF s.at = 2 THEN Navigate(s, 1, PaneItem(1, "dir")) ELSE s

-----------------------------------------------------------------------------
(* The effects of a render.  The edited name is of this place and is shown, *)
(* or waits for the listing that is being read; else the editing ends.  An  *)
(* input that appears takes the keyboard.                                   *)

EditHere(s) == s.edit.at = s.at /\ Interactive(s)
Settling(s) == Mode(s) = "live" /\ Refreshing(s, s.at)
EditEnds(s) ==
  s.edit # NoItem /\ ~Visible(s, s.edit) /\ (~EditHere(s) \/ ~Settling(s) \/ s.keys = "elsewhere")

Settled(s) ==
  LET seen  == IF s.live /\ s.status[s.at] = "ready" THEN [s EXCEPT !.shown = s.at] ELSE s
      kept  == IF EditEnds(seen) \/ (s.edit # NoItem /\ ~EditHere(seen)) THEN [seen EXCEPT !.edit = NoItem] ELSE seen
      input == kept.edit # NoItem /\ Visible(kept, kept.edit)
  IN  [kept EXCEPT !.row = input,
                   !.keys = IF input /\ ~s.row THEN "edit" ELSE IF s.row /\ ~input /\ @ = "edit" THEN "list" ELSE @]

-----------------------------------------------------------------------------
(* What the user does.  The list is not reached while a name is being typed: *)
(* that ends first, with LeavesRow.                                          *)

UserDoes(s, focus) ==
  /\ paneSteps < MaxPaneSteps
  /\ paneSteps' = paneSteps + 1
  /\ pane' = Settled([s EXCEPT !.keys = focus, !.user = focus])
  /\ UNCHANGED <<paneDisk, paneOdd, paneTold, paneTurns>>
NoCall == UNCHANGED <<paneDel, paneRen, paneMk>>
AtList == ~pane.row

Selects ==
  /\ AtList /\ NoCall
  /\ \/ \E item \in ToSet(Paths(pane)), shift, toggle \in BOOLEAN :
          \/ Interactive(pane) /\ UserDoes(ClickSelect(pane, item, shift, toggle), "list")
          \/ UserDoes(MoveFocus(pane, item, shift, toggle), "list")
     \/ Interactive(pane) /\ UserDoes(ClearSelection(pane), "list")
     \/ UserDoes(SelectAll(pane), "list")

(* The rectangle covers neighbours; with a modifier they join what was selected.                    *)
Marquee ==
  /\ AtList /\ NoCall /\ Interactive(pane)
  /\ \E a, b \in ToSet(Paths(pane)), add \in BOOLEAN :
       LET r == RangeOf(Paths(pane), a, b)
       IN  UserDoes(SelectMany(pane, IF add THEN Joined(pane.sel, r) ELSE r), "list")

Moves ==
  /\ AtList /\ NoCall
  /\ \/ \E item \in ToSet(Paths(pane)) : item = PaneItem(1, "dir") /\ UserDoes(Navigate(pane, 2, NoItem), "list")
     \/ pane.back # <<>> /\ UserDoes(GoBack(pane), "list")
     \/ pane.fwd # <<>> /\ UserDoes(GoForward(pane), "list")
     \/ pane.at = 2 /\ UserDoes(GoUp(pane), "list")

Reloads == AtList /\ NoCall /\ pane.live /\ UserDoes(Load(pane, pane.at), "list")

Finds == AtList /\ NoCall /\ UserDoes([pane EXCEPT !.hides = ~@], "elsewhere")

StartsRename ==
  /\ AtList /\ NoCall
  /\ Interactive(pane) /\ Visible(pane, pane.focus)
  /\ UserDoes([pane EXCEPT !.edit = pane.focus], "list")

(* commitRename: to the folder the item is from.                            *)
Submits(item, name) ==
  IF name \in {"none", item.name} \/ name \in pane.known[Base(pane)] \/ paneRen # NoOp THEN UNCHANGED paneRen
  ELSE paneRen' = [stage |-> "sent", item |-> item, name |-> name, from |-> pane.at, reload |-> pane.live]

(* Enter, Escape, or a click elsewhere, which submits what is typed so far. *)
LeavesRow ==
  /\ pane.row
  /\ \E name \in {"none", "a", "re"}, to \in {"list", "elsewhere"} :
       Submits(pane.edit, name) /\ UserDoes([pane EXCEPT !.edit = NoItem], to)
  /\ UNCHANGED <<paneDel, paneMk>>

AsksDelete ==
  /\ AtList /\ paneDel = NoOp
  /\ Interactive(pane) /\ Selected(pane) # <<>>
  /\ paneDel' = [stage |-> "asking", items |-> Selected(pane), from |-> pane.at, reload |-> pane.live]
  /\ UserDoes(pane, "list")
  /\ UNCHANGED <<paneRen, paneMk>>

Confirms ==
  /\ paneDel.stage = "asking"
  /\ paneDel' \in {[paneDel EXCEPT !.stage = "sent"], NoOp}
  /\ UNCHANGED <<pane, paneDisk, paneOdd, paneRen, paneMk, paneTold, paneSteps, paneTurns>>

AsksFolder ==
  /\ AtList /\ paneMk = NoOp
  /\ Mode(pane) = "live" /\ "new" \notin pane.known[pane.at]
  /\ paneMk' = [stage |-> "mkdir", at |-> pane.at, gen |-> 0]
  /\ UserDoes(pane, "list")
  /\ UNCHANGED <<paneDel, paneRen>>

-----------------------------------------------------------------------------
(* Answers                                                                  *)

Told(item) == {item.at} \union (IF item = PaneItem(1, "dir") THEN {0} ELSE {})
Without(items) ==
  [p \in Places |-> IF p = 2 /\ PaneItem(1, "dir") \in items THEN {}
                    ELSE paneDisk[p] \ {n \in paneDisk[p] : PaneItem(p, n) \in items}]

(* The list takes the keyboard again when a delete is over: a name being typed is submitted.        *)
DeleteAnswered ==
  /\ paneDel.stage = "sent"
  /\ \E gone \in IF pane.live THEN {SubSeq(paneDel.items, 1, k) : k \in 0..Len(paneDel.items)} ELSE {<<>>} :
       /\ paneDisk' = Without(ToSet(gone))
       /\ paneTold' = paneTold \union UNION {Told(it) : it \in ToSet(gone)}
  /\ \E name \in {"none", "re"} : IF pane.row THEN Submits(pane.edit, name) ELSE name = "none" /\ UNCHANGED paneRen
  /\ paneDel' = NoOp
  /\ pane' = Settled(LoadIf([ClearSelection(pane) EXCEPT !.keys = "list", !.user = "list",
                                                        !.edit = IF pane.row THEN NoItem ELSE @],
                            paneDel.from, paneDel.reload))
  /\ UNCHANGED <<paneOdd, paneMk, paneSteps, paneTurns>>

RenameAnswered ==
  /\ paneRen.stage = "sent"
  /\ LET item == paneRen.item
         done == pane.live /\ item.name \in paneDisk[item.at]
         next == PaneItem(item.at, paneRen.name)
     IN  \/ /\ done
            /\ paneDisk' = [Without({item}) EXCEPT ![item.at] = @ \union {paneRen.name}]
            /\ paneTold' = paneTold \union Told(item)
            /\ pane' = Settled(LoadIf(SelectOnly(pane, next), paneRen.from, paneRen.reload))
         \/ /\ pane' = Settled(LoadIf(pane, paneRen.from, paneRen.reload))
            /\ UNCHANGED <<paneDisk, paneTold>>
  /\ paneRen' = NoOp
  /\ UNCHANGED <<paneOdd, paneDel, paneMk, paneSteps, paneTurns>>

FolderMade ==
  /\ paneMk.stage = "mkdir"
  /\ LET p == paneMk.at
     IN  \/ /\ pane.live /\ "new" \notin paneDisk[p]
            /\ paneDisk' = [paneDisk EXCEPT ![p] = @ \union {"new"}]
            /\ paneTold' = paneTold \union {p}
            /\ pane' = Settled(Load(pane, p))
            /\ paneMk' = [paneMk EXCEPT !.stage = "load", !.gen = pane.gen[p] + 1]
         \/ paneMk' = NoOp /\ UNCHANGED <<pane, paneDisk, paneTold>>
  /\ UNCHANGED <<paneOdd, paneDel, paneRen, paneSteps, paneTurns>>

(* Fault: the name of the new folder is edited whatever the user is doing. *)
OpenAnyway(s, item) == [SelectOnly(s, item) EXCEPT !.edit = item]

(* The new folder's name is edited unless the user types elsewhere, or another name.                *)
OpenNewFolder(s, item) ==
  LET one == SelectOnly(s, item)
  IN  IF s.keys = "elsewhere" \/ (s.edit # NoItem /\ s.keys = "edit") THEN one ELSE [one EXCEPT !.edit = item]

(* A LIST is answered; only the last one asked counts.                      *)
AnsweredRead(s, p, g) ==
  LET left == [s EXCEPT !.reads[p] = @ \ {g}]
      ok   == s.live /\ (p = 2 => "dir" \in paneDisk[1])
  IN  IF g # s.gen[p] THEN left
      ELSE IF ok THEN [left EXCEPT !.known[p] = paneDisk[p], !.status[p] = "ready"]
      ELSE [left EXCEPT !.status[p] = "error"]

Reads ==
  \E p \in Places : \E g \in pane.reads[p] :
    LET made == paneMk.stage = "load" /\ paneMk.at = p /\ paneMk.gen = g
        s    == AnsweredRead(pane, p, g)
    IN  /\ pane' = Settled(IF made THEN OpenNewFolder(Settled(s), PaneItem(p, "new")) ELSE s)
        /\ paneMk' = IF made THEN NoOp ELSE paneMk
        /\ paneOdd' = IF g = pane.gen[p] /\ pane.live THEN paneOdd \ {p} ELSE paneOdd
        /\ UNCHANGED <<paneDisk, paneDel, paneRen, paneTold, paneSteps, paneTurns>>

(* syncRemote: out of a folder that is gone, and the changed folders are read anew.                 *)
SyncPane ==
  /\ paneTold # {}
  /\ LET out == IF 0 \in paneTold /\ pane.at = 2 THEN Navigate(pane, 1, NoItem) ELSE pane
         one == LoadIf(out, 1, 1 \in paneTold /\ out.status[1] # "never")
         two == LoadIf(one, 2, 2 \in paneTold /\ out.status[2] # "never")
     IN  pane' = IF pane.live THEN Settled(two) ELSE pane
  /\ paneTold' = {}
  /\ UNCHANGED <<paneDisk, paneOdd, paneDel, paneRen, paneMk, paneSteps, paneTurns>>

(* Other clients, and the connection.                                       *)
Turn == paneTurns < MaxPaneTurns /\ paneTurns' = paneTurns + 1
OthersChange ==
  /\ Turn
  /\ \E p \in Places :
       /\ paneDisk' \in {[paneDisk EXCEPT ![p] = @ \union {"b"}], Without({PaneItem(p, "a")})} \ {paneDisk}
       /\ paneOdd' = paneOdd \union {p}
  /\ UNCHANGED <<pane, paneDel, paneRen, paneMk, paneTold, paneSteps>>

Loses ==
  /\ Turn /\ pane.live
  /\ pane' = Settled([pane EXCEPT !.live = FALSE])
  /\ UNCHANGED <<paneDisk, paneOdd, paneDel, paneRen, paneMk, paneTold, paneSteps>>

Reconnects ==
  /\ ~pane.live
  /\ pane' = Settled(Load([pane EXCEPT !.live = TRUE], pane.at))
  /\ UNCHANGED <<paneDisk, paneOdd, paneDel, paneRen, paneMk, paneTold, paneSteps, paneTurns>>

-----------------------------------------------------------------------------
PaneInit ==
  /\ paneDisk = <<{"a", "dir"}, {"a"}>>
  /\ pane = [at |-> 1, back |-> <<>>, fwd |-> <<>>, sel |-> <<>>, anchor |-> NoItem, focus |-> NoItem,
             shown |-> 1, live |-> TRUE, hides |-> FALSE, edit |-> NoItem, row |-> FALSE,
             keys |-> "list", user |-> "list",
             known |-> <<{"a", "dir"}, {}>>, status |-> <<"ready", "never">>,
             gen |-> <<0, 0>>, reads |-> <<{}, {}>>]
  /\ paneOdd = {} /\ paneTold = {}
  /\ paneDel = NoOp /\ paneRen = NoOp /\ paneMk = NoOp
  /\ paneSteps = 0 /\ paneTurns = 0

PaneNext ==
  \/ DeleteAnswered \/ RenameAnswered \/ FolderMade \/ Reads \/ SyncPane
  \/ Selects \/ Marquee \/ Moves \/ Reloads \/ Finds \/ StartsRename \/ LeavesRow \/ AsksDelete \/ Confirms
  \/ AsksFolder \/ OthersChange \/ Loses \/ Reconnects

PaneSpec == PaneInit /\ [][PaneNext]_paneVars

-----------------------------------------------------------------------------
PaneTypeOK ==
  /\ pane.at \in Places /\ pane.shown \in Places
  /\ pane.keys \in {"list", "edit", "elsewhere"} /\ pane.user \in {"list", "elsewhere"}
  /\ \A p \in Places : pane.known[p] \subseteq ToSet(Order) /\ pane.reads[p] \subseteq 1..pane.gen[p]

(* What Enter, F2 and Delete work on is in the selection, without a selection there is nothing, and no item
   is in it twice, in whatever order clicks, ranges, marquees and moves come (selectionModel.ts:4-5).     *)
SelectionSound ==
  /\ pane.focus # NoItem => Contains(pane.sel, pane.focus)
  /\ Cardinality(ToSet(pane.sel)) = Len(pane.sel)

(* A name is edited only where it is shown, or while the listing that may show it is read (N10, N11), and
   the keyboard is at the input exactly while it is there.                                               *)
EditShown ==
  /\ pane.edit # NoItem => EditHere(pane) /\ (Visible(pane, pane.edit) \/ Settling(pane))
  /\ pane.row => pane.edit # NoItem /\ Visible(pane, pane.edit)
  /\ pane.keys = "edit" => pane.row

(* An input that opens late does not take the keyboard from a user who types somewhere else (N9, N11).     *)
NotStolen == pane.keys = "edit" => pane.user # "elsewhere"

(* What is deleted or renamed is of the folder the tab was in when it was chosen, never of one it still
   showed on its way to another (N12).                                                                   *)
WorksHere ==
  /\ paneDel # NoOp => \A i \in DOMAIN paneDel.items : paneDel.items[i].at = paneDel.from
  /\ paneRen # NoOp => paneRen.item.at = paneRen.from

(* The history never leads to where the tab is.                             *)
TrailMoves ==
  LET trail == pane.back \o <<pane.at>> \o pane.fwd
  IN  \A i \in 1..Len(trail) - 1 : trail[i] # trail[i + 1]

(* When nothing is on its way, the tab shows what is in its folder, unless others changed it unseen.       *)
PaneAtRest ==
  /\ \A p \in Places : pane.reads[p] = {}
  /\ paneDel.stage # "sent" /\ paneRen = NoOp /\ paneMk = NoOp /\ paneTold = {}
ShowsFolder ==
  (PaneAtRest /\ pane.live /\ pane.at \notin paneOdd /\ (pane.at = 2 => "dir" \in paneDisk[1])) =>
    Mode(pane) = "live" /\ pane.known[pane.at] = paneDisk[pane.at]

PaneSafe ==
  PaneTypeOK /\ SelectionSound /\ EditShown /\ NotStolen /\ WorksHere /\ TrailMoves /\ ShowsFolder
=============================================================================
