------------------------------ MODULE MCWindow ------------------------------
(***************************************************************************)
(* The stores of the window, each with a module of its own that also holds *)
(* what it needs of the main process.  They share no state here, so a      *)
(* behaviour runs one of them, chosen in the initial state.                *)
(***************************************************************************)
EXTENDS MoveSends, SplitConnect, SessionView, FolderView, FolderPlan,
        ExplorerPane, ServerBook, FileFilter, ShelfDrops,
        SidePanes, ActivityPanel, PathBar, ItemMenus, ConflictSheet

VARIABLE store   \* the one that runs

Stores == {"moves", "split", "session", "folders", "plan", "pane", "book", "filter", "shelf", "renames", "strip", "sides", "panel", "bar", "menus", "sheet"}

vars == <<store, moveVars, splitVars, viewVars, folderViewVars, folderPlanVars, paneVars, bookVars, filterVars, shelfVars, renameVars, stripVars, sideVars, panelVars, barVars, menuVars, sheetVars>>

(* A store that does not run begins in one of its initial states only.      *)
Init ==
  /\ store \in Stores
  /\ MoveInit /\ SplitInit /\ ViewInit /\ FolderViewInit
  /\ FolderPlanInit
  /\ store # "plan" => fpMode = "into" /\ fpSources = <<Offers[1]>> /\ fpHere = {} /\ fpNewer
  /\ PaneInit
  /\ BookInit /\ (store # "book" => ~bkRows[2].there)
  /\ FilterInit
  /\ ShelfInit
  /\ MovesInit /\ (store # "renames" => rmOverwrites)
  /\ StripInit
  /\ SidesInit /\ (store # "sides" => spPane.left = [width |-> 300, collapsed |-> FALSE])
  /\ PanelInit
  /\ BarInit /\ (store # "bar" => pbBar = 1000 /\ pbAt = 1)
  /\ MenusInit /\ (store # "menus" => imActive = 1 /\ imDests = <<>>)
  /\ SheetsInit /\ (store # "sheet" => csSaved = "")

Still(s, v) == IF store = s THEN TRUE ELSE UNCHANGED v

OthersStill ==
  /\ UNCHANGED store
  /\ Still("moves", moveVars) /\ Still("split", splitVars) /\ Still("session", viewVars)
  /\ Still("folders", folderViewVars) /\ Still("plan", folderPlanVars)
  /\ Still("pane", paneVars)
  /\ Still("book", bookVars)
  /\ Still("filter", filterVars)
  /\ Still("shelf", shelfVars)
  /\ Still("renames", renameVars)
  /\ Still("strip", stripVars)
  /\ Still("sides", sideVars)
  /\ Still("panel", panelVars)
  /\ Still("bar", barVars)
  /\ Still("menus", menuVars)
  /\ Still("sheet", sheetVars)

Next ==
  /\ \/ store = "moves" /\ MoveNext
     \/ store = "split" /\ SplitNext
     \/ store = "session" /\ ViewNext
     \/ store = "folders" /\ FolderViewNext
     \/ store = "plan" /\ FolderPlanNext
     \/ store = "pane" /\ PaneNext
     \/ store = "book" /\ BookNext
     \/ store = "filter" /\ FilterNext
     \/ store = "shelf" /\ ShelfNext
     \/ store = "renames" /\ MovesNext
     \/ store = "strip" /\ StripNext
     \/ store = "sides" /\ SidesNext
     \/ store = "panel" /\ PanelNext
     \/ store = "bar" /\ BarNext
     \/ store = "menus" /\ MenusNext
     \/ store = "sheet" /\ SheetsNext
  /\ OthersStill

(* What is due in the store that runs happens.                             *)
Fairness ==
  /\ WF_moveVars(store = "moves" /\ MoveProgress)
  /\ WF_splitVars(store = "split" /\ SplitProgress)
  /\ WF_viewVars(store = "session" /\ ViewProgress)
  /\ WF_folderViewVars(store = "folders" /\ FolderViewProgress)
  /\ WF_bookVars(store = "book" /\ BookProgress)

Spec == Init /\ [][Next]_vars /\ Fairness

-----------------------------------------------------------------------------
(* What is done is what the user chose for what he was shown: in a pane, a  *)
(* filter, a menu, the manager of servers, on the shelf, in the sheet of a  *)
(* send and in its plan, however answers, changes and askers come between;  *)
(* and the panel of what is under way shows each piece of work once.        *)
ChoicesKept ==
  /\ PaneSafe /\ FilterSafe /\ BarSafe /\ MenusSafe /\ BookSafe
  /\ ShelfSafe /\ SheetsSafe /\ FolderPlanSafe /\ PanelSafe

(* The tabs, the panes and the split are what the user made of them, however *)
(* drags, keys, connects and the window's size come between.                *)
LayoutKept == SplitSafe /\ StripSafe /\ SidesSafe

(* No store waits for an answer: a move still registered waits for the      *)
(* retry of a failed job or its jobs are gone from the list, attempts to    *)
(* connect are done or undone, and no session or folder is shown as loading.*)
WindowAtRest ==
  CASE store = "moves" -> \A i \in DOMAIN mvRegs : \/ Is(mvRegs[i], mvView, "failed")
                                                   \/ Here(mvRegs[i], mvView) = {}
    [] store = "split" -> \A a \in Numbers : attempts[a].stage \in {"done", "undone"}
    [] store = "session" -> Quiet
    [] store = "folders" -> \A d \in Dirs : ~listed[d].refreshing /\ listed[d].status # "loading"
    [] store = "book" -> BookAtRest
    [] OTHER -> TRUE

(* Whatever was begun in the window comes to an end: users act a bounded    *)
(* number of times, and every store comes to rest again.                    *)
WindowSettles == []<>WindowAtRest
=============================================================================
