------------------------------ MODULE ItemMenus ------------------------------
(***************************************************************************)
(* The menus of two panes side by side (ItemMenu.tsx and those who open      *)
(* one: the list of a pane, Explorer.tsx, and its bar, PathBar.tsx).  Each    *)
(* owner keeps its menu itself and knows nothing of the others; a menu that   *)
(* opens tells the others by an event, closes at what happens outside it,    *)
(* and whoever opened it decides where the keyboard goes then.              *)
(***************************************************************************)
EXTENDS Integers, Sequences, FiniteSets, SequencesExt

CONSTANTS MenuPanes,     \* panes of the window
          MaxMenuActs    \* bound: keys, clicks and changes

ASSUME MenuAssumption == MenuPanes \subseteq Nat \ {0} /\ MaxMenuActs \in Nat

VARIABLES
  imOpen,     \* [owner -> its menu]
  imFocus,    \* what has the keyboard: [of |-> owner or pane, what |-> ...]
  imActive,   \* the active pane
  imDests,    \* the destinations of "send to" as they are now
  imEscaped,  \* [pane -> escaped of its bar]
  imRan,      \* history: how the last step ran an entry, or <<>>
  imActs

menuVars == <<imOpen, imFocus, imActive, imDests, imEscaped, imRan, imActs>>

Kinds == {"list", "bar"}
Owners == [kind : Kinds, pane : MenuPanes]
NoMenuOpen == [menu |-> "none", active |-> 0, sub |-> 0, subActive |-> 0]
MenuShown(o) == imOpen[o].menu # "none"
MenusOf(o) == IF o.kind = "list" THEN {"item", "empty"} ELSE {"more", "sort"}

(* The entries of a menu, of which only the kind matters here.               *)
ItemEntries == <<"off", "sep", "do", "sub", "sep", "do">>
BackgroundEntries == <<"do", "do", "sep", "off">>
MoreEntries == <<"off", "do", "sub", "do">>
SortEntries == <<"do", "sep", "do">>
Entries(menu) ==
  CASE menu = "item" -> ItemEntries [] menu = "empty" -> BackgroundEntries
    [] menu = "more" -> MoreEntries [] OTHER -> SortEntries
SubEntries(menu) == IF menu = "item" THEN imDests ELSE SortEntries
DestLists == {<<"off", "do", "do">>, <<"do">>, <<>>}

Enabled(entries) == SelectSeq([i \in DOMAIN entries |-> i], LAMBDA i : entries[i] \in {"do", "sub"})
FirstEnabled(entries) == IF Enabled(entries) = <<>> THEN 0 ELSE Enabled(entries)[1]

(* Where the arrows lead; without a choice, up is the last but one.          *)
NextEntry(entries, at, key) ==
  LET order == Enabled(entries)
      n == Len(order)
      i == IF Contains(order, at) THEN CHOOSE k \in 1..n : order[k] = at ELSE 0
  IN  IF n = 0 THEN at
      ELSE CASE key = "down" -> order[(i % n) + 1]
             [] key = "up" -> IF i = 0 /\ n = 1 THEN order[1] ELSE order[((i + n - 2) % n) + 1]
             [] key = "home" -> order[1]
             [] OTHER -> order[n]

MenuActs == imActs < MaxMenuActs /\ imActs' = imActs + 1
ListOf(p) == [of |-> [kind |-> "list", pane |-> p], what |-> "self"]
ButtonOf(p) == [of |-> [kind |-> "bar", pane |-> p], what |-> "self"]
InMenu(o) == [of |-> o, what |-> "menu"]
InSub(o) == [of |-> o, what |-> "sub"]
Focused(f) == imFocus' = f /\ imActive' = f.of.pane
Unfocused == imFocus' = [imFocus EXCEPT !.what = "gone"] /\ UNCHANGED imActive

-----------------------------------------------------------------------------
(* A menu opens: the key of its body is its anchor and label.  Other menus    *)
(* hear of it and close as replaced.  The click that opened it goes on to     *)
(* the document, where only a body that has seen it before takes it as a      *)
(* click outside; so the same button again closes its menu.                 *)
MenuOpened(o, menu, first) ==
  imOpen' = [p \in Owners |->
               IF p # o THEN NoMenuOpen
               ELSE [NoMenuOpen EXCEPT !.menu = menu, !.active = IF first THEN FirstEnabled(Entries(menu)) ELSE 0]]

OpenMenu(o) ==
  /\ MenuActs
  /\ \E menu \in MenusOf(o), keyboard \in BOOLEAN :
       \* by a key, from where the focus is; a list keeps a right click to itself
       /\ keyboard => imFocus = IF o.kind = "list" THEN ListOf(o.pane) ELSE ButtonOf(o.pane)
       /\ IF o.kind = "bar" /\ imOpen[o].menu = menu
          THEN imOpen' = [imOpen EXCEPT ![o] = NoMenuOpen] /\ Focused(ButtonOf(o.pane))
          ELSE MenuOpened(o, menu, keyboard) /\ Focused(InMenu(o))
  /\ imEscaped' = IF o.kind = "bar" THEN [imEscaped EXCEPT ![o.pane] = FALSE] ELSE imEscaped
  /\ imRan' = <<>> /\ UNCHANGED imDests

(* onClose of the owner, unless it was replaced: a list takes the keyboard;   *)
(* a bar gives it to the button, but only after an Escape.                  *)
MenuClosed(o, escape) ==
  /\ imOpen' = [imOpen EXCEPT ![o] = NoMenuOpen]
  /\ IF o.kind = "list" THEN Focused(ListOf(o.pane)) /\ UNCHANGED imEscaped
     ELSE /\ imEscaped' = [imEscaped EXCEPT ![o.pane] = FALSE]
          /\ IF escape \/ imEscaped[o.pane] THEN Focused(ButtonOf(o.pane)) ELSE Unfocused

(* A click elsewhere in a pane, which takes the keyboard first; a scroll; the *)
(* window loses the focus.                                                 *)
ClickedOutside(p) ==
  /\ MenuActs
  /\ LET open == {o \in Owners : MenuShown(o)} IN
     IF open = {} THEN Focused(ListOf(p)) /\ UNCHANGED <<imOpen, imEscaped>>
     ELSE \E o \in open :
            /\ imOpen' = [imOpen EXCEPT ![o] = NoMenuOpen]
            /\ imEscaped' = IF o.kind = "bar" THEN [imEscaped EXCEPT ![o.pane] = FALSE] ELSE imEscaped
            /\ Focused(ListOf(IF o.kind = "list" THEN o.pane ELSE p))
  /\ imRan' = <<>> /\ UNCHANGED imDests
ClosedFromOutside(o) ==
  /\ MenuActs /\ MenuShown(o) /\ MenuClosed(o, FALSE)
  /\ imRan' = <<>> /\ UNCHANGED imDests

-----------------------------------------------------------------------------
(* The keys of a menu.                                                      *)
MoveKey(o) ==
  /\ MenuActs /\ imFocus \in {InMenu(o), InSub(o)}
  /\ \E key \in {"down", "up", "home", "end"}, m \in {imOpen[o].menu} :
       imOpen' = IF imFocus = InMenu(o)
                 THEN [imOpen EXCEPT ![o].active = NextEntry(Entries(m), imOpen[o].active, key)]
                 ELSE [imOpen EXCEPT ![o].subActive = NextEntry(SubEntries(m), imOpen[o].subActive, key)]
  /\ imRan' = <<>> /\ UNCHANGED <<imFocus, imActive, imDests, imEscaped>>

(* run(): an entry with a submenu opens it; another closes the menu first.   *)
RunEntry(o, i) ==
  LET m == imOpen[o].menu IN
  IF Entries(m)[i] = "sub"
  THEN /\ imOpen' = [imOpen EXCEPT ![o].sub = i, ![o].subActive = FirstEnabled(SubEntries(m))]
       /\ Focused(InSub(o)) /\ imRan' = <<>> /\ UNCHANGED imEscaped
  ELSE MenuClosed(o, FALSE) /\ imRan' = <<o, Entries(m)[i]>>
RunSubEntry(o, i) == MenuClosed(o, FALSE) /\ imRan' = <<o, SubEntries(imOpen[o].menu)[i]>>

EnterKey(o) ==
  /\ MenuActs
  /\ \/ /\ imFocus = InMenu(o) /\ Contains(Enabled(Entries(imOpen[o].menu)), imOpen[o].active)
        /\ RunEntry(o, imOpen[o].active)
     \/ /\ imFocus = InSub(o) /\ Contains(Enabled(SubEntries(imOpen[o].menu)), imOpen[o].subActive)
        /\ RunSubEntry(o, imOpen[o].subActive)
  /\ UNCHANGED imDests
BackKey(o) ==
  /\ MenuActs /\ imFocus = InSub(o)
  /\ imOpen' = [imOpen EXCEPT ![o].sub = 0, ![o].subActive = 0]
  /\ Focused(InMenu(o))
  /\ imRan' = <<>> /\ UNCHANGED <<imDests, imEscaped>>

(* Escape is seen by the bar around the menu before the menu; Tab and, in the *)
(* menu itself, the arrow to the left close it as well.  A menu whose entry   *)
(* lost the keyboard hears Escape from the document.                        *)
LeaveKey(o) ==
  /\ MenuActs /\ MenuShown(o)
  /\ \/ imFocus \in {InMenu(o), InSub(o)} /\ MenuClosed(o, TRUE)
     \/ imFocus \in {InMenu(o), InSub(o)} /\ MenuClosed(o, FALSE)
     \/ imFocus.what = "gone" /\ MenuClosed(o, FALSE)
  /\ imRan' = <<>> /\ UNCHANGED imDests

(* The mouse over an entry chooses it: one with a submenu opens it, another   *)
(* closes the one that is open.  A click runs it.                          *)
Hovered(o) ==
  /\ MenuActs /\ MenuShown(o)
  /\ \E i \in ToSet(Enabled(Entries(imOpen[o].menu))) :
       /\ imOpen[o].sub # i
       /\ IF Entries(imOpen[o].menu)[i] = "sub"
          THEN /\ imOpen' = [imOpen EXCEPT ![o].active = i, ![o].sub = i,
                                           ![o].subActive = FirstEnabled(SubEntries(imOpen[o].menu))]
               /\ Focused(InSub(o))
          ELSE /\ imOpen' = [imOpen EXCEPT ![o].active = i, ![o].sub = 0]
               /\ Focused(InMenu(o))
  /\ imRan' = <<>> /\ UNCHANGED <<imDests, imEscaped>>
HoveredInSub(o) ==
  /\ MenuActs /\ imOpen[o].sub # 0
  /\ \E i \in ToSet(Enabled(SubEntries(imOpen[o].menu))) \ {imOpen[o].subActive} :
       imOpen' = [imOpen EXCEPT ![o].subActive = i]
  /\ Focused(InSub(o))
  /\ imRan' = <<>> /\ UNCHANGED <<imDests, imEscaped>>
ClickedEntry(o) ==
  /\ MenuActs /\ MenuShown(o)
  /\ \/ \E i \in ToSet(Enabled(Entries(imOpen[o].menu))) : RunEntry(o, i)
     \/ imOpen[o].sub # 0 /\ \E i \in ToSet(Enabled(SubEntries(imOpen[o].menu))) : RunSubEntry(o, i)
  /\ UNCHANGED imDests

(* Tabs and servers come and go: the entries of an open submenu with them,     *)
(* and the one that had the keyboard.                                      *)
DestsChange ==
  /\ MenuActs /\ \E d \in DestLists \ {imDests} :
       /\ imDests' = d
       /\ IF \E o \in Owners : imFocus = InSub(o) /\ imOpen[o].menu = "item" /\ imOpen[o].subActive > Len(d)
          THEN Unfocused ELSE UNCHANGED <<imFocus, imActive>>
  /\ imRan' = <<>> /\ UNCHANGED <<imOpen, imEscaped>>

(* The list shows something else: its menu is closed, and gives back the      *)
(* keyboard if it has it (N12).                                            *)
ListChanges(p) ==
  /\ MenuActs
  /\ LET o == [kind |-> "list", pane |-> p] IN
       /\ MenuShown(o) /\ imOpen' = [imOpen EXCEPT ![o] = NoMenuOpen]
       /\ IF imFocus \in {InMenu(o), InSub(o)} THEN Focused(ListOf(p)) ELSE UNCHANGED <<imFocus, imActive>>
  /\ imRan' = <<>> /\ UNCHANGED <<imDests, imEscaped>>

MenusInit ==
  /\ imOpen = [o \in Owners |-> NoMenuOpen]
  /\ imActive \in MenuPanes /\ imFocus = ListOf(imActive)
  /\ imDests \in DestLists /\ imEscaped = [p \in MenuPanes |-> FALSE] /\ imRan = <<>> /\ imActs = 0

MenusNext ==
  \/ \E o \in Owners : \/ OpenMenu(o) \/ ClosedFromOutside(o) \/ MoveKey(o) \/ EnterKey(o) \/ BackKey(o)
                       \/ LeaveKey(o) \/ Hovered(o) \/ HoveredInSub(o) \/ ClickedEntry(o)
  \/ \E p \in MenuPanes : ClickedOutside(p) \/ ListChanges(p)
  \/ DestsChange

MenusSpec == MenusInit /\ [][MenusNext]_menuVars

-----------------------------------------------------------------------------
(* There is one menu at a time, and it has the keyboard, unless its entry      *)
(* went away; its pane is the active one, whoever's menu it replaced.        *)
OneMenu ==
  /\ Cardinality({o \in Owners : MenuShown(o)}) <= 1
  /\ \A o \in Owners : MenuShown(o) => /\ imFocus \in {InMenu(o), InSub(o)} \/ imFocus.what = "gone"
                                   /\ imActive = o.pane

(* Nothing that is closed keeps the keyboard, nothing disabled is chosen or   *)
(* run, and what was run has closed its menu.                              *)
MenuHonest ==
  /\ imFocus.what \in {"menu", "sub"} => MenuShown(imFocus.of)
  /\ imFocus.what = "sub" => imOpen[imFocus.of].sub # 0
  /\ \A o \in Owners : MenuShown(o) => imOpen[o].active = 0 \/ Contains(Enabled(Entries(imOpen[o].menu)), imOpen[o].active)
  /\ imRan # <<>> => imRan[2] \notin {"off", "sep", "sub"} /\ ~MenuShown(imRan[1])

(* A bar's Escape is forgotten with its menu: a later close is not one.       *)
EscapeForgotten == \A p \in MenuPanes : imEscaped[p] => MenuShown([kind |-> "bar", pane |-> p])

MenusSafe == OneMenu /\ MenuHonest /\ EscapeForgotten
=============================================================================
