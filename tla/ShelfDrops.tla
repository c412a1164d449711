------------------------------ MODULE ShelfDrops ------------------------------
(***************************************************************************)
(* The shelf and what is dragged (useShelfStore.ts, Shelf.tsx,             *)
(* ShelfDock.tsx, dnd.ts), and the sends they start (sendPlan.ts,          *)
(* sendItems.ts): a send is planned at once, its parts begin or fail much   *)
(* later, and meanwhile the user shelves, takes back, drags and drops.      *)
(***************************************************************************)
EXTENDS Naturals, Sequences, FiniteSets, SequencesExt

CONSTANTS SendIds,        \* sends, numbered as they begin
          MaxShelfActs    \* bound: what the user and the network do

ASSUME ShelfDropsAssumption == SendIds \subseteq Nat /\ IsFiniteSet(SendIds) /\ MaxShelfActs \in Nat

VARIABLES
  shItems,     \* useShelfStore: items
  shDropping,  \* sendItems: dropping
  shDrag,      \* useDnd: [what, items, fromShelf, over]
  shHeld,      \* what is really being dragged: "none", "items", "server" or "files"
  shMounted,   \* the tile that it was dragged from is still there
  shOsDrag,    \* useOsDrag: [on, depth]
  shConn,      \* the servers that are connected
  shStats,     \* local files whose local:stat is under way
  shSend,      \* per send [at, by, items, plan, left, started]
  shOwed,      \* history: what the user shelved and neither took back nor had sent
  shActs

shelfVars == <<shItems, shDropping, shDrag, shHeld, shMounted, shOsDrag, shConn, shStats, shSend, shOwed, shActs>>

(* Where a thing is: side, server and path.  Things 1, 2 and 3 have the same *)
(* path; 4 is a folder beside 1, 5 a file in a folder of this computer.      *)
LocOf(side, server, path) == [side |-> side, server |-> server, path |-> path]
Where == <<LocOf("remote", 1, <<"a", "x">>), LocOf("remote", 2, <<"a", "x">>), LocOf("local", 0, <<"a", "x">>),
           LocOf("remote", 1, <<"a", "d">>), LocOf("local", 0, <<"a", "y">>)>>
Things == DOMAIN Where
Dests == {LocOf("remote", 1, <<"a">>), LocOf("remote", 1, <<"a", "d">>), LocOf("remote", 2, <<"a">>),
          LocOf("local", 0, <<"a">>), LocOf("local", 0, <<"b">>)}

-----------------------------------------------------------------------------
(* planSend(): each thing is sent to the other side, copied to another      *)
(* server, moved or copied on its own side, or already there; or nothing is *)
(* done at all.                                                            *)
PlanSend(items, dest, conn) ==
  LET other == {t \in items : Where[t].side # dest.side}
      relayed == {t \in items \ other : Where[t].side = "remote" /\ Where[t].server # dest.server}
      same == (items \ other) \ relayed
      here == {t \in same : Front(Where[t].path) = dest.path}
      servers == {Where[t].server : t \in {t \in items : Where[t].side = "remote"}}
                 \union (IF dest.side = "remote" THEN {dest.server} ELSE {})
  IN  [transfer |-> other, relay |-> relayed, sameSide |-> same \ here, here |-> here,
       invalid |-> \/ \E t \in same : IsPrefix(Where[t].path, dest.path)
                   \/ ~(servers \subseteq conn)
                   \/ items = here]

(* runParts(): an upload, a download or a copy for each server, and the      *)
(* move or copy of the same side begin on their own.                        *)
ByServer(items) == {{t \in items : Where[t].server = s} : s \in {Where[t].server : t \in items}}
PartsOf(plan) ==
  ByServer(plan.transfer) \union ByServer(plan.relay) \union (IF plan.sameSide = {} THEN {} ELSE {plan.sameSide})

NewSend == [at |-> "none", by |-> "none", items |-> {}, here |-> {}, left |-> {}, started |-> {}]
NextSend == {s \in SendIds : shSend[s].at = "none" /\ \A r \in SendIds : shSend[r].at = "none" => s <= r}
OpenSends == {s \in SendIds : shSend[s].at = "open"}

SendBegins(by, items, dest) ==
  LET plan == PlanSend(items, dest, shConn) IN
  /\ ~plan.invalid
  /\ \E s \in NextSend : shSend' = [shSend EXCEPT ![s] = [at |-> "open", by |-> by, items |-> items,
                                      here |-> plan.here, left |-> PartsOf(plan), started |-> {}]]
DropRefused(items, dest) == items = {} \/ PlanSend(items, dest, shConn).invalid

Acts == shActs < MaxShelfActs /\ shActs' = shActs + 1
InSends == UNION {shSend[s].items : s \in OpenSends}

(* add(): what is already there is not shelved twice.                       *)
Shelve(items) == /\ shItems' = shItems \union items
                 /\ shOwed' = shOwed \union (items \ InSends)
TakeBack(items) == shItems' = shItems \ items /\ shOwed' = shOwed \ items

(* From the menu or the keyboard, a tile's cross, "empty the shelf".         *)
UserShelves ==
  /\ Acts /\ shHeld = "none"
  /\ \/ \E items \in {{1, 4}, {2}, {3, 5}} : Shelve(items)
     \/ \E items \in {{t} : t \in shItems} \union {shItems} : TakeBack(items)
  /\ UNCHANGED <<shDropping, shDrag, shHeld, shMounted, shOsDrag, shConn, shStats, shSend>>

(* dropShelf(): one at a time.                                              *)
DropShelf ==
  /\ Acts /\ shHeld = "none"
  /\ ~shDropping
  /\ \E dest \in Dests : SendBegins("shelf", shItems, dest)
  /\ shDropping' = TRUE
  /\ UNCHANGED <<shItems, shDrag, shHeld, shMounted, shOsDrag, shConn, shStats, shOwed>>

(* "Send to", and what was dropped by another program on a folder.          *)
SendItems(items) ==
  /\ \E dest \in Dests : SendBegins("menu", items, dest)
  /\ UNCHANGED shDropping
MenuSends ==
  /\ Acts /\ shHeld = "none" /\ SendItems({1, 4})
  /\ UNCHANGED <<shItems, shDrag, shHeld, shMounted, shOsDrag, shConn, shStats, shOwed>>

(* A part begins, or does not: no connection, no listing, the user's cancel *)
(* of the question.  After the last one what began leaves the shelf; with    *)
(* all of them also what was already there.                                *)
FromShelf(send) == send.by \in {"shelf", "drag"}
LeavesShelf(send) == IF send.started = send.items \ send.here THEN send.items ELSE send.started

PartEnds(s) ==
  /\ s \in OpenSends
  /\ \E part \in shSend[s].left, ok \in BOOLEAN :
       LET send == [shSend[s] EXCEPT !.left = @ \ {part}, !.started = @ \union (IF ok THEN part ELSE {})]
           last == send.left = {} IN
       /\ shSend' = [shSend EXCEPT ![s] = IF last THEN [NewSend EXCEPT !.at = "ended"] ELSE send]
       /\ shItems' = IF last /\ FromShelf(send) THEN shItems \ LeavesShelf(send) ELSE shItems
       /\ shDropping' = (shDropping /\ ~(last /\ send.by = "shelf"))
       /\ shOwed' = (shOwed \ (IF ok /\ FromShelf(send) THEN part ELSE {}))
                    \ (IF last /\ FromShelf(send) /\ send.started = send.items \ send.here THEN send.here ELSE {})
  /\ UNCHANGED <<shDrag, shHeld, shMounted, shOsDrag, shConn, shStats, shActs>>

-----------------------------------------------------------------------------
(* A drag of things, of a saved server, or of another program's files.      *)
NoDrag == [what |-> "none", items |-> {}, fromShelf |-> FALSE, over |-> FALSE]
EndDrag == shDrag' = NoDrag

StartDrag ==
  /\ Acts /\ shHeld = "none"
  /\ \/ shDrag' = [NoDrag EXCEPT !.what = "server"]
     \/ \E t \in shItems : shDrag' = [NoDrag EXCEPT !.what = "items", !.items = {t}, !.fromShelf = TRUE]
     \/ \E items \in {{1, 4}, {2}, {3}} : shDrag' = [NoDrag EXCEPT !.what = "items", !.items = items]
  /\ shHeld' = shDrag'.what /\ shMounted' = TRUE
  /\ UNCHANGED <<shItems, shDropping, shOsDrag, shConn, shStats, shSend, shOwed>>

(* Another program's files come over the window: useOsDrag() counts what is *)
(* entered and left.                                                       *)
FilesCome ==
  /\ Acts /\ shHeld = "none"
  /\ shHeld' = "files" /\ shOsDrag' = [on |-> TRUE, depth |-> shOsDrag.depth + 1]
  /\ UNCHANGED <<shItems, shDropping, shDrag, shMounted, shConn, shStats, shSend, shOwed>>
Left(depth, outside) ==
  IF depth <= 1 \/ outside THEN [on |-> FALSE, depth |-> 0] ELSE [on |-> shOsDrag.on, depth |-> depth - 1]
FilesCross ==     \* the new element is entered first; one that has gone is never left
  /\ Acts /\ shHeld = "files"
  /\ shOsDrag' \in {Left(shOsDrag.depth + 1, FALSE), [on |-> TRUE, depth |-> shOsDrag.depth + 1]}
  /\ UNCHANGED <<shItems, shDropping, shDrag, shHeld, shMounted, shConn, shStats, shSend, shOwed>>
FilesGo ==
  /\ shHeld = "files" /\ shHeld' = "none"
  /\ shOsDrag' = Left(shOsDrag.depth, TRUE) /\ shDrag' = [shDrag EXCEPT !.over = FALSE]
  /\ UNCHANGED <<shItems, shDropping, shMounted, shConn, shStats, shSend, shOwed, shActs>>

(* A target is reached, and may open its tab after a while; then the tile   *)
(* that was dragged goes, and with it its dragend.                          *)
DragOver ==
  /\ shHeld # "none" /\ ~shDrag.over
  /\ shDrag' = [shDrag EXCEPT !.over = TRUE]
  /\ shMounted' \in {shMounted, FALSE}
  /\ UNCHANGED <<shItems, shDropping, shHeld, shOsDrag, shConn, shStats, shSend, shOwed, shActs>>

DragGivenUp ==
  /\ shHeld \in {"items", "server"} /\ shHeld' = "none"
  /\ IF shMounted THEN EndDrag ELSE UNCHANGED shDrag
  /\ UNCHANGED <<shItems, shDropping, shMounted, shOsDrag, shConn, shStats, shSend, shOwed, shActs>>

(* armDragReset(): the first move of the mouse after a drag.                *)
MouseMoves ==
  /\ shHeld = "none" /\ shDrag # NoDrag /\ EndDrag
  /\ UNCHANGED <<shItems, shDropping, shHeld, shMounted, shOsDrag, shConn, shStats, shSend, shOwed, shActs>>

(* onDrop() of the shelf: files are looked up first.  What useDnd holds is   *)
(* dropped, and else the files.                                            *)
Dropped == IF shDrag.what = "none" THEN "files" ELSE shDrag.what
DropOnShelf ==
  /\ shHeld # "none" /\ shDrag.over /\ shHeld' = "none" /\ EndDrag
  /\ shOsDrag' = [on |-> FALSE, depth |-> 0]
  /\ IF Dropped = "items" THEN Shelve(shDrag.items) /\ UNCHANGED shStats
     ELSE /\ shStats' = IF Dropped = "files" THEN shStats \union {5} ELSE shStats
          /\ UNCHANGED <<shItems, shOwed>>
  /\ UNCHANGED <<shDropping, shMounted, shConn, shSend, shActs>>
StatAnswered ==
  /\ \E t \in shStats, found \in BOOLEAN :
       /\ shStats' = shStats \ {t}
       /\ IF found THEN Shelve({t}) ELSE UNCHANGED <<shItems, shOwed>>
  /\ UNCHANGED <<shDropping, shDrag, shHeld, shMounted, shOsDrag, shConn, shSend, shActs>>

(* onDrop() of a place: a server connects; from the shelf to a server that   *)
(* is not connected, only the connect begins; else a send.                  *)
ConnectsFirst(dest) == shDrag.fromShelf /\ dest.side = "remote" /\ dest.server \notin shConn
DropOnPlace ==
  /\ shHeld # "none" /\ shDrag.over /\ shHeld' = "none" /\ EndDrag
  /\ shOsDrag' = [on |-> FALSE, depth |-> 0]
  /\ \E dest \in Dests :
       LET items == IF Dropped = "files" THEN {5} ELSE shDrag.items IN
       IF Dropped = "server" \/ ConnectsFirst(dest) \/ DropRefused(items, dest) THEN UNCHANGED shSend
       ELSE SendBegins(IF shDrag.fromShelf THEN "drag" ELSE "menu", items, dest)
  /\ UNCHANGED <<shItems, shDropping, shMounted, shConn, shStats, shOwed, shActs>>

ConnectionsChange ==
  /\ Acts /\ shConn' \in {{1}, {1, 2}} \ {shConn}
  /\ UNCHANGED <<shItems, shDropping, shDrag, shHeld, shMounted, shOsDrag, shStats, shSend, shOwed>>

ShelfInit ==
  /\ shItems = {} /\ shDropping = FALSE /\ shDrag = NoDrag /\ shHeld = "none" /\ shMounted = TRUE
  /\ shOsDrag = [on |-> FALSE, depth |-> 0] /\ shConn = {1, 2} /\ shStats = {}
  /\ shSend = [s \in SendIds |-> NewSend] /\ shOwed = {} /\ shActs = 0

ShelfNext ==
  \/ UserShelves \/ DropShelf \/ MenuSends \/ StatAnswered \/ ConnectionsChange
  \/ StartDrag \/ FilesCome \/ FilesCross \/ FilesGo \/ DragOver \/ DragGivenUp \/ MouseMoves
  \/ DropOnShelf \/ DropOnPlace
  \/ \E s \in SendIds : PartEnds(s)

ShelfSpec == ShelfInit /\ [][ShelfNext]_shelfVars

-----------------------------------------------------------------------------
ShelfTypeOK ==
  /\ shItems \subseteq Things /\ shOwed \subseteq Things /\ shStats \subseteq Things
  /\ \A s \in OpenSends : shSend[s].left # {} /\ shSend[s].items # {}

(* What the user shelved stays until he takes it back, a send from the shelf *)
(* began it, or all the rest of one began and it was already there: however  *)
(* the parts of the sends fail and whatever is shelved meanwhile.           *)
ShelfKept == shOwed \subseteq shItems

(* The shelf is dropped once at a time, and can be dropped again after.      *)
DropsOnce == /\ Cardinality({s \in OpenSends : shSend[s].by = "shelf"}) <= 1
             /\ shDropping <=> \E s \in OpenSends : shSend[s].by = "shelf"

(* Every part of a plan goes one way, between connected servers, nothing is  *)
(* sent twice or into itself, and only what is already there is left out.    *)
PlanSound ==
  shActs = 1 /\ shConn = {1} =>     \* in one state: the plan is a function of what it is given
    \A items \in SUBSET Things, dest \in Dests, conn \in SUBSET {1, 2} :
      LET plan == PlanSend(items, dest, conn)
          parts == PartsOf(plan) IN
      ~plan.invalid =>
        /\ UNION parts = items \ plan.here /\ parts # {} /\ {} \notin parts
        /\ \A p, q \in parts : p = q \/ p \intersect q = {}
        /\ \A p \in parts : Cardinality({<<Where[t].side, Where[t].server>> : t \in p}) = 1
        /\ \A t \in items : /\ Where[t].side = "remote" => Where[t].server \in conn
                            /\ ~(Where[t].side = dest.side /\ Where[t].server = dest.server
                                 /\ IsPrefix(Where[t].path, dest.path))
        /\ \A t \in plan.here : Where[t].server = dest.server /\ Where[t].side = dest.side

(* The guide shows while files are over the window, and no longer; a drag   *)
(* is of what is held, and leaves nothing for a later drop of files, unless *)
(* its tile had gone.                                                      *)
DragsEnd == /\ shOsDrag.on <=> shHeld = "files"
            /\ shHeld \in {"items", "server"} => shDrag.what = shHeld
            /\ shHeld = "files" /\ shMounted => Dropped = "files" /\ ~shDrag.fromShelf

ShelfSafe == ShelfTypeOK /\ ShelfKept /\ DropsOnce /\ PlanSound /\ DragsEnd
=============================================================================
