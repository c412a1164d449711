---------------------------- MODULE ServerDatabase ----------------------------
(***************************************************************************)
(* cache.db: what initDatabase() of src/main/db/database.ts makes of a file   *)
(* that an older version, or a start that died, has left, and the servers    *)
(* and recent paths of src/main/db/servers.ts in it.  The process may die     *)
(* between two statements; a transaction is done or not done.               *)
(*                                                                         *)
(* A host is an address with a spelling, which is not told apart, but the     *)
(* unique keys of the tables do.                                            *)
(***************************************************************************)
EXTENDS Integers, Sequences, FiniteSets, SequencesExt, Filtering

CONSTANTS
  Places,          \* host:port
  DbFolders,         \* folders opened there
  RecentLimit,     \* paths kept for each account
  MaxDbActs,       \* bound: what the user does
  MaxStarts        \* bound: starts of the app

ASSUME DatabaseAssumption == /\ Places \subseteq Nat /\ DbFolders \subseteq Nat /\ IsFiniteSet(DbFolders)
                             /\ RecentLimit \in Nat \ {0} /\ {MaxDbActs, MaxStarts} \subseteq Nat

VARIABLES
  sdAt,         \* statement of initDatabase() that is next, "up" or "off"
  sdTables, sdColumns, sdIndexed,
  sdRows,       \* servers: sequence of [there, host, user], by id; of auxiliary use is
                \* old: it is where the file had it
  sdOld,        \* server_recent_paths
  sdRecent,     \* remote_recent_paths, last visited first
  sdFailed,     \* columns that could not be added in this run
  sdOwed,       \* auxiliary: what the first start has to take over; {} once something was done
  sdGone,       \* auxiliary: paths whose server was removed or moved, not visited since
  sdLast,       \* history: the path just recorded, or <<>>
  sdActs, sdStarts

databaseVars == <<sdAt, sdTables, sdColumns, sdIndexed, sdRows, sdOld, sdRecent, sdFailed, sdOwed,
                  sdGone, sdLast, sdActs, sdStarts>>

Hosts == [place : Places, upper : BOOLEAN]
Same(h, g) == h.place = g.place                     \* lower(host) = lower(?), and the port
KeyUser(user) == IF user = "" THEN "anonymous" ELSE user
RowIds == {id \in DOMAIN sdRows : sdRows[id].there}
At(host) == {id \in RowIds : Same(sdRows[id].host, host)}
Clashes(rows) == \E i, j \in DOMAIN rows : i # j /\ rows[i].there /\ rows[j].there /\ rows[i].host = rows[j].host

Script == <<"servers", "oldPaths", "previews", "folderPreviews">>
FirstTables == InSeq(Script)
AllTables == FirstTables \union {"remotePreviews", "recentPaths"}
AllColumns == {"itemCount", "maxTransfers", "cipher"}
Readable == {"maxTransfers", "cipher"} \subseteq sdColumns     \* SERVER_COLUMNS
Order == <<"tables", "index", "itemCount", "maxTransfers", "cipher", "remotePreviews", "recentPaths", "up">>
NextStep == Order[(CHOOSE i \in DOMAIN Order : Order[i] = sdAt) + 1]

DbStill == UNCHANGED <<sdRows, sdOld, sdRecent, sdOwed, sdGone, sdActs, sdStarts>>

-----------------------------------------------------------------------------
(* initDatabase().                                                          *)
StartApp ==
  /\ sdAt = "off" /\ sdStarts < MaxStarts
  /\ sdAt' = "tables" /\ sdStarts' = sdStarts + 1 /\ sdFailed' = {} /\ sdLast' = <<>>
  /\ UNCHANGED <<sdTables, sdColumns, sdIndexed, sdRows, sdOld, sdRecent, sdOwed, sdGone, sdActs>>

(* The script of the first version, which may be cut short; a table that is   *)
(* made now has item_count.                                                *)
CreateTables ==
  /\ sdAt = "tables"
  /\ \E n \in 1..Len(Script) :
       /\ sdTables' = sdTables \union InSeq(SubSeq(Script, 1, n))
       /\ sdColumns' = sdColumns \union (IF n = Len(Script) /\ "folderPreviews" \notin sdTables
                                       THEN {"itemCount"} ELSE {})
       /\ sdAt' = IF n = Len(Script) THEN NextStep ELSE "off"
  /\ UNCHANGED <<sdIndexed, sdFailed, sdLast>> /\ DbStill

(* Refused, silently, while two rows are the same.                          *)
IndexServers ==
  /\ sdAt = "index" /\ sdAt' = NextStep
  /\ sdIndexed' = (sdIndexed \/ ~Clashes(sdRows))
  /\ UNCHANGED <<sdTables, sdColumns, sdFailed, sdLast>> /\ DbStill

(* A column that is there already is told by the error; another error leaves *)
(* the app running without it (bound: one, and not in the last start).     *)
AddColumn ==
  /\ sdAt \in AllColumns /\ sdAt' = NextStep
  /\ \/ sdColumns' = sdColumns \union {sdAt} /\ UNCHANGED sdFailed
     \/ sdAt \notin sdColumns /\ sdStarts < MaxStarts /\ sdFailed = {} /\ sdFailed' = sdFailed \union {sdAt} /\ UNCHANGED sdColumns
  /\ UNCHANGED <<sdTables, sdIndexed, sdLast>> /\ DbStill

CreatePreviews ==
  /\ sdAt = "remotePreviews" /\ sdAt' = NextStep /\ sdTables' = sdTables \union {"remotePreviews"}
  /\ UNCHANGED <<sdColumns, sdIndexed, sdFailed, sdLast>> /\ DbStill

(* The paths of before, to the user of the row of their server.                *)
TakenOver ==
  UNION {{[host |-> o.host, user |-> KeyUser(sdRows[id].user), path |-> o.path] : id \in At(o.host)} : o \in sdOld}
NeverMade == FALSE                      \* Fault: every start takes them over
MadeBefore == "recentPaths" \in sdTables
MigrateRecentPaths ==
  /\ sdAt = "recentPaths" /\ sdAt' = NextStep
  /\ sdTables' = sdTables \union {"recentPaths"}
  /\ sdRecent' = IF MadeBefore THEN sdRecent ELSE SetToSeq(TakenOver)
  /\ UNCHANGED <<sdColumns, sdIndexed, sdRows, sdOld, sdFailed, sdOwed, sdGone, sdLast, sdActs, sdStarts>>

(* Killed, or quit (bound: while there is a start left).                    *)
DbDies ==
  /\ sdAt # "off" /\ sdStarts < MaxStarts /\ sdAt' = "off" /\ sdLast' = <<>>
  /\ UNCHANGED <<sdTables, sdColumns, sdIndexed, sdFailed>> /\ DbStill

-----------------------------------------------------------------------------
(* While the app is up.                                                     *)
DbActs == sdAt = "up" /\ sdActs < MaxDbActs /\ sdActs' = sdActs + 1 /\ sdOwed' = {}
DbKept == UNCHANGED <<sdAt, sdTables, sdColumns, sdIndexed, sdFailed, sdOld, sdStarts>>

(* INSERT and UPDATE OR REPLACE: of equal rows one is left, a changed one      *)
(* rather than one that was there.                                         *)
Survivors(rows, changed) ==
  {S \in SUBSET (DOMAIN rows) :
     /\ \A i \in DOMAIN rows : \E j \in S : rows[j] = rows[i]
     /\ \A i, j \in S : rows[i] = rows[j] => i = j
     /\ \A i \in S : i \in changed \/ ~\E j \in changed : rows[j] = rows[i]}

(* saveServer() without an id, and the row that a connection leaves; neither  *)
(* when the address is saved already.                                      *)
AddServer(host, user) ==
  /\ DbActs /\ Readable /\ At(host) = {}
  /\ sdRows' = Append(sdRows, [there |-> TRUE, host |-> host, user |-> user, old |-> FALSE])
  /\ sdLast' = <<>> /\ UNCHANGED <<sdRecent, sdGone>> /\ DbKept

(* saveServer() with one: only another address is looked for; two rows spelled *)
(* the same are refused by the index.  The paths go with their address.      *)
SaveServer(id, host, user) ==
  LET old == sdRows[id]
      rows == [sdRows EXCEPT ![id].host = host, ![id].user = user, ![id].old = IF Same(old.host, host) THEN @ ELSE FALSE]
      moved == {i \in DOMAIN sdRecent : Same(sdRecent[i].host, old.host)}
      paths == [i \in DOMAIN sdRecent |-> IF i \in moved THEN [sdRecent[i] EXCEPT !.host = host] ELSE sdRecent[i]]
  IN  /\ DbActs /\ Readable /\ id \in RowIds
      /\ Same(old.host, host) \/ At(host) = {}
      /\ sdIndexed => ~Clashes(rows)
      /\ sdRows' = rows
      /\ IF old.host = host THEN UNCHANGED <<sdRecent, sdGone>>
         ELSE /\ \E S \in Survivors(paths, moved) : sdRecent' = Picked(paths, S)
              /\ sdGone' = IF Same(old.host, host) THEN sdGone
                           ELSE (sdGone \union [place : {old.host.place}, path : DbFolders])
                                  \ {[place |-> host.place, path |-> paths[i].path] : i \in moved}
      /\ sdLast' = <<>> /\ DbKept

(* deleteServer(): the paths first; the process may die between.             *)
RemoveServer(id) ==
  /\ DbActs /\ id \in RowIds
  /\ \E done \in 1..3 :
       /\ sdRecent' = Picked(sdRecent, {i \in DOMAIN sdRecent : ~Same(sdRecent[i].host, sdRows[id].host)})
       /\ sdOld' = IF done > 1 THEN {o \in sdOld : o.host # sdRows[id].host} ELSE sdOld
       /\ sdRows' = IF done > 2 THEN [sdRows EXCEPT ![id].there = FALSE] ELSE sdRows
       /\ sdAt' = IF done > 2 THEN "up" ELSE "off"
  /\ sdGone' = sdGone \union [place : {sdRows[id].host.place}, path : DbFolders]
  /\ sdLast' = <<>> /\ UNCHANGED <<sdTables, sdColumns, sdIndexed, sdFailed, sdStarts>>

(* recordRecentPath(): a row of another spelling goes, the visit comes first, *)
(* and of the account's rows the last are kept.                            *)
RecordPath(host, user, path) ==
  LET row == [host |-> host, user |-> user, path |-> path]
      mine(r) == Same(r.host, host) /\ r.user = user
      respelled(r) == mine(r) /\ r.path = path /\ r.host # host
      others == Picked(sdRecent, {i \in DOMAIN sdRecent : ~respelled(sdRecent[i])})
      visited == <<row>> \o Only(others, InSeq(others) \ {row})
      ranked == {i \in DOMAIN visited : mine(visited[i])}
      kept == {i \in DOMAIN visited : i \in ranked => Cardinality({j \in ranked : j <= i}) <= RecentLimit}
  IN  /\ DbActs
      /\ \E done \in 1..3 :
           /\ sdRecent' = IF done = 1 THEN others ELSE IF done = 2 THEN visited ELSE Picked(visited, kept)
           /\ sdAt' = IF done = 3 THEN "up" ELSE "off"
           /\ sdGone' = IF done = 1 THEN sdGone ELSE sdGone \ {[place |-> host.place, path |-> path]}
           /\ sdLast' = IF done = 3 THEN <<row>> ELSE <<>>
      /\ UNCHANGED <<sdTables, sdColumns, sdIndexed, sdFailed, sdOld, sdStarts, sdRows>>

(* getRecentPaths().                                                        *)
RecentPaths(host, user) ==
  LET mine == Picked(sdRecent, {i \in DOMAIN sdRecent : Same(sdRecent[i].host, host) /\ sdRecent[i].user = user})
  IN  SubSeq(mine, 1, IF Len(mine) > RecentLimit THEN RecentLimit ELSE Len(mine))

(* A new file; one of the first version, with or without rows that differ in   *)
(* case only; one of the last version, which keeps the old table.           *)
Small(p) == [place |-> p, upper |-> FALSE]
Large(p) == [place |-> p, upper |-> TRUE]
RowOfFile(host, user) == [there |-> TRUE, host |-> host, user |-> user, old |-> TRUE]
RowsOfFile == {<<RowOfFile(Large(1), "")>>, <<RowOfFile(Small(1), "me"), RowOfFile(Large(1), "")>>}
OldPaths == {[host : {Small(1), Large(1)}, path : {1}], [host : {Large(1)}, path : DbFolders]}

DatabaseInit ==
  /\ sdAt = "off"
  /\ \/ /\ sdTables = {} /\ sdColumns = {} /\ sdIndexed = FALSE
        /\ sdRows = <<>> /\ sdOld = {} /\ sdRecent = <<>>
     \/ /\ sdTables = FirstTables /\ sdColumns = {} /\ sdIndexed = FALSE
        /\ sdRows \in RowsOfFile /\ sdOld \in OldPaths /\ sdRecent = <<>>
     \/ /\ sdTables = AllTables /\ sdColumns = AllColumns /\ sdIndexed = TRUE
        /\ sdRows \in RowsOfFile /\ sdOld \in OldPaths
        /\ sdRecent = <<[host |-> Small(1), user |-> "me", path |-> 1]>>
  /\ sdOwed = IF sdTables = FirstTables THEN TakenOver ELSE {}
  /\ sdGone = {} /\ sdFailed = {} /\ sdLast = <<>> /\ sdActs = 0 /\ sdStarts = 0

DatabaseNext ==
  \/ StartApp \/ CreateTables \/ IndexServers \/ AddColumn \/ CreatePreviews \/ MigrateRecentPaths \/ DbDies
  \/ \E host \in Hosts :
       \/ AddServer(host, "")
       \/ \E id \in DOMAIN sdRows, user \in {"", "me"} : SaveServer(id, host, user)
       \/ \E user \in {"anonymous", "me"}, path \in DbFolders : RecordPath(host, user, path)
  \/ \E id \in DOMAIN sdRows : RemoveServer(id)

DatabaseSpec == DatabaseInit /\ [][DatabaseNext]_databaseVars

-----------------------------------------------------------------------------
(* Whatever file it was and wherever earlier starts died, the app that is up  *)
(* has every table, and every column but one that could not be added now.    *)
SchemaReady == sdAt = "up" => AllTables \subseteq sdTables /\ AllColumns \ sdFailed \subseteq sdColumns

(* The paths of before are taken over, once, however often the first start    *)
(* died; those of a server that was removed or moved do not come back (SH9).  *)
PathsTakenOver == sdAt = "up" => sdOwed \subseteq InSeq(sdRecent)
GoneForGood == \A r \in InSeq(sdRecent) : [place |-> r.host.place, path |-> r.path] \notin sdGone

(* The folder just opened is the first and is there once, in whatever spelling *)
(* it was known; no account keeps more than its share (SH8).                *)
LastFirst ==
  /\ sdLast # <<>> =>
       LET r == sdLast[1]
           shown == RecentPaths(r.host, r.user)
       IN  /\ shown[1].path = r.path
           /\ \A i \in DOMAIN sdRecent :
                Same(sdRecent[i].host, r.host) /\ sdRecent[i].user = r.user /\ sdRecent[i].path = r.path => sdRecent[i] = r
           /\ Cardinality({i \in DOMAIN sdRecent : Same(sdRecent[i].host, r.host) /\ sdRecent[i].user = r.user}) <= RecentLimit
  /\ \A i, j \in DOMAIN sdRecent : sdRecent[i] = sdRecent[j] => i = j

(* Two rows for one address are as old as the file; none is made or moved     *)
(* there since.                                                            *)
NoNewTwins == \A i, j \in RowIds : i < j /\ Same(sdRows[i].host, sdRows[j].host) => sdRows[i].old /\ sdRows[j].old

DatabaseSafe == SchemaReady /\ PathsTakenOver /\ GoneForGood /\ LastFirst /\ NoNewTwins
=============================================================================
