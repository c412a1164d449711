------------------------------ MODULE AgentTools ------------------------------
(***************************************************************************)
(* What the agent's tools do (mcpTools.ts, agentOps.ts), and to which      *)
(* connection (agentTarget.ts): each call finds its connection, then goes  *)
(* from one command to the next, and the user may stop it, or change the   *)
(* connections and the files, before any of the answers.                   *)
(***************************************************************************)
EXTENDS Naturals, Sequences, FiniteSets

CONSTANTS ToolCalls,      \* calls of tools, numbered as they come
          MaxOthers       \* bound: what the user and the network do besides

ASSUME ToolsAssumption == ToolCalls \subseteq Nat /\ IsFiniteSet(ToolCalls) /\ MaxOthers \in Nat

VARIABLES
  atConn,     \* connectedKeys()
  atStates,   \* states(): every session that was made
  atLast,     \* deps.target.last
  atTree,     \* the two names of the folder on each server
  atCall,     \* per call [tool, key, at, stopped, overwrite, found, todo]
  atLate,     \* history: calls that began a command, or told of one, after their stop
  atHarm,     \* history: calls that replaced a file they had seen
  atOthers

toolVars == <<atConn, atStates, atLast, atTree, atCall, atLate, atHarm, atOthers>>

(* A key is a host and a user.  The second server is saved without a name;  *)
(* the name of the first is the host of a third, which is not saved.        *)
SavedRows == <<[name |-> "g", host |-> "h", user |-> 1], [name |-> "", host |-> "h", user |-> 2]>>
KeyOf(r) == <<SavedRows[r].host, SavedRows[r].user>>
ConnKeys == {<<"h", 1>>, <<"h", 2>>, <<"g", 1>>}
NoKey == <<>>
OnServer == {"x", "y"}

(* A reference: nothing, an id, a name or host, or the key of a connection. *)
RefOf(by, what) == [by |-> by, what |-> what]
NoRef == RefOf("none", 0)
References == {NoRef, RefOf("text", "g"), RefOf("text", "h")}
              \union {RefOf("id", n) : n \in {1, 2, 3}} \union {RefOf("key", k) : k \in ConnKeys}

(* resolveServer(): by id, or by name, then by host; the first rule that    *)
(* finds any must find one.                                                *)
ByRule(ref) ==
  CASE ref.by = "id" -> {r \in DOMAIN SavedRows : r = ref.what}
    [] ref.by = "text" -> LET named == {r \in DOMAIN SavedRows : SavedRows[r].name = ref.what}
                          IN  IF named # {} THEN named
                              ELSE {r \in DOMAIN SavedRows : SavedRows[r].host = ref.what}
    [] OTHER -> {}
ResolveServer(ref) == IF Cardinality(ByRule(ref)) = 1 THEN ByRule(ref) ELSE {}

(* resolveTarget(): the connection a call is for; {} refuses it.  A key that *)
(* is not connected, and a saved server whose own user is not, are refused. *)
ResolveTarget(ref) ==
  CASE ref = NoRef -> IF atLast \in atConn THEN {atLast}
                      ELSE IF Cardinality(atConn) = 1 THEN atConn ELSE {}
    [] ref.by = "key" -> {ref.what} \intersect atConn
    [] OTHER -> {KeyOf(r) : r \in ResolveServer(ref)} \intersect atConn

-----------------------------------------------------------------------------
NewCall == [tool |-> "none", key |-> NoKey, at |-> "none", stopped |-> FALSE, overwrite |-> FALSE,
            found |-> {}, todo |-> {}]

CallOver == [NewCall EXCEPT !.at = "ended"]
Ended(c) == atCall' = [atCall EXCEPT ![c] = CallOver]

(* haltIfStopped(): before every further command, and before the target or  *)
(* the window is told.                                                     *)
NeverHalts(c) == FALSE                  \* Fault: it is not asked
Halts(c) == atCall[c].stopped

(* A step that only calls that go on take.                                  *)
LateIf(c) == atLate' = IF atCall[c].stopped THEN atLate \union {c} ELSE atLate

CallGoes(c, at) ==
  IF Halts(c) THEN Ended(c) /\ UNCHANGED atLate
  ELSE /\ atCall' = [atCall EXCEPT ![c].at = at]
       /\ LateIf(c)

(* refuseIfBusy(): transfers and file operations of that connection.        *)
BusyKey(k) == \E c \in ToolCalls : atCall[c].key = k /\ atCall[c].at \in {"sending", "removing"}

FirstStage(tool) ==
  CASE tool = "disconnect" -> "closing" [] tool = "mkdir" -> "making" [] OTHER -> "looking"

CallBegins(c, tool, ref, overwrite) ==
  /\ atCall[c].at = "none" /\ \A b \in ToolCalls : b < c => atCall[b].at # "none"
  /\ \/ /\ tool = "connect" /\ ref # NoRef /\ ref.by # "key"
        /\ LET rows == ResolveServer(ref) IN
           atCall' = [atCall EXCEPT ![c] =
             IF rows = {} THEN CallOver
             ELSE LET k == KeyOf(CHOOSE r \in rows : TRUE) IN
                  [NewCall EXCEPT !.tool = tool, !.key = k,
                                  !.at = IF k \in atConn THEN "listing" ELSE "revealing"]]
        /\ UNCHANGED atLast
     \/ /\ tool # "connect"
        /\ LET target == ResolveTarget(ref)
               k == CHOOSE k \in target : TRUE
               refused == target = {} \/ (tool = "disconnect" /\ BusyKey(k)) IN
           /\ atCall' = [atCall EXCEPT ![c] =
                IF refused THEN CallOver
                ELSE [NewCall EXCEPT !.tool = tool, !.key = k, !.overwrite = overwrite,
                                     !.at = FirstStage(tool), !.todo = IF tool = "mkdir" THEN {"x", "y"} ELSE {}]]
           /\ atLast' = IF target # {} /\ ref # NoRef THEN k ELSE atLast
  /\ UNCHANGED <<atConn, atStates, atTree, atLate, atHarm, atOthers>>

(* The answer to what a call awaits is an error: of a connection that is    *)
(* gone always.  A folder that cannot be opened is tried once more, as `/'. *)
ToolFails(c) ==
  /\ atCall[c].at \notin {"none", "ended", "closing"}
  /\ IF atCall[c].at = "listing" THEN CallGoes(c, "root") ELSE Ended(c) /\ UNCHANGED atLate
  /\ UNCHANGED <<atConn, atStates, atLast, atTree, atHarm, atOthers>>

Answers(c, at) == atCall[c].at = at /\ (at \in {"revealing", "logging", "closing"} \/ atCall[c].key \in atConn)

(* connectSaved(): password, login, the folder; then the target and the     *)
(* window.  Only a key that is not connected at the start logs in.          *)
PasswordRevealed(c) ==
  /\ Answers(c, "revealing") /\ CallGoes(c, "logging")
  /\ UNCHANGED <<atConn, atStates, atLast, atTree, atHarm, atOthers>>

LoggedIn(c) ==
  /\ Answers(c, "logging") /\ CallGoes(c, "listing")
  /\ atConn' = atConn \union {atCall[c].key} /\ atStates' = atStates \union {atCall[c].key}
  /\ UNCHANGED <<atLast, atTree, atHarm, atOthers>>

FolderOpened(c) ==
  /\ Answers(c, "listing") \/ Answers(c, "root")
  /\ IF Halts(c) THEN Ended(c) /\ UNCHANGED <<atLast, atLate>>
     ELSE /\ Ended(c)
          /\ atLast' = atCall[c].key
          /\ LateIf(c)
  /\ UNCHANGED <<atConn, atStates, atTree, atHarm, atOthers>>

(* disconnect(): what is told follows the disconnect in one turn.           *)
Closed(c) ==
  /\ Answers(c, "closing")
  /\ Ended(c)
  /\ atConn' = atConn \ {atCall[c].key}
  /\ atLast' = IF atLast = atCall[c].key THEN NoKey ELSE atLast
  /\ UNCHANGED <<atStates, atTree, atLate, atHarm, atOthers>>

-----------------------------------------------------------------------------
HereOn(k) == {n \in OnServer : atTree[k][n] # "none"}
TreeSet(k, n, kind) == atTree' = [atTree EXCEPT ![k][n] = kind]

(* findRemote() for a rename, a delete and an upload: what there is now.    *)
(* rename goes on when `y' is not there, delete when all is, upload to `y'  *)
(* without the overwriting when it is there sends nothing.                  *)
Looked(c) ==
  /\ Answers(c, "looking")
  /\ LET found == HereOn(atCall[c].key)
         next == CASE atCall[c].tool = "rename" -> IF "y" \in found THEN "refused" ELSE "renaming"
                   [] atCall[c].tool = "delete" -> IF found # OnServer THEN "refused" ELSE "removing"
                   [] OTHER -> IF "y" \in found /\ (~atCall[c].overwrite \/ atTree[atCall[c].key]["y"] = "dir")
                               THEN "skipped" ELSE "sending" IN
     IF Halts(c) THEN Ended(c) /\ UNCHANGED atLate
     ELSE IF next \in {"refused", "skipped"}
     THEN Ended(c) /\ UNCHANGED atLate
     ELSE /\ atCall' = [atCall EXCEPT ![c].at = next, ![c].found = found,
                                      ![c].todo = IF next = "removing" THEN OnServer ELSE {}]
          /\ LateIf(c)
  /\ UNCHANGED <<atConn, atStates, atLast, atTree, atHarm, atOthers>>

(* What is at `y' when it is replaced, and was seen there before, is harm.  *)
Replaced(c) == atHarm' = IF "y" \in atCall[c].found /\ ~atCall[c].overwrite THEN atHarm \union {c} ELSE atHarm

Renamed(c) ==
  /\ Answers(c, "renaming") /\ Ended(c) /\ Replaced(c)
  /\ atTree[atCall[c].key]["x"] # "none" /\ atTree[atCall[c].key]["y"] # "dir"
  /\ atTree' = [atTree EXCEPT ![atCall[c].key] = [x |-> "none", y |-> @["x"]]]
  /\ UNCHANGED <<atConn, atStates, atLast, atLate, atOthers>>

(* The queue sends the file; the call had its answer when it was queued.    *)
Sent(c) ==
  /\ Answers(c, "sending") /\ atTree[atCall[c].key]["y"] # "dir" /\ Ended(c) /\ Replaced(c) /\ TreeSet(atCall[c].key, "y", "file")
  /\ UNCHANGED <<atConn, atStates, atLast, atLate, atOthers>>

(* startDelete(): one target after the other, until a cancel or a stop.     *)
Removed(c) ==
  /\ Answers(c, "removing")
  /\ \E n \in atCall[c].todo :
       /\ (n = "y" => "x" \notin atCall[c].todo)
       /\ TreeSet(atCall[c].key, n, "none")
       /\ LET left == atCall[c].todo \ {n} IN
          IF Halts(c) \/ left = {} THEN Ended(c) /\ UNCHANGED atLate
          ELSE /\ atCall' = [atCall EXCEPT ![c].todo = left]
               /\ LateIf(c)
  /\ UNCHANGED <<atConn, atStates, atLast, atHarm, atOthers>>

(* createDirectory(): a command for each level, whose refusals are not      *)
(* seen, then a look at what is there.                                     *)
LevelMade(c) ==
  /\ Answers(c, "making") /\ atCall[c].todo # {}
  /\ LET n == IF "x" \in atCall[c].todo THEN "x" ELSE "y"
         left == atCall[c].todo \ {n} IN
     /\ \/ atTree[atCall[c].key][n] = "none" /\ TreeSet(atCall[c].key, n, "dir")
        \/ UNCHANGED atTree
     /\ IF Halts(c) THEN Ended(c) /\ UNCHANGED atLate
        ELSE /\ atCall' = [atCall EXCEPT ![c].todo = left, ![c].at = IF left = {} THEN "checking" ELSE "making"]
             /\ LateIf(c)
  /\ UNCHANGED <<atConn, atStates, atLast, atHarm, atOthers>>

Checked(c) ==
  /\ Answers(c, "checking")
  /\ Ended(c)
  /\ UNCHANGED <<atConn, atStates, atLast, atTree, atLate, atHarm, atOthers>>

-----------------------------------------------------------------------------
(* The user stops a call: it is answered at once (the race in               *)
(* createMcpToolServer), what it awaits goes on.                           *)
CallStopped(c) ==
  /\ atCall[c].at \notin {"none", "ended"} /\ ~atCall[c].stopped
  /\ atCall' = [atCall EXCEPT ![c].stopped = TRUE]
  /\ UNCHANGED <<atConn, atStates, atLast, atTree, atLate, atHarm, atOthers>>

Others ==
  /\ atOthers < MaxOthers /\ atOthers' = atOthers + 1
  /\ \/ \E k \in ConnKeys : /\ \/ atConn' = atConn \union {k} /\ atStates' = atStates \union {k}
                               \/ atConn' = atConn \ {k} /\ UNCHANGED atStates
                            /\ UNCHANGED <<atTree, atCall>>
     \/ \E k \in {atCall[c].key : c \in ToolCalls} \ {NoKey}, n \in OnServer, kind \in {"none", "file"} :
          /\ TreeSet(k, n, kind)
          /\ atCall' = [c \in ToolCalls |-> IF atCall[c].key = k THEN [atCall[c] EXCEPT !.found = @ \ {n}]
                                            ELSE atCall[c]]
          /\ UNCHANGED <<atConn, atStates>>
  /\ UNCHANGED <<atLast, atLate, atHarm>>

ToolsInit ==
  /\ atConn \in SUBSET {<<"h", 2>>, <<"g", 1>>} /\ atStates = atConn /\ atLast = NoKey
  /\ atTree = [k \in ConnKeys |-> [x |-> "file", y |-> "none"]]
  /\ atCall = [c \in ToolCalls |-> NewCall]
  /\ atLate = {} /\ atHarm = {} /\ atOthers = 0

ToolsProgress ==
  \E c \in ToolCalls : \/ ToolFails(c) \/ PasswordRevealed(c) \/ LoggedIn(c) \/ FolderOpened(c) \/ Closed(c)
                       \/ Looked(c) \/ Renamed(c) \/ Sent(c) \/ Removed(c) \/ LevelMade(c) \/ Checked(c)

ToolsNext ==
  \/ ToolsProgress \/ Others
  \/ \E c \in ToolCalls : CallStopped(c)
  \/ \E c \in ToolCalls, tool \in {"connect", "disconnect", "rename", "delete", "upload", "mkdir"},
        ref \in References, overwrite \in BOOLEAN :
       (overwrite => tool = "upload") /\ CallBegins(c, tool, ref, overwrite)

ToolsSpec == ToolsInit /\ [][ToolsNext]_toolVars

-----------------------------------------------------------------------------
ToolsTypeOK ==
  /\ atConn \subseteq atStates /\ atStates \subseteq ConnKeys /\ atLast \in atStates \union {NoKey}
  /\ \A c \in ToolCalls : atCall[c].key \in atStates \union {NoKey} \/ atCall[c].tool = "connect"

(* A call that was stopped begins no further command, and does not move the *)
(* window to its server, nor the later calls.                              *)
HaltObeyed == atLate = {}

(* What a call saw there, and was not allowed to replace, it replaces never. *)
SeenIsKept == atHarm = {}

ToolsSafe == ToolsTypeOK /\ HaltObeyed /\ SeenIsKept
=============================================================================
