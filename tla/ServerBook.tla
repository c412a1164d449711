----------------------------- MODULE ServerBook -----------------------------
(***************************************************************************)
(* The saved servers, and the one in the toolbar: useServerStore.ts with    *)
(* the rules of serverAddress.ts, the toolbar (ConnectBar.tsx), its list    *)
(* (SavedServersPopover.tsx), the manager (ServerManagerDialog.tsx with     *)
(* ServerForm.tsx), and what the main process does with a save, a delete    *)
(* and a login (servers.ts, ftp:connect in ftpHandlers.ts).                 *)
(*                                                                         *)
(* A host with its port is a number; user 0 is none, 2 is `anonymous', and  *)
(* every other number a name.  A typed password is 1 + the id of the server *)
(* the field showed when it was typed (1 for a server not saved).           *)
(***************************************************************************)
EXTENDS Naturals, Sequences, FiniteSets, SequencesExt, FiniteSetsExt

CONSTANTS BookPlaces,     \* host:port
          BookUsers,
          MaxBookSteps,   \* bound: what the user does
          MaxBookRows     \* bound: rows ever made

ASSUME BookAssumption == /\ BookPlaces \subseteq Nat \ {0} /\ {0, 1, 2} \subseteq BookUsers
                         /\ BookUsers \subseteq Nat /\ 2 \in BookPlaces
                         /\ MaxBookSteps \in Nat /\ MaxBookRows \in Nat \ {0, 1}

VARIABLES
  bkRows,     \* the table: [there, addr, user, has, owner], owner the address its password is for (auxiliary)
  bkServers,  \* the store's list: those rows as last read
  bkDraft,    \* the toolbar's server: [id, addr, user, typed, saved], id 0 not saved
  bkText,     \* its address box: [addr, user, secret], user NoUser when left out
  bkAttempt,  \* connectAttempt
  bkOn,       \* connecting
  bkForm,     \* the manager: [open, n, sel, draft], the n-th opened, sel 0 for a new server
  bkCalls,    \* connects, saves and deletes: [kind, at, n, form, d, sent, ok]
  bkLent,     \* auxiliary: saved passwords logged in with, [for, at]
  bkSteps     \* user steps so far (bound)

bookVars == <<bkRows, bkServers, bkDraft, bkText, bkAttempt, bkOn, bkForm, bkCalls, bkLent, bkSteps>>

RowIds == 1..MaxBookRows
NoUser == 99
Anonymous == 2
LoginUser(u) == IF u = Anonymous THEN 0 ELSE u
NoRow == [there |-> FALSE, addr |-> 0, user |-> 0, has |-> FALSE, owner |-> 0]

ToDraft(rows, id) == [id |-> id, addr |-> rows[id].addr, user |-> rows[id].user, typed |-> 0,
                      saved |-> rows[id].has]
EmptyDraft == [id |-> 0, addr |-> 0, user |-> 0, typed |-> 0, saved |-> FALSE]
AddressOf(d) == [addr |-> d.addr, user |-> IF LoginUser(d.user) = 0 THEN NoUser ELSE d.user,
                 secret |-> FALSE]

(* findSaved(), and savedRow of a draft.                                    *)
SavedAt(rows, a) == {id \in RowIds : rows[id].there /\ rows[id].addr = a}
Known(d) == d.id # 0 /\ bkServers[d.id].there

(* canConnectSaved(): without a password only an anonymous login.           *)
CanConnect(id) == bkServers[id].has \/ LoginUser(bkServers[id].user) = 0

(* sameFields(), movesSavedPassword().                                      *)
Unchanged(d, id) == d = ToDraft(bkServers, id)
MovesPassword(d) == Known(d) /\ d.saved /\ d.typed = 0 /\ d.addr # bkServers[d.id].addr

UserStep == bkSteps < MaxBookSteps /\ bkSteps' = bkSteps + 1
Put(i, at) == bkCalls' = [bkCalls EXCEPT ![i].at = at]
Call(kind, at, form, d) ==
  [kind |-> kind, at |-> at, n |-> 0, form |-> form, d |-> d, sent |-> 0, ok |-> FALSE]
FormOf(i) == bkForm.open /\ bkForm.n = bkCalls[i].form      \* the form that made the call

-----------------------------------------------------------------------------
(* The toolbar.                                                            *)

(* select(): ignored during a connect.                                     *)
TakesServer(id) ==
  IF bkOn THEN UNCHANGED <<bkDraft, bkText>>
  ELSE bkDraft' = ToDraft(bkServers, id) /\ bkText' = AddressOf(ToDraft(bkServers, id))

(* setAddress(): what was typed becomes the saved server of that address,   *)
(* or a new one that takes neither the account nor the password along.      *)
BaseFor(m) == IF m # 0 THEN IF m = bkDraft.id THEN bkDraft ELSE ToDraft(bkServers, m)
              ELSE IF bkDraft.id # 0 THEN EmptyDraft ELSE bkDraft

Addressed(a, u, secret) ==
  LET found == SavedAt(bkServers, a)
      m == IF found = {} THEN 0 ELSE CHOOSE id \in found : TRUE
      base == BaseFor(m)
      user == IF u # NoUser THEN u ELSE IF m # 0 THEN bkServers[m].user ELSE 0
      same == user = base.user
  IN [id |-> base.id, addr |-> a, user |-> user,
      typed |-> IF secret THEN 1 + base.id ELSE IF same THEN base.typed ELSE 0,
      saved |-> /\ ~secret
                /\ IF same THEN base.saved
                   ELSE m # 0 /\ user = bkServers[m].user /\ bkServers[m].has]

SetAddress(a, u, secret) ==
  /\ ~bkOn /\ ~bkForm.open /\ UserStep
  /\ secret => u # NoUser
  /\ bkDraft' = Addressed(a, u, secret)
  /\ bkText' = [addr |-> a, user |-> u, secret |-> FALSE]
  /\ UNCHANGED <<bkRows, bkServers, bkAttempt, bkOn, bkForm, bkCalls, bkLent>>

(* The password field is there for a user name only, and off while connecting. *)
TypePassword ==
  /\ ~bkOn /\ ~bkForm.open /\ LoginUser(bkDraft.user) # 0 /\ UserStep
  /\ \E typed \in {0, 1 + bkDraft.id} : bkDraft' = [bkDraft EXCEPT !.typed = typed]
  /\ UNCHANGED <<bkRows, bkServers, bkText, bkAttempt, bkOn, bkForm, bkCalls, bkLent>>

(* connect() up to its first wait; calls is what bkCalls is without it.     *)
Begins(d, form, calls) ==
  IF bkOn THEN bkCalls' = calls /\ UNCHANGED <<bkDraft, bkText, bkAttempt, bkOn>>
  ELSE /\ bkAttempt' = bkAttempt + 1 /\ bkOn' = TRUE
       /\ bkDraft' = d /\ bkText' = IF d = bkDraft THEN bkText ELSE AddressOf(d)
       /\ bkCalls' = Append(calls, [Call("connect", "path", form, d) EXCEPT !.n = bkAttempt + 1])

ConnectToolbar ==
  /\ ~bkOn /\ ~bkForm.open /\ bkDraft.addr # 0 /\ UserStep
  /\ Begins(bkDraft, 0, bkCalls)
  /\ UNCHANGED <<bkRows, bkServers, bkForm, bkLent>>

(* A click in the list, and connectSaved() of a double click there, in the  *)
(* sidebar, or in the manager.                                             *)
PickServer(id) ==
  /\ bkServers[id].there /\ ~bkForm.open /\ UserStep
  /\ TakesServer(id)
  /\ UNCHANGED <<bkRows, bkServers, bkAttempt, bkOn, bkForm, bkCalls, bkLent>>

ConnectSaved(id) ==
  /\ bkServers[id].there /\ UserStep
  /\ IF bkOn THEN UNCHANGED <<bkDraft, bkText, bkAttempt, bkOn, bkCalls>>
     ELSE IF CanConnect(id)
     THEN /\ bkAttempt' = bkAttempt + 1 /\ bkOn' = TRUE
          /\ bkDraft' = ToDraft(bkServers, id) /\ bkText' = AddressOf(bkDraft')
          /\ bkCalls' = Append(bkCalls, [Call("connect", "path", IF bkForm.open THEN bkForm.n ELSE 0, bkDraft')
                                       EXCEPT !.n = bkAttempt'])
     ELSE TakesServer(id) /\ UNCHANGED <<bkAttempt, bkOn, bkCalls>>
  /\ bkForm' = IF bkForm.open /\ ~bkOn
               THEN [bkForm EXCEPT !.sel = id, !.draft = ToDraft(bkServers, id)] ELSE bkForm
  /\ UNCHANGED <<bkRows, bkServers, bkLent>>

(* cancel() disconnects the attempt's own connection: its login fails.      *)
Cancel ==
  /\ bkOn /\ UserStep
  /\ bkAttempt' = bkAttempt + 1 /\ bkOn' = FALSE
  /\ UNCHANGED <<bkRows, bkServers, bkDraft, bkText, bkForm, bkCalls, bkLent>>

-----------------------------------------------------------------------------
(* connect() after its waits.                                              *)

StillWanted(i) == bkCalls[i].n = bkAttempt

UsesSaved(d) == d.typed = 0 /\ d.saved

(* The account a draft logs in to is that of its saved row.                 *)
SameAccount(d) == Known(d) /\ bkServers[d.id].user = d.user

(* ftp:connect refuses a saved password anywhere but at its server.         *)
IsSavedLogin(d, sent) ==
  /\ sent \in {0, d.id}
  /\ bkRows[d.id].there /\ bkRows[d.id].addr = d.addr
  /\ LoginUser(bkRows[d.id].user) = LoginUser(d.user)

PathCame(i) ==
  LET d == bkCalls[i].d
      sent == IF SameAccount(d) THEN d.id ELSE 0
  IN
  /\ bkCalls[i].kind = "connect" /\ bkCalls[i].at = "path"
  /\ IF ~StillWanted(i) THEN Put(i, "over") /\ UNCHANGED bkLent
     ELSE IF UsesSaved(d) /\ ~IsSavedLogin(d, sent) THEN Put(i, "told") /\ UNCHANGED bkLent
     ELSE /\ bkCalls' = [bkCalls EXCEPT ![i].at = "login", ![i].sent = sent]
          /\ bkLent' = IF UsesSaved(d) /\ bkRows[d.id].has
                       THEN bkLent \union {[for |-> bkRows[d.id].owner, at |-> d.addr]} ELSE bkLent
  /\ UNCHANGED <<bkRows, bkServers, bkDraft, bkText, bkAttempt, bkOn, bkForm, bkSteps>>

(* recordConnection(): a login with the row's own id at its address writes  *)
(* it, any other touches the row of that address, or makes one.  Beyond the *)
(* bound on rows a write fails, which a login survives.                     *)
FreeId == {id \in RowIds : \A j \in id..MaxBookRows : bkRows[j] = NoRow}
Recorded(d, sent) ==
  LET user == LoginUser(d.user)
      has(old) == IF UsesSaved(d) /\ sent # 0 THEN old.has ELSE (d.typed # 0 /\ user # 0)
      row(old) == [there |-> TRUE, addr |-> d.addr, user |-> user, has |-> has(old),
                   owner |-> IF has(old) /\ d.typed = 0 THEN old.owner ELSE d.addr]
  IN IF sent # 0 /\ bkRows[sent].there /\ bkRows[sent].addr = d.addr
     THEN bkRows' = [bkRows EXCEPT ![sent] = row(@)]
     ELSE IF SavedAt(bkRows, d.addr) # {} \/ FreeId = {} THEN UNCHANGED bkRows
     ELSE \E id \in {Min(FreeId)} : bkRows' = [bkRows EXCEPT ![id] = row(NoRow)]

LoginDone(i, ok) ==
  /\ bkCalls[i].at = "login"
  /\ ok => StillWanted(i)
  /\ bkCalls' = [bkCalls EXCEPT ![i].at = "told", ![i].ok = ok]
  /\ IF ok THEN Recorded(bkCalls[i].d, bkCalls[i].sent) ELSE UNCHANGED bkRows
  /\ UNCHANGED <<bkServers, bkDraft, bkText, bkAttempt, bkOn, bkForm, bkLent, bkSteps>>

ConnectTold(i) ==
  /\ bkCalls[i].at = "told"
  /\ IF StillWanted(i) THEN bkOn' = FALSE ELSE UNCHANGED bkOn
  /\ Put(i, IF StillWanted(i) /\ bkCalls[i].ok THEN "list" ELSE "over")
  /\ UNCHANGED <<bkRows, bkServers, bkDraft, bkText, bkAttempt, bkForm, bkLent, bkSteps>>

(* The list is read again, and the toolbar shows the saved server, unless   *)
(* another attempt began or the login was with an account of its own.       *)
ConnectListed(i) ==
  LET d == bkCalls[i].d
      found == SavedAt(bkRows, d.addr)
  IN
  /\ bkCalls[i].kind = "connect" /\ bkCalls[i].at = "list"
  /\ bkServers' = bkRows
  /\ Put(i, "over")
  /\ IF StillWanted(i) /\ found # {} /\ (d.id # 0 => bkCalls[i].sent # 0)
     THEN \E id \in found : /\ bkDraft' = ToDraft(bkRows, id)
                            /\ bkText' = AddressOf(ToDraft(bkRows, id))
     ELSE UNCHANGED <<bkDraft, bkText>>
  /\ bkForm' = IF bkCalls[i].form # 0 THEN [bkForm EXCEPT !.open = FALSE] ELSE bkForm
  /\ UNCHANGED <<bkRows, bkAttempt, bkOn, bkLent, bkSteps>>

-----------------------------------------------------------------------------
(* The manager.                                                            *)
ManagerOpens ==
  /\ ~bkForm.open /\ UserStep
  /\ \E d \in {bkDraft, EmptyDraft} \union {ToDraft(bkServers, id) : id \in {i \in RowIds : bkServers[i].there}} :
       bkForm' = [open |-> TRUE, n |-> bkForm.n + 1, sel |-> d.id, draft |-> d]
  /\ UNCHANGED <<bkRows, bkServers, bkDraft, bkText, bkAttempt, bkOn, bkCalls, bkLent>>

ManagerCloses ==
  /\ bkForm.open /\ ~bkOn /\ UserStep
  /\ bkForm' = [bkForm EXCEPT !.open = FALSE]
  /\ UNCHANGED <<bkRows, bkServers, bkDraft, bkText, bkAttempt, bkOn, bkCalls, bkLent>>

ManagerSelects ==
  /\ bkForm.open /\ ~bkOn /\ UserStep
  /\ \E id \in {0} \union {i \in RowIds : bkServers[i].there} :
       bkForm' = [bkForm EXCEPT !.sel = id,
                                !.draft = IF id = 0 THEN EmptyDraft ELSE ToDraft(bkServers, id)]
  /\ UNCHANGED <<bkRows, bkServers, bkDraft, bkText, bkAttempt, bkOn, bkCalls, bkLent>>

(* The form: host and account, a password, or anonymous.                    *)
Edits(d) ==
  {[d EXCEPT !.addr = a] : a \in BookPlaces}
    \union {[d EXCEPT !.addr = a, !.user = u, !.typed = 1 + d.id] : a \in BookPlaces, u \in BookUsers \ {0}}
    \union {[d EXCEPT !.typed = 1 + d.id], [d EXCEPT !.user = 0, !.typed = 0, !.saved = FALSE]}
    \union {[d EXCEPT !.user = u] : u \in BookUsers}

FormEdited ==
  /\ bkForm.open /\ ~bkOn /\ UserStep
  /\ \E d \in Edits(bkForm.draft) : bkForm' = [bkForm EXCEPT !.draft = d]
  /\ UNCHANGED <<bkRows, bkServers, bkDraft, bkText, bkAttempt, bkOn, bkCalls, bkLent>>

(* handleSave(), and handleConnect(): what was changed is saved first, by   *)
(* its id; a new server must not be another's address.                      *)
FormPicked == bkForm.sel # 0 /\ bkServers[bkForm.sel].there

FormSaved ==
  /\ bkForm.open /\ ~bkOn /\ bkForm.draft.addr # 0 /\ UserStep
  /\ ~MovesPassword(bkForm.draft) /\ ~(FormPicked /\ Unchanged(bkForm.draft, bkForm.sel))
  /\ bkCalls' = Append(bkCalls, Call("save", "main", bkForm.n, bkForm.draft))
  /\ UNCHANGED <<bkRows, bkServers, bkDraft, bkText, bkAttempt, bkOn, bkForm, bkLent>>

FormConnects ==
  LET d == bkForm.draft IN
  /\ bkForm.open /\ ~bkOn /\ d.addr # 0 /\ UserStep
  /\ IF FormPicked /\ ~Unchanged(d, bkForm.sel)
     THEN /\ ~MovesPassword(d)
          /\ bkCalls' = Append(bkCalls, [Call("save", "main", bkForm.n, d) EXCEPT !.ok = TRUE])
          /\ UNCHANGED <<bkDraft, bkText, bkAttempt, bkOn>>
     ELSE /\ FormPicked \/ SavedAt(bkServers, d.addr) = {}
          /\ Begins(d, bkForm.n, bkCalls)
  /\ UNCHANGED <<bkRows, bkServers, bkForm, bkLent>>

(* saveServer() in the main process: never onto another row's address, and  *)
(* a password that is kept never goes to another.*)
NoClash(d) == SavedAt(bkRows, d.addr) \subseteq {d.id}
Keeps(d) == d.typed = 0 /\ d.saved /\ d.id # 0
MayWrite(d) ==
  /\ IF d.id # 0 THEN bkRows[d.id].there ELSE FreeId # {}
  /\ IF d.id # 0 /\ bkRows[d.id].addr = d.addr THEN TRUE
     ELSE NoClash(d) /\ ~(d.id # 0 /\ bkRows[d.id].has /\ Keeps(d))

SaveWrites(i) ==
  LET d == bkCalls[i].d
      id == IF d.id # 0 THEN d.id ELSE Min(FreeId)
  IN
  /\ bkCalls[i].kind = "save" /\ bkCalls[i].at = "main"
  /\ IF ~MayWrite(d) THEN Put(i, "over") /\ UNCHANGED bkRows
     ELSE /\ bkRows' = [bkRows EXCEPT ![id] =
                         [there |-> TRUE, addr |-> d.addr, user |-> d.user,
                          has |-> IF Keeps(d) THEN @.has ELSE d.typed # 0,
                          owner |-> IF Keeps(d) THEN @.owner ELSE d.addr]]
          /\ bkCalls' = [bkCalls EXCEPT ![i].at = "list",
                                        ![i].d = ToDraft(bkRows', id)]
  /\ UNCHANGED <<bkServers, bkDraft, bkText, bkAttempt, bkOn, bkForm, bkLent, bkSteps>>

(* The rest of save(), then of who called it: the form shows the server, or *)
(* it is connected.                                                         *)
SaveListed(i) ==
  LET d == bkCalls[i].d
      same == bkDraft.id = d.id \/ (bkDraft.id = 0 /\ bkDraft.addr = d.addr)
      rest == [bkCalls EXCEPT ![i].at = "over"]
  IN
  /\ bkCalls[i].kind = "save" /\ bkCalls[i].at = "list"
  /\ bkServers' = bkRows
  /\ bkForm' = IF ~FormOf(i) THEN bkForm
               ELSE [bkForm EXCEPT !.draft = d, !.sel = IF bkCalls[i].ok THEN @ ELSE d.id]
  /\ IF bkCalls[i].ok THEN Begins(d, bkCalls[i].form, rest)
     ELSE /\ bkCalls' = rest
          /\ IF same /\ ~bkOn THEN bkDraft' = d /\ bkText' = AddressOf(d)
             ELSE UNCHANGED <<bkDraft, bkText>>
          /\ UNCHANGED <<bkAttempt, bkOn>>
  /\ UNCHANGED <<bkRows, bkLent, bkSteps>>

(* remove(), confirmed: from the list, or from the manager.                 *)
RemoveServer(id) ==
  /\ bkServers[id].there /\ (bkForm.open => bkForm.sel = id /\ ~bkOn) /\ UserStep
  /\ bkCalls' = Append(bkCalls, Call("remove", "main", IF bkForm.open THEN bkForm.n ELSE 0, ToDraft(bkServers, id)))
  /\ UNCHANGED <<bkRows, bkServers, bkDraft, bkText, bkAttempt, bkOn, bkForm, bkLent>>

RowDeleted(i) ==
  /\ bkCalls[i].kind = "remove" /\ bkCalls[i].at = "main"
  /\ bkRows' = [bkRows EXCEPT ![bkCalls[i].d.id].there = FALSE, ![bkCalls[i].d.id].has = FALSE]
  /\ Put(i, "list")
  /\ UNCHANGED <<bkServers, bkDraft, bkText, bkAttempt, bkOn, bkForm, bkLent, bkSteps>>

RemoveTold(i) ==
  LET gone == bkCalls[i].d.id
      left == {j \in RowIds \ {gone} : bkServers[j].there}
  IN
  /\ bkCalls[i].kind = "remove" /\ bkCalls[i].at = "list"
  /\ bkServers' = [bkServers EXCEPT ![gone].there = FALSE]
  /\ bkDraft' = IF bkDraft.id = gone THEN [bkDraft EXCEPT !.id = 0, !.saved = FALSE] ELSE bkDraft
  /\ IF FormOf(i)
     THEN \E id \in IF left = {} THEN {0} ELSE left :
            bkForm' = [bkForm EXCEPT !.sel = id, !.draft = IF id = 0 THEN EmptyDraft
                                                           ELSE ToDraft(bkServers, id)]
     ELSE UNCHANGED bkForm
  /\ Put(i, "over")
  /\ UNCHANGED <<bkRows, bkText, bkAttempt, bkOn, bkLent, bkSteps>>

-----------------------------------------------------------------------------
BookInit ==
  /\ \E two \in BOOLEAN :
       bkRows = [id \in RowIds |->
                  CASE id = 1 -> [there |-> TRUE, addr |-> 1, user |-> 1, has |-> TRUE, owner |-> 1]
                    [] id = 2 /\ two -> [there |-> TRUE, addr |-> 2, user |-> 1, has |-> FALSE, owner |-> 2]
                    [] OTHER -> NoRow]
  /\ bkServers = bkRows
  /\ bkDraft = ToDraft(bkRows, 1) /\ bkText = AddressOf(bkDraft)
  /\ bkAttempt = 0 /\ bkOn = FALSE
  /\ bkForm = [open |-> FALSE, n |-> 0, sel |-> 0, draft |-> EmptyDraft]
  /\ bkCalls = <<>> /\ bkLent = {} /\ bkSteps = 0

BookProgress ==
  \E i \in DOMAIN bkCalls :
    \/ PathCame(i) \/ LoginDone(i, TRUE) \/ LoginDone(i, FALSE) \/ ConnectTold(i) \/ ConnectListed(i)
    \/ SaveWrites(i) \/ SaveListed(i) \/ RowDeleted(i) \/ RemoveTold(i)

BookNext ==
  \/ BookProgress
  \/ \E a \in BookPlaces, u \in (BookUsers \ {0}) \union {NoUser}, secret \in BOOLEAN : SetAddress(a, u, secret)
  \/ TypePassword \/ ConnectToolbar \/ Cancel
  \/ \E id \in RowIds : PickServer(id) \/ ConnectSaved(id) \/ RemoveServer(id)
  \/ ManagerOpens \/ ManagerCloses \/ ManagerSelects \/ FormEdited \/ FormSaved \/ FormConnects

BookSpec == BookInit /\ [][BookNext]_bookVars /\ WF_bookVars(BookProgress)

-----------------------------------------------------------------------------
Drafts == {bkDraft, bkForm.draft}

BookTypeOK ==
  /\ \A id \in RowIds : bkRows[id].addr \in BookPlaces \union {0} /\ bkRows[id].user \in BookUsers
  /\ \A d \in Drafts : d.id \in RowIds \union {0} /\ d.typed \in 0..(1 + MaxBookRows)
  /\ bkOn \in BOOLEAN /\ bkAttempt \in Nat

(* The toolbar says that it connects exactly while its last attempt runs:   *)
(* not for an abandoned one's sake, and never for ever.                     *)
RunsWhatShows ==
  bkOn <=> \E i \in DOMAIN bkCalls : /\ bkCalls[i].kind = "connect" /\ StillWanted(i)
                                     /\ bkCalls[i].at \in {"path", "login", "told"}

(* The address that stands in the toolbar is the one Connect goes to.       *)
TextIsDraft == bkText.addr = bkDraft.addr /\ ~bkText.secret

(* A password typed for one server does not become that of another.         *)
TypedStays ==
  /\ bkDraft.typed \notin {0, 1 + bkDraft.id} => bkDraft.id = 0 /\ ~bkRows[bkDraft.typed - 1].there
  /\ \A id \in RowIds : bkRows[id].there => (bkRows[id].has => bkRows[id].owner = bkRows[id].addr)

(* A saved password is logged in with only where it was saved for (E15),    *)
(* though the row may be saved, moved or removed while a connect is on its  *)
(* way.                                                                     *)
LentHome == \A l \in bkLent : l.for = l.at

(* No two rows have one address.                                            *)
RowsApart == \A i, j \in RowIds : (bkRows[i].there /\ bkRows[j].there /\ i # j) => bkRows[i].addr # bkRows[j].addr

BookSafe == BookTypeOK /\ RunsWhatShows /\ TextIsDraft /\ TypedStays /\ LentHome /\ RowsApart

BookAtRest == ~bkOn /\ \A i \in DOMAIN bkCalls : bkCalls[i].at = "over"

(* Seen in the code, and so not among the above.                            *)
WindowNeverAsks == \A i \in DOMAIN bkCalls :
  (bkCalls[i].kind = "connect" /\ bkCalls[i].at = "path" /\ StillWanted(i) /\ UsesSaved(bkCalls[i].d))
    => IsSavedLogin(bkCalls[i].d, 0)
DraftKnown == bkDraft.id # 0 => bkRows[bkDraft.id].there \/ \E i \in DOMAIN bkCalls :
                                    bkCalls[i].kind = "remove" /\ bkCalls[i].at = "list"
FormIsSelected == bkForm.open => bkForm.draft.id = bkForm.sel
=============================================================================
