---------------------------- MODULE PasswordVault ----------------------------
(***************************************************************************)
(* The saved passwords of servers: rows of src/main/db/servers.ts, which    *)
(* are read and written at once, and the encryption around them, which is   *)
(* asynchronous (src/main/db/passwordVault.ts).  The migration of old plain *)
(* passwords, the encryption anew that a decryption may ask for, saves of   *)
(* the user and the records of logins with a typed password (ftp:connect in *)
(* src/main/ipc/ftpHandlers.ts) all read, wait, and write.                  *)
(*                                                                         *)
(* A password is a number; sealed with number n it is <<password, n>>.      *)
(***************************************************************************)
EXTENDS Integers, Sequences, FiniteSets, SequencesExt, Filtering

CONSTANTS
  Rows,
  Addresses,         \* host:port
  MaxWrites,         \* bound: saves and logins
  MaxReveals         \* bound: uses of a saved password

ASSUME VaultAssumption == /\ Rows \subseteq Nat \ {0} /\ IsFiniteSet(Rows)
                          /\ Addresses \subseteq Nat \ {0} /\ Addresses # {}
                          /\ {MaxWrites, MaxReveals} \subseteq Nat

VARIABLES
  vaCanEncrypt,  \* isAsyncEncryptionAvailable()
  vaRow,         \* [there, addr, plain, sealed] of each server; 0 and NoSeal: null
  vaMeant,       \* auxiliary: [secret, addr] the user last had written to the row
  vaMigrate,     \* migrate(): [at, todo: the rows as read, failed]
  vaScrubbed,    \* passwordsScrubbed
  vaWrites,      \* saves and logins so far: [kind, row, addr, at]; the password of the i-th is i
  vaReveals,     \* calls of reveal(): [row, read, result, at]
  vaSeals        \* encryptions so far

vaultVars == <<vaCanEncrypt, vaRow, vaMeant, vaMigrate, vaScrubbed, vaWrites, vaReveals, vaSeals>>

NoSeal == <<0, 0>>
Legacy(r) == 10 + r                    \* what was saved before this run
PasswordOf(w) == IF w.sealed # NoSeal THEN w.sealed[1] ELSE w.plain
HasPassword(w) == PasswordOf(w) # 0

(* writePassword(): both columns together.                                 *)
Written(w, secret) ==
  [w EXCEPT !.plain = IF vaCanEncrypt THEN 0 ELSE secret,
            !.sealed = IF vaCanEncrypt /\ secret # 0 THEN <<secret, vaSeals>> ELSE NoSeal]

-----------------------------------------------------------------------------
(* migrate(), begun when the app starts.                                   *)

PlainRows == Only(SetToSeq(Rows), {r \in Rows : /\ vaRow[r].there /\ vaRow[r].plain # 0
                                                /\ vaRow[r].sealed = NoSeal})

ListPlain ==
  /\ vaMigrate.at = "start"
  /\ vaMigrate' = [at |-> IF PlainRows # <<>> /\ ~vaCanEncrypt THEN "over" ELSE "rows", failed |-> FALSE,
                   todo |-> [i \in DOMAIN PlainRows |-> [row |-> PlainRows[i],
                                                         plain |-> vaRow[PlainRows[i]].plain]]]
  /\ UNCHANGED <<vaCanEncrypt, vaRow, vaMeant, vaScrubbed, vaWrites, vaReveals, vaSeals>>

(* replacePlainPassword(): only what was read is replaced.  Fault: the row  *)
(* is taken to be as it was read.                                          *)
AsListed(t) == vaRow[t.row].there
StillPlain(t) == /\ vaRow[t.row].there /\ vaRow[t.row].plain = t.plain
                 /\ vaRow[t.row].sealed = NoSeal

EncryptNext ==
  /\ vaMigrate.at = "rows" /\ vaMigrate.todo # <<>>
  /\ \E works \in BOOLEAN :
       LET t == Head(vaMigrate.todo) IN
       /\ vaMigrate' = [vaMigrate EXCEPT !.todo = Tail(@), !.failed = @ \/ ~works]
       /\ vaSeals' = vaSeals + 1
       /\ vaRow' = IF works /\ StillPlain(t)
                   THEN [vaRow EXCEPT ![t.row].plain = 0, ![t.row].sealed = <<t.plain, vaSeals>>]
                   ELSE vaRow
  /\ UNCHANGED <<vaCanEncrypt, vaMeant, vaScrubbed, vaWrites, vaReveals>>

(* The file is rewritten once nothing is plain any more.                   *)
Scrub ==
  /\ vaMigrate.at = "rows" /\ vaMigrate.todo = <<>>
  /\ vaMigrate' = [vaMigrate EXCEPT !.at = "over"]
  /\ vaScrubbed' = (vaScrubbed \/ (~vaMigrate.failed /\ vaCanEncrypt))
  /\ UNCHANGED <<vaCanEncrypt, vaRow, vaMeant, vaWrites, vaReveals, vaSeals>>

-----------------------------------------------------------------------------
(* The user saves a server with a new password, or logs in with one typed;  *)
(* toWrite() encrypts first.                                               *)
BeginWrite(kind, r, a) ==
  /\ vaRow[r].there /\ (kind = "login" => vaRow[r].addr = a)
  /\ Len(vaWrites) < MaxWrites
  /\ vaWrites' = Append(vaWrites, [kind |-> kind, row |-> r, addr |-> a, at |-> "encrypt"])
  /\ UNCHANGED <<vaCanEncrypt, vaRow, vaMeant, vaMigrate, vaScrubbed, vaReveals, vaSeals>>

(* isSavedAddress() of a login, when its password is about to be written.   *)
StillAt(w) == vaRow[w.row].addr = w.addr

(* What the UPDATE of saveServer() leaves to be written with the password.  *)
Readdressed(w) ==
  IF w.kind = "save" THEN [vaRow[w.row] EXCEPT !.addr = w.addr] ELSE vaRow[w.row]

Taken(w, i) ==
  /\ vaRow' = [vaRow EXCEPT ![w.row] = Written(Readdressed(w), i)]
  /\ vaMeant' = [vaMeant EXCEPT ![w.row] = [secret |-> i, addr |-> w.addr]]

EndWrite(i) ==
  LET w == vaWrites[i] IN
  /\ w.at = "encrypt"
  /\ vaWrites' = [vaWrites EXCEPT ![i].at = "ended"]
  /\ vaSeals' = vaSeals + 1
  /\ IF vaRow[w.row].there /\ (w.kind = "login" => StillAt(w))
     THEN Taken(w, i) ELSE UNCHANGED <<vaRow, vaMeant>>
  /\ UNCHANGED <<vaCanEncrypt, vaMigrate, vaScrubbed, vaReveals>>

(* saveServer() with the password left as it is (or removed): not to        *)
(* another address while there is one.                                     *)
MayMove(r, a, keep) == HasPassword(vaRow[r]) /\ keep => a = vaRow[r].addr

SaveOnly(r, a, keep) ==
  /\ vaRow[r].there /\ Len(vaWrites) < MaxWrites
  /\ MayMove(r, a, keep)
  /\ vaWrites' = Append(vaWrites, [kind |-> "only", row |-> r, addr |-> a, at |-> "ended"])
  /\ vaRow' = [vaRow EXCEPT ![r].addr = a, ![r].plain = IF keep THEN @ ELSE 0,
                            ![r].sealed = IF keep THEN @ ELSE NoSeal]
  /\ vaMeant' = IF keep THEN vaMeant ELSE [vaMeant EXCEPT ![r] = [secret |-> 0, addr |-> a]]
  /\ UNCHANGED <<vaCanEncrypt, vaMigrate, vaScrubbed, vaReveals, vaSeals>>

DeleteServer(r) ==
  /\ vaRow[r].there
  /\ vaRow' = [vaRow EXCEPT ![r] = [there |-> FALSE, addr |-> 0, plain |-> 0, sealed |-> NoSeal]]
  /\ vaMeant' = [vaMeant EXCEPT ![r] = [secret |-> 0, addr |-> 0]]
  /\ UNCHANGED <<vaCanEncrypt, vaMigrate, vaScrubbed, vaWrites, vaReveals, vaSeals>>

-----------------------------------------------------------------------------
(* reveal(): decrypts what it read, and if asked to encrypts it again.     *)
Reveal(r) ==
  /\ vaRow[r].there /\ Len(vaReveals) < MaxReveals
  /\ vaReveals' = Append(vaReveals, [row |-> r, read |-> vaRow[r].sealed, result |-> PasswordOf(vaRow[r]),
                                     at |-> IF vaRow[r].sealed = NoSeal THEN "ended" ELSE "decrypt"])
  /\ UNCHANGED <<vaCanEncrypt, vaRow, vaMeant, vaMigrate, vaScrubbed, vaWrites, vaSeals>>

(* replaceCipher(): only what was read.                                    *)
SameSeal(v) == vaRow[v.row].sealed = v.read

Revealed(i) ==
  /\ vaReveals[i].at = "decrypt"
  /\ vaReveals' = [vaReveals EXCEPT ![i].at = "ended"]
  /\ \/ UNCHANGED <<vaRow, vaSeals>>
     \/ /\ vaSeals' = vaSeals + 1
        /\ vaRow' = IF SameSeal(vaReveals[i])
                    THEN [vaRow EXCEPT ![vaReveals[i].row].sealed = <<vaReveals[i].result, vaSeals>>]
                    ELSE vaRow
  /\ UNCHANGED <<vaCanEncrypt, vaMeant, vaMigrate, vaScrubbed, vaWrites>>

OldRow(r, kind) ==
  [there |-> TRUE, addr |-> CHOOSE a \in Addresses : TRUE,
   plain |-> IF kind = "plain" THEN Legacy(r) ELSE 0,
   sealed |-> IF kind = "sealed" THEN <<Legacy(r), 0>> ELSE NoSeal]

VaultInit ==
  /\ vaCanEncrypt \in BOOLEAN
  /\ \E kinds \in [Rows -> {"none", "plain", "sealed"}] : vaRow = [r \in Rows |-> OldRow(r, kinds[r])]
  /\ vaMeant = [r \in Rows |-> [secret |-> PasswordOf(vaRow[r]), addr |-> vaRow[r].addr]]
  /\ vaMigrate = [at |-> "start", todo |-> <<>>, failed |-> FALSE]
  /\ vaScrubbed = FALSE /\ vaWrites = <<>> /\ vaReveals = <<>> /\ vaSeals = 1

VaultNext ==
  \/ ListPlain \/ EncryptNext \/ Scrub
  \/ \E r \in Rows, a \in Addresses :
       \/ \E kind \in {"save", "login"} : BeginWrite(kind, r, a)
       \/ \E keep \in BOOLEAN : SaveOnly(r, a, keep)
  \/ \E r \in Rows : DeleteServer(r) \/ Reveal(r)
  \/ \E i \in DOMAIN vaWrites : EndWrite(i)
  \/ \E i \in DOMAIN vaReveals : Revealed(i)

VaultSpec == VaultInit /\ [][VaultNext]_vaultVars

-----------------------------------------------------------------------------
(* The password of a row is the one the user last had written there, for    *)
(* the address it was written for; what runs in the background only seals   *)
(* it, and brings neither an older one nor a deleted one back (E4, E16).   *)
AsTheUserWrote ==
  \A r \in Rows : /\ PasswordOf(vaRow[r]) = vaMeant[r].secret
                  /\ HasPassword(vaRow[r]) => vaRow[r].addr = vaMeant[r].addr

(* A row has one form of its password (E1), and once the file was rewritten *)
(* none is plain (E14).                                                    *)
OneForm == \A r \in Rows : /\ vaRow[r].plain = 0 \/ vaRow[r].sealed = NoSeal
                           /\ vaScrubbed => vaRow[r].plain = 0

VaultSafe == AsTheUserWrote /\ OneForm
=============================================================================
