-------------------------- MODULE ConnectionRegistry --------------------------
(***************************************************************************)
(* The session of one connection key as the registry drives it             *)
(* (src/main/ftp/ConnectionRegistry.ts): the main connection of            *)
(* MainClient, with a login shared by everybody who asks for the same key  *)
(* while it is under way.  Sessions of other keys share nothing with it.   *)
(***************************************************************************)
EXTENDS MainClient

CONSTANT NoLogin

ASSUME RegistryAssumption == NoLogin \notin Dials

VARIABLE login   \* the entry of logins for the key

registryVars == <<client, open, watched, connected, config, status, dial, dialClient,
                  chain, orphans, task, using, outdated, login>>

(* connect(): who finds a login under way waits for it, who finds the      *)
(* connection up is told so; neither changes anything.                     *)
(* Fault: the login under way is overlooked.                               *)
OnlyIfDown == ~connected
MayLogIn == login = NoLogin /\ ~connected

StartLogin(d) ==
  /\ MayLogIn
  /\ Connect(d)
  /\ login' = d

(* The login settles and takes its own entry away, not a later one.        *)
(* Fault: it takes away whatever is there.                                 *)
ForgetAny(d) == NoLogin
Forget(d) == IF login = d THEN NoLogin ELSE login

LoginEnds(d) ==
  /\ DialSucceeds(d) \/ DialFails(d)
  /\ login' = Forget(d)

(* disconnect() forgets the login under way.  Fault: later callers still   *)
(* wait for it.                                                            *)
LoginKept == login
LoginForgotten == NoLogin

EndSession ==
  /\ login' = LoginForgotten
  /\ Disconnect

Next ==
  \/ \E d \in Dials : StartLogin(d) \/ LoginEnds(d)
  \/ EndSession
  \/ (\E t \in Tasks : TaskStep(t)) /\ UNCHANGED login
  \/ NetworkStep /\ UNCHANGED login

RegistryInit == Init /\ login = NoLogin

Spec == RegistryInit /\ [][Next]_registryVars

FairSpec == Spec /\ TaskFairness /\ \A d \in Dials : SF_registryVars(LoginEnds(d))

-----------------------------------------------------------------------------
TypeOK == MainTypeOK /\ login \in Dials \cup {NoLogin}

(* The login the registry shares is exactly the one whose answer counts,   *)
(* whatever logins of earlier generations are still under way: a caller    *)
(* never waits for a login that can only be cancelled, nor starts a second.*)
LoginTracked == \A d \in Dials : dial[d] = "current" <=> login = d

(* What the renderer and the agent are told is what the tasks are told:    *)
(* 'connected' and 'connecting' are up exactly while the connection or a   *)
(* login is.  A connection reported as up has a configuration and a client *)
(* that has logged in, unless that client was closed without a word.       *)
StatusHonest ==
  /\ status = "connected" <=> connected
  /\ status = "connecting" <=> login # NoLogin
  /\ connected => config /\ (client \in open => client \in watched)

(* Who asks, who is told and who logs in agree on the session; only the     *)
(* sockets of open clients are listened to.                                *)
SessionHonest == TypeOK /\ LoginTracked /\ StatusHonest

(* An open socket has an owner: the main client or a login under way.      *)
Owned(c) ==
  \/ c = client
  \/ \E t \in Reopening : using[t] = c
  \/ \E d \in Dials : dialClient[d] = c

(* No late answer and no disconnect leaves a control connection open that  *)
(* nobody will close.  Only a second login of the same generation lets go  *)
(* of a client that is still open.                                         *)
SocketsKept ==
  [][\A c \in open : Owned(c) /\ c \in open' /\ ~Owned(c)' =>
       \E t \in Reopening \ outdated : client = c /\ client' = using[t]]_registryVars

AllChains == orphans \cup {chain}

(* A chain runs one task at a time, its first: the others wait.            *)
ChainSerialises ==
  \A s \in AllChains : \A i \in 2..Len(s) : task[s[i]] = "queued"

(* A task starts on the client of the session as it is now, which has       *)
(* logged in, never after a disconnect or while connect() is under way.    *)
StartsOnSession ==
  [][\A t \in Tasks : task[t] # "running" /\ task'[t] = "running" =>
       /\ config /\ login = NoLogin
       /\ using'[t] = client' /\ client' \in watched \cup {using[t]}]_registryVars

(* What the user disconnected stays so until the user connects again:       *)
(* no late login, no second login of a task, no closed socket changes the  *)
(* status.                                                                 *)
NoResurrection ==
  [][status = "disconnected" /\ status' # status => status' = "connecting"]_registryVars

(* A login is superseded by a disconnect only, never by another caller.    *)
LoginsShared ==
  [][\A d \in Dials : dial[d] = "current" /\ dial'[d] = "stale"
       => status' = "disconnected"]_registryVars

(* Tasks that share the main client never run together: basic-ftp would    *)
(* close it.                                                               *)
OneTaskPerClient ==
  \A s, t \in Tasks : task[s] = "running" /\ task[t] = "running" /\ using[s] = using[t]
    => s = t \/ using[s] \notin open

(* Every task comes to an end, in whatever chain it was left.              *)
EveryTaskEnds == \A t \in Tasks : task[t] = "queued" ~> task[t] = "out"

-----------------------------------------------------------------------------
(* What the proofs need besides.                                           *)

(* Every task that is not over stands once, in one chain; only the first   *)
(* of a chain has begun.                                                   *)
ChainsExact ==
  /\ \A s \in orphans : s # <<>> /\ s # chain
  /\ \A r, s \in AllChains : \A i \in 1..Len(r), k \in 1..Len(s) :
       r[i] = s[k] => r = s /\ i = k
  /\ \A s \in AllChains : \A i \in 1..Len(s) :
       task[s[i]] # "out" /\ (i > 1 => task[s[i]] = "queued")
  /\ \A t \in Tasks : task[t] # "out" =>
       \E s \in AllChains : \E i \in 1..Len(s) : s[i] = t

(* A second login of the present generation is under way only after        *)
(* connect() and before disconnect().                                      *)
SecondLogins ==
  \A t \in Reopening \ outdated : config /\ login = NoLogin /\ status # "disconnected"

(* The login that counts uses the main client; the client of one that was  *)
(* overtaken is closed.                                                    *)
DialClients ==
  \A d \in Dials :
    /\ dialClient[d] = NoClient <=> dial[d] = "none"
    /\ dial[d] = "current" => dialClient[d] = client
    /\ dial[d] = "stale" => dialClient[d] \notin open

IInv ==
  /\ TypeOK /\ LoginTracked /\ StatusHonest
  /\ ChainsExact /\ SecondLogins /\ DialClients
=============================================================================
