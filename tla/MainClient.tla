------------------------------ MODULE MainClient ------------------------------
(***************************************************************************)
(* The main connection of one server                                       *)
(* (src/main/ftp/FtpConnectionManager.ts): the client every listing,       *)
(* rename, delete and fallback transfer shares, the promise chain that     *)
(* lines its tasks up, connect() and disconnect() with the generation that *)
(* tells their late answers, and the second login of a client that         *)
(* basic-ftp closed on its own.                                            *)
(*                                                                         *)
(* Generations are kept as who is stale: connect() and disconnect() make   *)
(* every login under way one of an earlier generation.                     *)
(***************************************************************************)
EXTENDS Integers, Sequences, FiniteSets

CONSTANTS
  Dials,      \* calls of connect() that may be under way together
  Tasks,      \* calls of runOnMainClient() that may be under way together
  Clients,    \* identities of clients, reused once forgotten
  NoClient

ASSUME MainClientAssumption == NoClient \notin Clients

VARIABLES
  client,     \* this.client
  open,       \* clients whose control socket is not closed
  watched,    \* clients logged in, whose socket monitorConnection() watches
  connected,  \* _connected
  config,     \* _config is set
  status,     \* _status
  dial,       \* of each connect(): "none", "current" or "stale"
  dialClient,
  chain,      \* tasks of the promise chain mainClientLock, the first one may run
  orphans,    \* chains a connect() let go of, with tasks still in them
  task,       \* where each task is
  using,      \* the client a task runs on or logs in with
  outdated    \* tasks whose login is of an earlier generation

session == <<connected, config, status>>
sockets == <<client, open, watched>>
dials   == <<dial, dialClient>>
chains  == <<chain, orphans, task, using, outdated>>
vars == <<client, open, watched, connected, config, status, dial, dialClient,
          chain, orphans, task, using, outdated>>

Fresh == {c \in Clients : /\ c \notin open \cup {client}
                          /\ \A d \in Dials : dialClient[d] # c
                          /\ \A t \in Tasks : using[t] # c}

(* Bound: sockets may be forgotten without end, identities are not; calls   *)
(* are made while there is one for every task that may need it.            *)
Spare == Cardinality(Fresh) > Cardinality({t \in Tasks : task[t] = "queued"})

Closed(S) == open' = open \ S /\ watched' = watched \ S

(* The task before t is over, or there was none.                           *)
(* Fault: the chain is not waited for.                                     *)
AnyTurn(t) == TRUE
Turn(t) == \E s \in orphans \cup {chain} : s # <<>> /\ Head(s) = t

(* The callbacks of settled promises run before the network answers again. *)
NobodyReady == \A t \in Tasks : task[t] = "queued" => ~Turn(t)

(* Every login under way belongs to an earlier generation from now on.     *)
Reopening == {t \in Tasks : task[t] = "reopening"}
Outdated(d) == IF d = "current" THEN "stale" ELSE d

-----------------------------------------------------------------------------
(* connect() and disconnect()                                              *)

(* Tasks in the chain stay in it, but nobody waits for them any more.      *)
Connect(d) ==
  /\ dial[d] = "none" /\ Spare
  /\ status' = "connecting"
  /\ UNCHANGED <<connected, config, task, using>>
  /\ outdated' = Reopening
  /\ orphans' = orphans \cup ({chain} \ {<<>>})
  /\ chain' = <<>>
  /\ \E c \in Fresh :
       /\ client' = c
       /\ open' = (open \ {client}) \cup {c}
       /\ watched' = watched \ {client}
       /\ dial' = [e \in Dials |-> IF e = d THEN "current" ELSE Outdated(dial[e])]
       /\ dialClient' = [dialClient EXCEPT ![d] = c]

DialEnds(d) ==
  /\ NobodyReady
  /\ dial' = [dial EXCEPT ![d] = "none"]
  /\ dialClient' = [dialClient EXCEPT ![d] = NoClient]
  /\ UNCHANGED chains

(* Fault: the generation is not compared.                                  *)
CommitsLate(d) ==
  /\ dial[d] # "none"
  /\ connected' = TRUE /\ config' = TRUE /\ status' = "connected"
  /\ watched' = watched \cup {dialClient[d]}
  /\ UNCHANGED <<client, open>>
Commits(d) ==
  /\ dial[d] = "current" /\ dialClient[d] \in open
  /\ connected' = TRUE /\ config' = TRUE /\ status' = "connected"
  /\ watched' = watched \cup {client}
  /\ UNCHANGED <<client, open>>

DialSucceeds(d) ==
  /\ DialEnds(d)
  /\ \/ Commits(d)
     \/ dial[d] = "stale" /\ Closed({dialClient[d]}) /\ UNCHANGED <<client, session>>

(* A refused login may leave the control connection open.                  *)
DialFails(d) ==
  /\ DialEnds(d)
  /\ \/ /\ dial[d] = "current"
        /\ connected' = FALSE /\ status' = "error"
        /\ UNCHANGED config
     \/ dial[d] = "stale" /\ UNCHANGED session
  /\ UNCHANGED sockets

Disconnect ==
  /\ Closed({client})
  /\ connected' = FALSE /\ config' = FALSE /\ status' = "disconnected"
  /\ dial' = [e \in Dials |-> Outdated(dial[e])]
  /\ outdated' = Reopening
  /\ UNCHANGED <<client, dialClient, chain, orphans, task, using>>

-----------------------------------------------------------------------------
(* runOnMainClient()                                                       *)

RunOnMainClient(t) ==
  /\ task[t] = "out" /\ connected /\ Spare
  /\ task' = [task EXCEPT ![t] = "queued"]
  /\ chain' = Append(chain, t)
  /\ UNCHANGED <<orphans, using, outdated, sockets, session, dials>>

(* Fault: the chain is not released.                                       *)
NotShorter(s, t) == s
Shorter(s, t) == IF s # <<>> /\ Head(s) = t THEN Tail(s) ELSE s

(* The task settles, and the next one of its chain may run.                *)
Settles(t) ==
  /\ task' = [task EXCEPT ![t] = "out"]
  /\ using' = [using EXCEPT ![t] = NoClient]
  /\ chain' = Shorter(chain, t)
  /\ orphans' = {Shorter(s, t) : s \in orphans} \ {<<>>}
  /\ outdated' = outdated \ {t}

TaskRejected(t) ==
  /\ task[t] = "queued" /\ Turn(t) /\ ~connected
  /\ Settles(t)
  /\ UNCHANGED <<sockets, session, dials>>

(* basic-ftp closes a client that is given a command while another one     *)
(* waits for its answer.                                                   *)
Collides(c) == \E s \in Tasks : task[s] = "running" /\ using[s] = c

TaskRuns(t) ==
  /\ task[t] = "queued" /\ Turn(t) /\ connected /\ client \in open
  /\ task' = [task EXCEPT ![t] = "running"]
  /\ using' = [using EXCEPT ![t] = client]
  /\ UNCHANGED <<client, chain, orphans, outdated, session, dials>>
  /\ \/ UNCHANGED <<open, watched>>
     \/ Collides(client) /\ Closed({client})

(* reopenMainClient(): basic-ftp closed the client without a word.         *)
TaskReopens(t) ==
  /\ task[t] = "queued" /\ Turn(t) /\ connected /\ client \notin open
  /\ task' = [task EXCEPT ![t] = "reopening"]
  /\ \E c \in Fresh :
       /\ using' = [using EXCEPT ![t] = c]
       /\ open' = open \cup {c}
  /\ UNCHANGED <<client, watched, chain, orphans, outdated, session, dials>>

(* Fault: the client is taken over whatever happened meanwhile.            *)
AnyGeneration(t) == TRUE
SameGeneration(t) == t \notin outdated

ReopenSucceeds(t) ==
  /\ task[t] = "reopening" /\ NobodyReady
  /\ UNCHANGED <<session, dials>>
  /\ \/ /\ SameGeneration(t) /\ using[t] \in open
        /\ client' = using[t]
        /\ watched' = watched \cup {using[t]}
        /\ task' = [task EXCEPT ![t] = "running"]
        /\ UNCHANGED <<open, chain, orphans, using, outdated>>
     \/ /\ ~SameGeneration(t)
        /\ Closed({using[t]})
        /\ Settles(t)
        /\ UNCHANGED client

(* A failure counts like one of connect(), unless it is outdated.          *)
Reports(t) ==
  IF SameGeneration(t)
  THEN connected' = FALSE /\ status' = "error" /\ UNCHANGED config
  ELSE UNCHANGED session

ReopenFails(t) ==
  /\ task[t] = "reopening" /\ NobodyReady
  /\ Closed({using[t]})
  /\ Settles(t)
  /\ Reports(t)
  /\ UNCHANGED <<client, dials>>

TaskEnds(t) ==
  /\ task[t] = "running" /\ NobodyReady
  /\ Settles(t)
  /\ UNCHANGED <<sockets, session, dials>>

-----------------------------------------------------------------------------
(* The server and the network.                                             *)

(* A time-out, a FIN or a refused command: basic-ftp removes the listeners *)
(* of the socket before it closes it.                                      *)
ClosesSilently(c) ==
  /\ c \in open
  /\ Closed({c})
  /\ UNCHANGED <<client, session, dials, chains>>

(* monitorConnection() hears that the socket is gone.                      *)
LossHeard(c) ==
  /\ c \in watched
  /\ Closed({c})
  /\ connected' = FALSE
  /\ status' = IF connected THEN "error" ELSE status
  /\ UNCHANGED <<client, config, dials, chains>>

-----------------------------------------------------------------------------
Init ==
  /\ client \in Clients
  /\ open = {} /\ watched = {}
  /\ connected = FALSE /\ config = FALSE /\ status = "disconnected"
  /\ dial = [d \in Dials |-> "none"]
  /\ dialClient = [d \in Dials |-> NoClient]
  /\ chain = <<>> /\ orphans = {}
  /\ task = [t \in Tasks |-> "out"]
  /\ using = [t \in Tasks |-> NoClient]
  /\ outdated = {}

TaskStep(t) ==
  \/ RunOnMainClient(t) \/ TaskRejected(t) \/ TaskRuns(t) \/ TaskReopens(t)
  \/ ReopenSucceeds(t) \/ ReopenFails(t) \/ TaskEnds(t)

NetworkStep == NobodyReady /\ \E c \in Clients : ClosesSilently(c) \/ LossHeard(c)

(* Logins and commands end by their time-out (CLIENT_TIMEOUT_MS) at the    *)
(* latest.  NobodyReady, which orders callbacks within one turn of the      *)
(* event loop, comes and goes: hence strong fairness.                      *)
TaskFairness ==
  \A t \in Tasks :
    SF_vars(TaskRejected(t) \/ TaskRuns(t) \/ TaskReopens(t) \/ ReopenSucceeds(t)
            \/ ReopenFails(t) \/ TaskEnds(t))

-----------------------------------------------------------------------------
SocketTypes == client \in Clients /\ open \in SUBSET Clients /\ watched \in SUBSET open

SessionTypes ==
  /\ connected \in BOOLEAN /\ config \in BOOLEAN
  /\ status \in {"disconnected", "connecting", "connected", "error"}

DialTypes ==
  /\ dial \in [Dials -> {"none", "current", "stale"}]
  /\ dialClient \in [Dials -> Clients \cup {NoClient}]

TaskTypes ==
  /\ chain \in Seq(Tasks) /\ orphans \in SUBSET Seq(Tasks)
  /\ task \in [Tasks -> {"out", "queued", "reopening", "running"}]
  /\ using \in [Tasks -> Clients \cup {NoClient}]
  /\ outdated \in SUBSET Reopening

MainTypeOK == SocketTypes /\ SessionTypes /\ DialTypes /\ TaskTypes
=============================================================================
