----------------------- MODULE ConnectionRegistryProofs -----------------------
(***************************************************************************)
(* Proofs about one session of the registry for any number of logins,      *)
(* tasks and clients: the inductive invariant IInv, and the action         *)
(* properties that rest on it.                                             *)
(***************************************************************************)
EXTENDS ConnectionRegistry, SequenceTheorems, TLAPS

-----------------------------------------------------------------------------
(* What the steps leave alone.                                             *)

(* The tasks and the network neither begin nor end a login of connect().   *)
LEMMA DialsFramed ==
  ASSUME (\E t \in Tasks : TaskStep(t)) \/ NetworkStep
  PROVE  UNCHANGED <<dial, dialClient, config>>
BY DEF TaskStep, NetworkStep, RunOnMainClient, TaskRejected, TaskRuns, TaskReopens,
       ReopenSucceeds, ReopenFails, TaskEnds, ClosesSilently, LossHeard, Reports,
       session, dials, sockets, chains

(* connect(), its answers, disconnect() and the network let every task     *)
(* stay where it is.                                                       *)
LEMMA TasksFramed ==
  ASSUME \/ \E d \in Dials : StartLogin(d) \/ LoginEnds(d)
         \/ EndSession
         \/ NetworkStep
  PROVE  UNCHANGED <<task, using>>
BY DEF StartLogin, LoginEnds, Connect, DialSucceeds, DialFails, DialEnds, EndSession,
       Disconnect, NetworkStep, ClosesSilently, LossHeard, chains

-----------------------------------------------------------------------------
(* How connect() ends: its client becomes the session's, the failure of    *)
(* the login that counts is reported, or an overtaken one changes nothing  *)
(* but its own socket.                                                     *)
Refused(d) ==
  /\ dial[d] = "current"
  /\ connected' = FALSE /\ status' = "error"
  /\ UNCHANGED config

LEMMA LoginOutcomes ==
  ASSUME NEW d \in Dials, LoginEnds(d)
  PROVE  \/ Commits(d)
         \/ Refused(d) /\ UNCHANGED sockets
         \/ /\ dial[d] = "stale" /\ UNCHANGED <<client, session>>
            /\ Closed({dialClient[d]}) \/ UNCHANGED sockets
<1>1. CASE DialSucceeds(d)
  BY <1>1 DEF DialSucceeds
<1>2. CASE DialFails(d)
  <2>1. Refused(d) \/ (dial[d] = "stale" /\ UNCHANGED session)
    BY <1>2, Zenon DEF DialFails, Refused
  <2>2. UNCHANGED sockets
    BY <1>2 DEF DialFails
  <2>3. QED
    BY <2>1, <2>2 DEF sockets
<1>3. QED
  BY <1>1, <1>2 DEF LoginEnds

LEMMA LoginFrame ==
  ASSUME NEW d \in Dials, LoginEnds(d)
  PROVE  /\ dial' = [dial EXCEPT ![d] = "none"]
         /\ dialClient' = [dialClient EXCEPT ![d] = NoClient]
         /\ login' = Forget(d)
         /\ UNCHANGED chains
BY DEF LoginEnds, DialSucceeds, DialFails, DialEnds

(* Chains of tasks.                                                        *)

(* Taking the first element away leaves a sequence of the same set, whose  *)
(* elements were one place further back.                                   *)
LEMMA ShorterSeq ==
  ASSUME NEW S, NEW s \in Seq(S), NEW t
  PROVE  /\ Shorter(s, t) \in Seq(S)
         /\ s # <<>> /\ Head(s) = t =>
              /\ Len(Shorter(s, t)) = Len(s) - 1
              /\ \A i \in 1..Len(Shorter(s, t)) : Shorter(s, t)[i] = s[i + 1]
         /\ ~(s # <<>> /\ Head(s) = t) => Shorter(s, t) = s
BY DEF Shorter

(* Init is a state of the invariant.                                       *)
LEMMA InitIInv == RegistryInit => IInv
<1> SUFFICES ASSUME RegistryInit PROVE IInv
  OBVIOUS
<1> USE MainClientAssumption, RegistryAssumption DEF RegistryInit, Init
<1>1. TypeOK
  <2>1. SocketTypes /\ DialTypes
    BY DEF SocketTypes, DialTypes
  <2>2. SessionTypes
    BY DEF SessionTypes
  <2>3. TaskTypes
    BY DEF TaskTypes, Reopening
  <2>4. QED
    BY <2>1, <2>2, <2>3 DEF TypeOK, MainTypeOK
<1>2. LoginTracked
  BY DEF LoginTracked
<1>3. StatusHonest
  BY DEF StatusHonest
<1>4. ChainsExact
  BY DEF ChainsExact, AllChains
<1>5. SecondLogins /\ DialClients
  BY DEF SecondLogins, DialClients, Reopening
<1>6. QED
  BY <1>1, <1>2, <1>3, <1>4, <1>5 DEF IInv

(* A session settled by a task leaves its chains well typed.               *)
LEMMA SettlesTypes ==
  ASSUME TaskTypes, NEW t \in Tasks, Settles(t)
  PROVE  TaskTypes'
<1>1. chain' \in Seq(Tasks)
  BY ShorterSeq DEF TaskTypes, Settles
<1>2. orphans' \in SUBSET Seq(Tasks)
  BY ShorterSeq DEF TaskTypes, Settles
<1>3. outdated' \in SUBSET Reopening'
  BY DEF TaskTypes, Settles, Reopening
<1>4. QED
  BY <1>1, <1>2, <1>3 DEF TaskTypes, Settles

(* Every step keeps the types.  That a watched client is open rests on the *)
(* login that counts being that of the main client.                        *)
LEMMA TypeStep ==
  ASSUME TypeOK, DialClients, [Next]_registryVars
  PROVE  TypeOK'
<1> USE DEF TypeOK, MainTypeOK
<1>1. ASSUME NEW d \in Dials, StartLogin(d)
      PROVE  TypeOK'
  <2> USE <1>1 DEF StartLogin, Connect
  <2>1. SocketTypes'
    BY DEF SocketTypes, Fresh
  <2>2. SessionTypes'
    BY DEF SessionTypes
  <2>3. DialTypes'
    BY DEF DialTypes, Fresh, Outdated
  <2>4. TaskTypes'
    BY DEF TaskTypes, Reopening
  <2>5. QED
    BY <2>1, <2>2, <2>3, <2>4
<1>2. ASSUME NEW d \in Dials, LoginEnds(d)
      PROVE  TypeOK'
  <2>1. SocketTypes'
    BY <1>2, LoginOutcomes DEF SocketTypes, Closed, Commits, sockets, DialClients
  <2>2. SessionTypes'
    BY <1>2, LoginOutcomes DEF SessionTypes, Commits, Refused, session
  <2>3. DialTypes'
    BY <1>2, LoginFrame DEF DialTypes
  <2>4. TaskTypes'
    BY <1>2, LoginFrame DEF TaskTypes, Reopening, chains
  <2>5. login' \in Dials \cup {NoLogin}
    BY <1>2 DEF LoginEnds, Forget
  <2>6. QED
    BY <2>1, <2>2, <2>3, <2>4, <2>5
<1>3. ASSUME EndSession
      PROVE  TypeOK'
  <2> USE <1>3 DEF EndSession, Disconnect
  <2>1. SocketTypes'
    BY DEF SocketTypes, Closed
  <2>2. SessionTypes'
    BY DEF SessionTypes
  <2>3. DialTypes'
    BY DEF DialTypes, Outdated
  <2>4. TaskTypes'
    BY DEF TaskTypes, Reopening
  <2>5. QED
    BY <2>1, <2>2, <2>3, <2>4 DEF LoginForgotten
<1>4. ASSUME NEW t \in Tasks, TaskStep(t), UNCHANGED login
      PROVE  TypeOK'
  <2> USE <1>4
  <2>1. DialTypes'
    BY DialsFramed DEF DialTypes
  <2>2. CASE RunOnMainClient(t)
    BY <2>1, <2>2 DEF RunOnMainClient, SocketTypes, SessionTypes, TaskTypes, Reopening,
       sockets, session
  <2>3. CASE TaskRejected(t)
    BY <2>1, <2>3, SettlesTypes DEF TaskRejected, SocketTypes, SessionTypes, sockets, session
  <2>4. CASE TaskRuns(t)
    <3>1. SocketTypes' /\ SessionTypes'
      BY <2>4 DEF TaskRuns, SocketTypes, SessionTypes, Closed, session
    <3>2. TaskTypes'
      BY <2>4 DEF TaskRuns, TaskTypes, SocketTypes, Reopening
    <3>3. QED
      BY <2>1, <3>1, <3>2
  <2>5. CASE TaskReopens(t)
    <3>1. SocketTypes' /\ SessionTypes'
      BY <2>5 DEF TaskReopens, Fresh, SocketTypes, SessionTypes, session
    <3>2. TaskTypes'
      BY <2>5 DEF TaskReopens, Fresh, TaskTypes, Reopening
    <3>3. QED
      BY <2>1, <3>1, <3>2
  <2>6. CASE ReopenSucceeds(t)
    <3>1. using[t] \in open => using[t] \in Clients
      BY DEF SocketTypes
    <3>2. SocketTypes' /\ SessionTypes'
      BY <2>6, <3>1 DEF ReopenSucceeds, SocketTypes, SessionTypes, session, Closed
    <3>3. TaskTypes'
      BY <2>6, SettlesTypes DEF ReopenSucceeds, SameGeneration, TaskTypes, Reopening
    <3>4. QED
      BY <2>1, <3>2, <3>3
  <2>7. CASE ReopenFails(t)
    <3>1. SocketTypes' /\ SessionTypes'
      BY <2>7 DEF ReopenFails, SocketTypes, SessionTypes, session, Closed, Reports
    <3>2. QED
      BY <2>1, <2>7, <3>1, SettlesTypes DEF ReopenFails
  <2>8. CASE TaskEnds(t)
    BY <2>1, <2>8, SettlesTypes DEF TaskEnds, SocketTypes, SessionTypes, sockets, session
  <2>9. QED
    BY <2>2, <2>3, <2>4, <2>5, <2>6, <2>7, <2>8 DEF TaskStep
<1>5. ASSUME NetworkStep, UNCHANGED login
      PROVE  TypeOK'
  <2> USE <1>5 DEF NetworkStep, ClosesSilently, LossHeard
  <2>1. SocketTypes'
    BY DEF SocketTypes, Closed
  <2>2. SessionTypes'
    BY DEF SessionTypes, session
  <2>3. DialTypes' /\ TaskTypes'
    BY DEF DialTypes, TaskTypes, Reopening, dials, chains
  <2>4. QED
    BY <2>1, <2>2, <2>3
<1>6. ASSUME UNCHANGED registryVars
      PROVE  TypeOK'
  BY <1>6 DEF registryVars, SocketTypes, SessionTypes, DialTypes, TaskTypes, Reopening
<1>7. QED
  BY <1>1, <1>2, <1>3, <1>4, <1>5, <1>6 DEF Next

(* The login that counts is the one in the registry.                       *)
LEMMA LoginsStep ==
  ASSUME IInv, [Next]_registryVars
  PROVE  LoginTracked'
<1> USE DEF IInv, TypeOK, MainTypeOK, LoginTracked
<1>1. ASSUME NEW d \in Dials, StartLogin(d)
      PROVE  LoginTracked'
  <2>1. login = NoLogin /\ login' = d
    BY <1>1 DEF StartLogin, MayLogIn
  <2>2. dial' = [e \in Dials |-> IF e = d THEN "current" ELSE Outdated(dial[e])]
    BY <1>1 DEF StartLogin, Connect
  <2>3. QED
    BY <2>1, <2>2, RegistryAssumption DEF Outdated, DialTypes
<1>2. ASSUME NEW d \in Dials, LoginEnds(d)
      PROVE  LoginTracked'
  BY <1>2, LoginFrame, RegistryAssumption DEF Forget, DialTypes
<1>3. ASSUME EndSession
      PROVE  LoginTracked'
  BY <1>3, RegistryAssumption
     DEF EndSession, Disconnect, LoginForgotten, Outdated, DialTypes
<1>4. ASSUME (\E t \in Tasks : TaskStep(t)) \/ NetworkStep, UNCHANGED login
      PROVE  LoginTracked'
  BY <1>4, DialsFramed
<1>5. ASSUME UNCHANGED registryVars
      PROVE  LoginTracked'
  BY <1>5 DEF registryVars
<1>6. QED
  BY <1>1, <1>2, <1>3, <1>4, <1>5 DEF Next

(* The second login of a task is of this generation only while nobody has  *)
(* connected or disconnected since.                                        *)
LEMMA SecondStep ==
  ASSUME IInv, [Next]_registryVars
  PROVE  SecondLogins'
<1> USE DEF IInv, SecondLogins
<1>1. ASSUME NEW d \in Dials, StartLogin(d)
      PROVE  SecondLogins'
  BY <1>1 DEF StartLogin, Connect, Reopening
<1>2. ASSUME NEW d \in Dials, LoginEnds(d)
      PROVE  SecondLogins'
  <2>1. UNCHANGED <<outdated, task>>
    BY <1>2, LoginFrame DEF chains
  <2>2. /\ status' # "disconnected" \/ status' = status
        /\ config => config'
    BY <1>2, LoginOutcomes DEF Commits, Refused, session
  <2>3. login = NoLogin => login' = NoLogin
    BY <1>2, LoginFrame DEF Forget
  <2>4. QED
    BY <2>1, <2>2, <2>3 DEF Reopening
<1>3. ASSUME EndSession
      PROVE  SecondLogins'
  BY <1>3 DEF EndSession, Disconnect, Reopening
<1>4. ASSUME NEW t \in Tasks, TaskStep(t), UNCHANGED login
      PROVE  SecondLogins'
  <2> USE <1>4
  <2>1. task \in [Tasks -> {"out", "queued", "reopening", "running"}]
    BY DEF TypeOK, MainTypeOK, TaskTypes
  <2>2. CASE TaskReopens(t)
    <3>1. connected
      BY <2>2 DEF TaskReopens
    <3>2. status = "connected"
      BY <3>1 DEF StatusHonest
    <3>3. login = NoLogin
      BY <3>2 DEF StatusHonest
    <3>4. status' # "disconnected" /\ login' = NoLogin
      BY <2>2, <3>2, <3>3 DEF TaskReopens, session
    <3>5. config'
      BY <2>2, <3>1 DEF TaskReopens, session, StatusHonest
    <3>6. QED
      BY <3>4, <3>5
  <2>3. ASSUME RunOnMainClient(t) \/ TaskRejected(t) \/ TaskRuns(t)
               \/ ReopenSucceeds(t) \/ ReopenFails(t) \/ TaskEnds(t)
        PROVE  SecondLogins'
    <3>1. Reopening' \ outdated' \subseteq Reopening \ outdated
      BY <2>1, <2>3 DEF Reopening, RunOnMainClient, TaskRejected, TaskRuns, ReopenSucceeds,
         ReopenFails, TaskEnds, Settles
    <3>2. status' = "error" \/ status' = status
      BY <2>3 DEF RunOnMainClient, TaskRejected, TaskRuns, ReopenSucceeds, ReopenFails,
         TaskEnds, Reports, session
    <3>3. UNCHANGED config
      BY <2>3 DEF RunOnMainClient, TaskRejected, TaskRuns, ReopenSucceeds, ReopenFails,
         TaskEnds, Reports, session
    <3>4. QED
      BY <3>1, <3>2, <3>3
  <2>4. QED
    BY <2>2, <2>3 DEF TaskStep
<1>5. ASSUME NetworkStep, UNCHANGED login
      PROVE  SecondLogins'
  <2>1. UNCHANGED <<outdated, task>>
    BY <1>5 DEF NetworkStep, ClosesSilently, LossHeard, chains
  <2>2. status' = "error" \/ status' = status
    BY <1>5 DEF NetworkStep, ClosesSilently, LossHeard, session
  <2>3. UNCHANGED config
    BY <1>5 DEF NetworkStep, ClosesSilently, LossHeard, session
  <2>4. QED
    BY <1>5, <2>1, <2>2, <2>3 DEF Reopening
<1>6. ASSUME UNCHANGED registryVars
      PROVE  SecondLogins'
  BY <1>6 DEF registryVars, Reopening
<1>7. QED
  BY <1>1, <1>2, <1>3, <1>4, <1>5, <1>6 DEF Next

(* What is reported is what holds.                                         *)
LEMMA StatusStep ==
  ASSUME IInv, [Next]_registryVars
  PROVE  StatusHonest'
<1> USE DEF IInv, StatusHonest
<1>1. ASSUME NEW d \in Dials, StartLogin(d)
      PROVE  StatusHonest'
  <2>1. ~connected /\ login = NoLogin /\ login' = d
    BY <1>1 DEF StartLogin, MayLogIn
  <2>2. status' = "connecting" /\ UNCHANGED <<connected, config>>
    BY <1>1 DEF StartLogin, Connect
  <2>3. QED
    BY <2>1, <2>2, RegistryAssumption
<1>2. ASSUME NEW d \in Dials, LoginEnds(d)
      PROVE  StatusHonest'
  <2> USE <1>2, LoginFrame DEF Forget, LoginTracked
  <2>1. CASE Commits(d)
    <3>1. login' = NoLogin
      BY <2>1 DEF Commits
    <3>2. connected' = TRUE /\ config' = TRUE /\ status' = "connected"
      BY <2>1 DEF Commits
    <3>3. client' \in watched'
      BY <2>1 DEF Commits
    <3>4. QED
      BY <3>1, <3>2, <3>3
  <2>2. CASE Refused(d)
    <3>1. login' = NoLogin
      BY <2>2 DEF Refused
    <3>2. connected' = FALSE /\ status' = "error"
      BY <2>2 DEF Refused
    <3>3. QED
      BY <3>1, <3>2
  <2>3. ASSUME dial[d] = "stale", UNCHANGED <<client, session>>,
               Closed({dialClient[d]}) \/ UNCHANGED sockets
        PROVE  StatusHonest'
    <3>1. UNCHANGED <<connected, config, status>>
      BY <2>3 DEF session
    <3>2. login' = login
      BY <2>3
    <3>3. client' \in open' => client \in open /\ (client \in watched => client' \in watched')
      BY <2>3 DEF Closed, sockets
    <3>4. QED
      BY <3>1, <3>2, <3>3
  <2>4. QED
    BY <2>1, <2>2, <2>3, LoginOutcomes
<1>3. ASSUME EndSession
      PROVE  StatusHonest'
  BY <1>3 DEF EndSession, Disconnect, LoginForgotten
<1>4. ASSUME NEW t \in Tasks, TaskStep(t), UNCHANGED login
      PROVE  StatusHonest'
  <2>1. CASE RunOnMainClient(t) \/ TaskRejected(t) \/ TaskEnds(t)
    <3>1. UNCHANGED <<client, open, watched, connected, config, status>>
      BY <2>1 DEF RunOnMainClient, TaskRejected, TaskEnds, sockets, session
    <3>2. QED
      BY <1>4, <3>1
  <2>2. CASE TaskRuns(t) \/ TaskReopens(t)
    <3>1. UNCHANGED <<client, connected, config, status>>
      BY <2>2 DEF TaskRuns, TaskReopens, session
    <3>2. client' \in open' => client \in open /\ (client \in watched => client' \in watched')
      BY <2>2 DEF TaskRuns, TaskReopens, Closed, Fresh
    <3>3. QED
      BY <1>4, <3>1, <3>2
  <2>3. CASE ReopenSucceeds(t)
    <3>1. UNCHANGED <<connected, config, status>>
      BY <2>3 DEF ReopenSucceeds, session
    <3>2. client' \in watched' \/
            (client' \in open' => client \in open /\ (client \in watched => client' \in watched'))
      BY <2>3 DEF ReopenSucceeds, Closed
    <3>3. QED
      BY <1>4, <3>1, <3>2
  <2>4. CASE ReopenFails(t)
    <3>1. UNCHANGED client /\ Closed({using[t]})
      BY <2>4 DEF ReopenFails
    <3>2. client' \in open' => client \in open /\ (client \in watched => client' \in watched')
      BY <3>1 DEF Closed
    <3>3. CASE SameGeneration(t)
      <4>1. connected' = FALSE /\ status' = "error"
        BY <2>4, <3>3 DEF ReopenFails, Reports
      <4>2. login' = NoLogin
        BY <1>4, <2>4, <3>3 DEF ReopenFails, SameGeneration, SecondLogins, Reopening
      <4>3. QED
        BY <4>1, <4>2
    <3>4. CASE ~SameGeneration(t)
      <4>1. UNCHANGED <<connected, config, status>>
        BY <2>4, <3>4 DEF ReopenFails, Reports, session
      <4>2. QED
        BY <1>4, <3>2, <4>1
    <3>5. QED
      BY <3>3, <3>4
  <2>5. QED
    BY <1>4, <2>1, <2>2, <2>3, <2>4 DEF TaskStep
<1>5. ASSUME NetworkStep, UNCHANGED login
      PROVE  StatusHonest'
  <2>1. client' \in open' => client \in open /\ (client \in watched => client' \in watched')
    BY <1>5 DEF NetworkStep, ClosesSilently, LossHeard, Closed, session
  <2>2. CASE \E c \in Clients : ClosesSilently(c)
    BY <1>5, <2>1, <2>2 DEF ClosesSilently, session
  <2>3. CASE \E c \in Clients : LossHeard(c)
    <3>1. connected' = FALSE
      BY <2>3 DEF LossHeard
    <3>2. status' = IF connected THEN "error" ELSE status
      BY <2>3 DEF LossHeard
    <3>3. QED
      BY <1>5, <3>1, <3>2
  <2>4. QED
    BY <1>5, <2>2, <2>3 DEF NetworkStep
<1>6. ASSUME UNCHANGED registryVars
      PROVE  StatusHonest'
  BY <1>6 DEF registryVars
<1>7. QED
  BY <1>1, <1>2, <1>3, <1>4, <1>5, <1>6 DEF Next

(* The login that counts stays that of the main client, and an overtaken   *)
(* one that of a closed client.                                            *)
LEMMA DialStep ==
  ASSUME IInv, [Next]_registryVars
  PROVE  DialClients'
<1> USE DEF IInv, TypeOK, MainTypeOK, DialTypes, DialClients
<1>1. ASSUME NEW d \in Dials, StartLogin(d)
      PROVE  DialClients'
  <2>1. \A e \in Dials : dial[e] # "current"
    BY <1>1, RegistryAssumption DEF StartLogin, MayLogIn, LoginTracked
  <2>2. PICK c \in Fresh :
          /\ client' = c
          /\ open' = (open \ {client}) \cup {c}
          /\ dial' = [e \in Dials |-> IF e = d THEN "current" ELSE Outdated(dial[e])]
          /\ dialClient' = [dialClient EXCEPT ![d] = c]
    BY <1>1 DEF StartLogin, Connect
  <2>3. c # NoClient /\ \A e \in Dials : dialClient[e] # c
    BY <2>2, MainClientAssumption DEF Fresh
  <2>4. dial[d] = "none"
    BY <1>1 DEF StartLogin, Connect
  <2>5. QED
    BY <2>1, <2>2, <2>3, <2>4 DEF Outdated
<1>2. ASSUME NEW d \in Dials, LoginEnds(d)
      PROVE  DialClients'
  <2>1. UNCHANGED client /\ open' \subseteq open
    BY <1>2, LoginOutcomes DEF Commits, Closed, sockets
  <2>2. QED
    BY <1>2, <2>1, LoginFrame
<1>3. ASSUME EndSession
      PROVE  DialClients'
  BY <1>3 DEF EndSession, Disconnect, Closed, Outdated
<1>4. ASSUME NEW t \in Tasks, TaskStep(t), UNCHANGED login
      PROVE  DialClients'
  <2>1. UNCHANGED <<dial, dialClient>>
    BY <1>4, DialsFramed
  <2>2. CASE TaskReopens(t)
    BY <2>1, <2>2 DEF TaskReopens, Fresh
  <2>3. CASE ReopenSucceeds(t)
    <3>1. open' \subseteq open
      BY <2>3 DEF ReopenSucceeds, Closed
    <3>2. client' = client \/ login = NoLogin
      BY <2>3 DEF ReopenSucceeds, SameGeneration, SecondLogins, Reopening
    <3>3. login = NoLogin => \A e \in Dials : dial[e] # "current"
      BY RegistryAssumption DEF LoginTracked
    <3>4. QED
      BY <2>1, <3>1, <3>2, <3>3
  <2>4. CASE RunOnMainClient(t) \/ TaskRejected(t) \/ TaskRuns(t) \/ ReopenFails(t) \/ TaskEnds(t)
    <3>1. UNCHANGED client /\ open' \subseteq open
      BY <2>4 DEF RunOnMainClient, TaskRejected, TaskRuns, ReopenFails, TaskEnds, Closed,
         sockets
    <3>2. QED
      BY <2>1, <3>1
  <2>5. QED
    BY <1>4, <2>2, <2>3, <2>4 DEF TaskStep
<1>5. ASSUME NetworkStep, UNCHANGED login
      PROVE  DialClients'
  <2>1. UNCHANGED client /\ open' \subseteq open
    BY <1>5 DEF NetworkStep, ClosesSilently, LossHeard, Closed
  <2>2. QED
    BY <1>5, <2>1, DialsFramed
<1>6. ASSUME UNCHANGED registryVars
      PROVE  DialClients'
  BY <1>6 DEF registryVars
<1>7. QED
  BY <1>1, <1>2, <1>3, <1>4, <1>5, <1>6 DEF Next

(* What Shorter does to the places of a chain, when t heads h.             *)
LEMMA Shortened ==
  ASSUME TaskTypes, ChainsExact, NEW t \in Tasks, NEW h \in AllChains,
         h # <<>>, Head(h) = t
  PROVE  /\ \A s \in AllChains :
              s # h => Shorter(s, t) = s /\ \A i \in 1..Len(s) : s[i] # t
         /\ Len(Shorter(h, t)) = Len(h) - 1
         /\ \A i \in 1..Len(Shorter(h, t)) :
              Shorter(h, t)[i] = h[i + 1] /\ h[i + 1] # t
<1>1. AllChains \subseteq Seq(Tasks)
  BY DEF AllChains, TaskTypes
<1>2. Len(h) \in Nat /\ Len(h) >= 1 /\ h[1] = t
  BY <1>1
<1>3. \A s \in AllChains : \A i \in 1..Len(s) : s[i] = t => s = h /\ i = 1
  BY <1>2 DEF ChainsExact
<1>4. ASSUME NEW s \in AllChains, s # h
      PROVE  Shorter(s, t) = s /\ \A i \in 1..Len(s) : s[i] # t
  <2>1. \A i \in 1..Len(s) : s[i] # t
    BY <1>3, <1>4
  <2>2. s # <<>> => Head(s) # t
    BY <1>1, <2>1
  <2>3. QED
    BY <2>1, <2>2 DEF Shorter
<1>5. Shorter(h, t) = Tail(h)
  BY DEF Shorter
<1>6. Len(Shorter(h, t)) = Len(h) - 1
  BY <1>1, <1>5
<1>7. \A i \in 1..Len(Shorter(h, t)) : Shorter(h, t)[i] = h[i + 1]
  BY <1>1, <1>5, <1>6
<1>8. \A i \in 1..Len(Shorter(h, t)) : h[i + 1] # t
  BY <1>2, <1>3, <1>6
<1>9. QED
  BY <1>4, <1>6, <1>7, <1>8

(* The chains stay exact when the task at the head of one is over.         *)
LEMMA SettlesExact ==
  ASSUME TaskTypes, ChainsExact, NEW t \in Tasks, NEW h \in AllChains,
         h # <<>>, Head(h) = t, Settles(t)
  PROVE  ChainsExact'
<1> DEFINE S(s) == Shorter(s, t)
           back(s, i) == IF s = h THEN i + 1 ELSE i
<1>1. AllChains \subseteq Seq(Tasks)
  BY DEF AllChains, TaskTypes
<1>2. \A s \in AllChains : Len(s) \in Nat /\ Len(S(s)) \in Nat
  <2>1. \A s \in AllChains : S(s) \in Seq(Tasks)
    BY <1>1, ShorterSeq
  <2>2. QED
    BY <1>1, <2>1
<1>3. ASSUME NEW s \in AllChains, NEW i \in 1..Len(S(s))
      PROVE  /\ back(s, i) \in 1..Len(s)
             /\ S(s)[i] = s[back(s, i)]
             /\ s[back(s, i)] # t
  <2>1. CASE s = h
    BY <1>2, <2>1, Shortened
  <2>2. CASE s # h
    BY <1>2, <2>2, Shortened
  <2>3. QED
    BY <2>1, <2>2
<1>4. /\ task' = [task EXCEPT ![t] = "out"]
      /\ chain' = S(chain)
      /\ orphans' = {S(s) : s \in orphans} \ {<<>>}
  BY DEF Settles
<1>5. chain \in AllChains /\ \A s \in orphans : s \in AllChains
  BY DEF AllChains
<1>6. \A r \in AllChains' : \E s \in AllChains : r = S(s)
  BY <1>4, <1>5 DEF AllChains
<1>7. \A s \in AllChains : S(s) # <<>> => S(s) \in AllChains'
  BY <1>4 DEF AllChains
<1>8. ASSUME NEW r \in AllChains, NEW s \in AllChains,
             NEW i \in 1..Len(S(r)), NEW k \in 1..Len(S(s)), S(r)[i] = S(s)[k]
      PROVE  r = s /\ i = k
  <2>1. r[back(r, i)] = s[back(s, k)]
    BY <1>3, <1>8
  <2>2. back(r, i) \in 1..Len(r) /\ back(s, k) \in 1..Len(s)
    BY <1>3
  <2>3. r = s /\ back(r, i) = back(s, k)
    BY <2>1, <2>2 DEF ChainsExact
  <2>4. QED
    BY <1>2, <2>3
<1>9. \A r \in orphans' : r # <<>> /\ r # chain'
  <2>1. SUFFICES ASSUME NEW s \in orphans, S(s) # <<>>, S(s) = S(chain)
                 PROVE  FALSE
    BY <1>4
  <2>2. S(s) \in Seq(Tasks)
    BY <1>1, <1>5, ShorterSeq
  <2>3. 1 \in 1..Len(S(s)) /\ 1 \in 1..Len(S(chain))
    BY <2>1, <2>2
  <2>4. s = chain
    BY <1>5, <1>8, <2>1, <2>3
  <2>5. QED
    BY <2>4 DEF ChainsExact
<1>10. \A r, s \in AllChains' : \A i \in 1..Len(r), k \in 1..Len(s) :
         r[i] = s[k] => r = s /\ i = k
  BY <1>6, <1>8
<1>11. ASSUME NEW s \in AllChains, NEW i \in 1..Len(S(s))
       PROVE  task'[S(s)[i]] # "out" /\ (i > 1 => task'[S(s)[i]] = "queued")
  <2>1. s[back(s, i)] \in Tasks
    BY <1>1, <1>3
  <2>2. task'[S(s)[i]] = task[s[back(s, i)]]
    BY <1>3, <1>4, <2>1 DEF TaskTypes
  <2>3. i > 1 => back(s, i) > 1
    BY <1>2
  <2>4. QED
    BY <1>3, <2>2, <2>3 DEF ChainsExact
<1>12. \A s \in AllChains' : \A i \in 1..Len(s) :
         task'[s[i]] # "out" /\ (i > 1 => task'[s[i]] = "queued")
  BY <1>6, <1>11
<1>13. ASSUME NEW u \in Tasks, task'[u] # "out"
       PROVE  \E s \in AllChains' : \E i \in 1..Len(s) : s[i] = u
  <2>1. u # t /\ task[u] # "out"
    BY <1>4, <1>13 DEF TaskTypes
  <2>2. PICK s \in AllChains : \E i \in 1..Len(s) : s[i] = u
    BY <2>1 DEF ChainsExact
  <2>3. PICK i \in 1..Len(s) : s[i] = u
    BY <2>2
  <2>4. \E k \in 1..Len(S(s)) : S(s)[k] = u
    <3>1. CASE s # h
      BY <2>3, <3>1, Shortened
    <3>2. CASE s = h
      <4>1. i # 1
        BY <1>1, <2>1, <2>3, <3>2
      <4>2. i - 1 \in 1..Len(S(s))
        BY <1>2, <3>2, <4>1, Shortened
      <4>3. S(s)[i - 1] = u
        BY <2>3, <3>2, <4>2, Shortened
      <4>4. QED
        BY <4>2, <4>3
    <3>3. QED
      BY <3>1, <3>2
  <2>5. S(s) # <<>>
    BY <2>4
  <2>6. QED
    BY <1>7, <2>4, <2>5
<1>14. QED
  BY <1>9, <1>10, <1>12, <1>13 DEF ChainsExact

(* A task that has begun heads its chain.                                  *)
LEMMA HeadsChain ==
  ASSUME TaskTypes, ChainsExact, NEW t \in Tasks,
         Turn(t) \/ task[t] \in {"reopening", "running"}
  PROVE  \E h \in AllChains : h # <<>> /\ Head(h) = t
<1>1. CASE Turn(t)
  BY <1>1 DEF Turn, AllChains
<1>2. CASE task[t] \in {"reopening", "running"}
  <2>1. PICK h \in AllChains : \E i \in 1..Len(h) : h[i] = t
    BY <1>2 DEF ChainsExact
  <2>2. PICK i \in 1..Len(h) : h[i] = t
    BY <2>1
  <2>3. h \in Seq(Tasks)
    BY DEF TaskTypes, AllChains
  <2>4. i = 1
    BY <1>2, <2>2, <2>3 DEF ChainsExact
  <2>5. QED
    BY <2>2, <2>3, <2>4
<1>3. QED
  BY <1>1, <1>2

(* A task moves on while it stays at the head of its chain.                *)
LEMMA MovesExact ==
  ASSUME TaskTypes, ChainsExact, NEW t \in Tasks, NEW next \in {"reopening", "running"},
         Turn(t) \/ task[t] \in {"reopening", "running"},
         task[t] # "out",
         task' = [task EXCEPT ![t] = next], UNCHANGED <<chain, orphans>>
  PROVE  ChainsExact'
<1>1. PICK h \in AllChains : h # <<>> /\ Head(h) = t
  BY HeadsChain
<1>2. h \in Seq(Tasks) /\ 1 \in 1..Len(h) /\ h[1] = t
  BY <1>1 DEF TaskTypes, AllChains
<1>3. \A s \in AllChains : \A i \in 1..Len(s) : s[i] = t => i = 1
  BY <1>2 DEF ChainsExact
<1>4. AllChains' = AllChains
  BY DEF AllChains
<1>5. \A s \in AllChains : \A i \in 1..Len(s) :
        task'[s[i]] # "out" /\ (i > 1 => task'[s[i]] = "queued")
  <2>1. \A s \in AllChains : \A i \in 1..Len(s) : s[i] \in Tasks
    BY DEF TaskTypes, AllChains
  <2>2. TAKE s \in AllChains
  <2>3. TAKE i \in 1..Len(s)
  <2>4. CASE s[i] = t
    BY <1>3, <2>4 DEF TaskTypes
  <2>5. CASE s[i] # t
    <3>1. task'[s[i]] = task[s[i]]
      BY <2>1, <2>5 DEF TaskTypes
    <3>2. QED
      BY <3>1 DEF ChainsExact
  <2>6. QED
    BY <2>4, <2>5
<1>6. \A u \in Tasks : task'[u] # "out" => task[u] # "out"
  BY DEF TaskTypes
<1>7. QED
  BY <1>4, <1>5, <1>6 DEF ChainsExact

(* A new task goes to the end of the chain.                                *)
LEMMA AppendsExact ==
  ASSUME TaskTypes, ChainsExact, NEW t \in Tasks, RunOnMainClient(t)
  PROVE  ChainsExact'
<1>1. /\ task[t] = "out" /\ task' = [task EXCEPT ![t] = "queued"]
      /\ chain' = Append(chain, t) /\ orphans' = orphans
  BY DEF RunOnMainClient
<1>2. AllChains \subseteq Seq(Tasks) /\ chain \in AllChains
  BY DEF TaskTypes, AllChains
<1>3. /\ Len(chain') = Len(chain) + 1 /\ chain'[Len(chain) + 1] = t
      /\ \A i \in 1..Len(chain) : chain'[i] = chain[i]
  BY <1>1, <1>2
<1>4. \A s \in AllChains : \A i \in 1..Len(s) : s[i] # t /\ s[i] \in Tasks
  <2>1. \A s \in AllChains : \A i \in 1..Len(s) : s[i] # t
    BY <1>1 DEF ChainsExact
  <2>2. QED
    BY <1>2, <2>1
<1>5. \A s \in AllChains : \A i \in 1..Len(s) : task'[s[i]] = task[s[i]]
  BY <1>1, <1>4 DEF TaskTypes
<1>6. Len(chain) \in Nat
  BY <1>2
<1>7. \A s \in orphans : s # <<>> /\ s # chain'
  <2>1. TAKE s \in orphans
  <2>2. s \in AllChains /\ s # <<>>
    BY DEF AllChains, ChainsExact
  <2>3. Len(chain) + 1 \in 1..Len(chain')
    BY <1>3, <1>6
  <2>4. QED
    BY <1>3, <1>4, <2>2, <2>3
<1>8. ASSUME NEW s \in orphans
      PROVE  s \in AllChains /\ s # chain
  BY DEF AllChains, ChainsExact
<1>9. \A r, s \in AllChains' : \A i \in 1..Len(r), k \in 1..Len(s) :
        r[i] = s[k] => r = s /\ i = k
  <2>1. ASSUME NEW r \in orphans, NEW i \in 1..Len(r), NEW k \in 1..Len(chain'),
               r[i] = chain'[k]
        PROVE  FALSE
    <3>1. k # Len(chain) + 1
      BY <1>3, <1>4, <1>8, <2>1
    <3>2. k \in 1..Len(chain)
      BY <1>3, <1>6, <3>1
    <3>3. QED
      BY <1>2, <1>3, <1>8, <2>1, <3>2 DEF ChainsExact
  <2>2. ASSUME NEW i \in 1..Len(chain'), NEW k \in 1..Len(chain'), chain'[i] = chain'[k]
        PROVE  i = k
    <3>1. \A m \in 1..Len(chain') : m = Len(chain) + 1 \/ m \in 1..Len(chain)
      BY <1>3, <1>6
    <3>2. CASE i \in 1..Len(chain) /\ k \in 1..Len(chain)
      BY <1>2, <1>3, <2>2, <3>2 DEF ChainsExact
    <3>3. CASE i = Len(chain) + 1 /\ k \in 1..Len(chain)
      BY <1>2, <1>3, <1>4, <2>2, <3>3
    <3>4. CASE k = Len(chain) + 1 /\ i \in 1..Len(chain)
      BY <1>2, <1>3, <1>4, <2>2, <3>4
    <3>5. QED
      BY <3>1, <3>2, <3>3, <3>4
  <2>3. ASSUME NEW r \in orphans, NEW s \in orphans,
               NEW i \in 1..Len(r), NEW k \in 1..Len(s), r[i] = s[k]
        PROVE  r = s /\ i = k
    BY <1>8, <2>3 DEF ChainsExact
  <2>4. AllChains' = orphans \cup {chain'}
    BY <1>1 DEF AllChains
  <2>5. QED
    BY <2>1, <2>2, <2>3, <2>4
<1>10. \A s \in AllChains' : \A i \in 1..Len(s) :
         task'[s[i]] # "out" /\ (i > 1 => task'[s[i]] = "queued")
  <2>1. \A s \in AllChains : \A i \in 1..Len(s) :
          task'[s[i]] # "out" /\ (i > 1 => task'[s[i]] = "queued")
    BY <1>5 DEF ChainsExact
  <2>2. \A i \in 1..Len(chain') :
          task'[chain'[i]] # "out" /\ (i > 1 => task'[chain'[i]] = "queued")
    <3>1. TAKE i \in 1..Len(chain')
    <3>2. CASE i = Len(chain) + 1
      BY <1>1, <1>3, <3>2 DEF TaskTypes
    <3>3. CASE i \in 1..Len(chain)
      BY <1>2, <1>3, <2>1, <3>3
    <3>4. QED
      BY <1>3, <1>6, <3>2, <3>3
  <2>3. QED
    BY <1>1, <1>8, <2>1, <2>2 DEF AllChains
<1>11. \A u \in Tasks : task'[u] # "out" =>
         \E s \in AllChains' : \E i \in 1..Len(s) : s[i] = u
  <2>1. SUFFICES ASSUME NEW u \in Tasks, task'[u] # "out"
                 PROVE  \E s \in AllChains' : \E i \in 1..Len(s) : s[i] = u
    OBVIOUS
  <2>2. chain' \in AllChains'
    BY DEF AllChains
  <2>3. CASE u = t
    <3>1. Len(chain) + 1 \in 1..Len(chain')
      BY <1>3, <1>6
    <3>2. QED
      BY <1>3, <2>2, <2>3, <3>1
  <2>4. CASE u # t
    <3>1. task[u] # "out"
      BY <1>1, <2>1, <2>4 DEF TaskTypes
    <3>2. PICK s \in AllChains : \E i \in 1..Len(s) : s[i] = u
      BY <3>1 DEF ChainsExact
    <3>3. CASE s = chain
      <4>1. PICK i \in 1..Len(chain) : chain[i] = u
        BY <3>2, <3>3
      <4>2. i \in 1..Len(chain') /\ chain'[i] = u
        BY <1>3, <1>6, <4>1
      <4>3. QED
        BY <2>2, <4>2
    <3>4. CASE s # chain
      BY <1>1, <3>2, <3>4 DEF AllChains
    <3>5. QED
      BY <3>3, <3>4
  <2>5. QED
    BY <2>3, <2>4
<1>12. QED
  BY <1>1, <1>7, <1>9, <1>10, <1>11 DEF ChainsExact

(* connect() lets go of the chain it finds: no task changes its place.     *)
LEMMA OrphansExact ==
  ASSUME TaskTypes, ChainsExact, UNCHANGED task, chain' = <<>>,
         orphans' = orphans \cup ({chain} \ {<<>>})
  PROVE  ChainsExact'
<1>1. AllChains' \subseteq AllChains \cup {<<>>}
  BY DEF AllChains
<1>2. \A s \in AllChains : s \in AllChains' \/ s = <<>>
  BY DEF AllChains
<1>3. \A s \in orphans' : s # <<>> /\ s # chain'
  BY DEF ChainsExact
<1>4. \A r, s \in AllChains' : \A i \in 1..Len(r), k \in 1..Len(s) :
        r[i] = s[k] => r = s /\ i = k
  BY <1>1 DEF ChainsExact
<1>5. \A s \in AllChains' : \A i \in 1..Len(s) :
        task'[s[i]] # "out" /\ (i > 1 => task'[s[i]] = "queued")
  BY <1>1 DEF ChainsExact
<1>6. \A u \in Tasks : task'[u] # "out" =>
        \E s \in AllChains' : \E i \in 1..Len(s) : s[i] = u
  BY <1>2 DEF ChainsExact
<1>7. QED
  BY <1>3, <1>4, <1>5, <1>6 DEF ChainsExact

(* Every step keeps the chains exact.                                      *)
LEMMA ChainsStep ==
  ASSUME IInv, [Next]_registryVars
  PROVE  ChainsExact'
<1> TaskTypes /\ ChainsExact
  BY DEF IInv, TypeOK, MainTypeOK
<1>1. ASSUME NEW d \in Dials, StartLogin(d)
      PROVE  ChainsExact'
  BY <1>1, OrphansExact DEF StartLogin, Connect
<1>2. ASSUME UNCHANGED <<chain, orphans, task>>
      PROVE  ChainsExact'
  BY <1>2 DEF ChainsExact, AllChains
<1>3. ASSUME NEW d \in Dials, LoginEnds(d)
      PROVE  ChainsExact'
  BY <1>2, <1>3, LoginFrame DEF chains
<1>4. ASSUME EndSession \/ NetworkStep \/ UNCHANGED registryVars
      PROVE  ChainsExact'
  BY <1>2, <1>4 DEF EndSession, Disconnect, NetworkStep, ClosesSilently, LossHeard,
     chains, registryVars
<1>5. ASSUME NEW t \in Tasks, TaskStep(t)
      PROVE  ChainsExact'
  <2>1. CASE RunOnMainClient(t)
    BY <2>1, AppendsExact
  <2>2. CASE Settles(t) /\ (Turn(t) \/ task[t] \in {"reopening", "running"})
    BY <2>2, HeadsChain, SettlesExact
  <2>3. CASE TaskRuns(t) \/ TaskReopens(t)
    <3>1. Turn(t) /\ task[t] = "queued" /\ UNCHANGED <<chain, orphans>>
      BY <2>3 DEF TaskRuns, TaskReopens
    <3>2. \E next \in {"reopening", "running"} : task' = [task EXCEPT ![t] = next]
      BY <2>3 DEF TaskRuns, TaskReopens
    <3>3. QED
      BY <3>1, <3>2, MovesExact
  <2>4. CASE ReopenSucceeds(t) /\ ~Settles(t)
    <3>1. task[t] = "reopening" /\ UNCHANGED <<chain, orphans>>
      BY <2>4 DEF ReopenSucceeds
    <3>2. task' = [task EXCEPT ![t] = "running"]
      BY <2>4 DEF ReopenSucceeds
    <3>3. QED
      BY <3>1, <3>2, MovesExact
  <2>5. QED
    BY <1>5, <2>1, <2>2, <2>3, <2>4
       DEF TaskStep, TaskRejected, ReopenSucceeds, ReopenFails, TaskEnds
<1>6. QED
  BY <1>1, <1>3, <1>4, <1>5 DEF Next

-----------------------------------------------------------------------------
(* What holds in every state of every behaviour.                           *)

(* IInv is inductive.                                                      *)
THEOREM RegistryInvariant == Spec => []IInv
<1>1. RegistryInit => IInv
  BY InitIInv
<1>2. IInv /\ [Next]_registryVars => IInv'
  <2>1. SUFFICES ASSUME IInv, [Next]_registryVars PROVE IInv'
    OBVIOUS
  <2>2. TypeOK'
    BY <2>1, TypeStep DEF IInv
  <2>3. LoginTracked' /\ StatusHonest' /\ ChainsExact' /\ SecondLogins' /\ DialClients'
    BY <2>1, LoginsStep, StatusStep, ChainsStep, SecondStep, DialStep
  <2>4. QED
    BY <2>2, <2>3 DEF IInv
<1>3. QED
  BY <1>1, <1>2, PTL DEF Spec

(* The variables keep their types; a watched socket is an open one.        *)
THEOREM RegistryTypes == Spec => []TypeOK
<1>1. IInv => TypeOK
  BY DEF IInv
<1>2. QED
  BY <1>1, RegistryInvariant, PTL

(* connect() shares exactly the login whose answer counts                  *)
(* (ConnectionRegistry.connect, logins).                                   *)
THEOREM LoginsTracked == Spec => []LoginTracked
<1>1. IInv => LoginTracked
  BY DEF IInv
<1>2. QED
  BY <1>1, RegistryInvariant, PTL

(* The reported status, isConnected() and the login under way agree        *)
(* (FtpConnectionManager.setStatus and its callers).                       *)
THEOREM StatusAgrees == Spec => []StatusHonest
<1>1. IInv => StatusHonest
  BY DEF IInv
<1>2. QED
  BY <1>1, RegistryInvariant, PTL

(* The login that is shared and the status that is told agree in every     *)
(* state (ConnectionRegistry.connect, FtpConnectionManager.setStatus).     *)
THEOREM SessionStaysHonest == Spec => []SessionHonest
<1>1. IInv => SessionHonest
  BY DEF IInv, SessionHonest
<1>2. QED
  BY <1>1, RegistryInvariant, PTL

(* runOnMainClient() begins a task only when the one before it in its      *)
(* chain is over, however often the chain is replaced.                     *)
THEOREM TasksSerialised == Spec => []ChainSerialises
<1>1. IInv => ChainSerialises
  <2>1. SUFFICES ASSUME IInv, NEW s \in AllChains, NEW i \in 2..Len(s)
                 PROVE  task[s[i]] = "queued"
    BY DEF ChainSerialises
  <2>2. Len(s) \in Nat
    BY DEF IInv, TypeOK, MainTypeOK, TaskTypes, AllChains
  <2>3. i \in 1..Len(s) /\ i > 1
    BY <2>2
  <2>4. QED
    BY <2>1, <2>3 DEF IInv, ChainsExact
<1>2. QED
  BY <1>1, RegistryInvariant, PTL

(* After disconnect() the status changes by connect() only, whatever       *)
(* login, task or socket reports late (the generation checks of            *)
(* FtpConnectionManager).                                                  *)
THEOREM StaysDisconnected == Spec => NoResurrection
<1>1. IInv /\ [Next]_registryVars =>
        [status = "disconnected" /\ status' # status => status' = "connecting"]_registryVars
  <2>1. SUFFICES ASSUME IInv, [Next]_registryVars,
                        status = "disconnected", status' # status
                 PROVE  status' = "connecting"
    OBVIOUS
  <2>2. ~connected /\ login = NoLogin
    BY <2>1 DEF IInv, StatusHonest
  <2>3. ASSUME NEW d \in Dials, StartLogin(d)
        PROVE  status' = "connecting"
    BY <2>3 DEF StartLogin, Connect
  <2>4. ASSUME NEW d \in Dials, LoginEnds(d)
        PROVE  FALSE
    <3>1. dial[d] # "current"
      BY <2>1, <2>2, RegistryAssumption DEF IInv, LoginTracked
    <3>2. QED
      BY <2>1, <2>4, <3>1, LoginOutcomes DEF Commits, Refused, session
  <2>5. ASSUME EndSession
        PROVE  FALSE
    BY <2>1, <2>5 DEF EndSession, Disconnect
  <2>6. ASSUME NEW t \in Tasks, TaskStep(t)
        PROVE  FALSE
    <3>1. task[t] = "reopening" => ~SameGeneration(t)
      BY <2>1 DEF IInv, SecondLogins, SameGeneration, Reopening
    <3>2. QED
      BY <2>1, <2>6, <3>1 DEF TaskStep, RunOnMainClient, TaskRejected, TaskRuns, TaskReopens,
         ReopenSucceeds, ReopenFails, TaskEnds, Reports, session
  <2>7. ASSUME NetworkStep
        PROVE  FALSE
    BY <2>1, <2>2, <2>7 DEF NetworkStep, ClosesSilently, LossHeard, session
  <2>8. QED
    BY <2>1, <2>3, <2>4, <2>5, <2>6, <2>7 DEF Next, registryVars
<1>2. QED
  BY <1>1, RegistryInvariant, PTL DEF Spec, NoResurrection

(* A caller of connect() never overtakes the login of another caller:      *)
(* disconnect() alone does (ConnectionRegistry.connect waits for it).      *)
THEOREM LoginsNotOvertaken == Spec => LoginsShared
<1>1. IInv /\ [Next]_registryVars =>
        [\A d \in Dials : dial[d] = "current" /\ dial'[d] = "stale"
           => status' = "disconnected"]_registryVars
  <2>1. SUFFICES ASSUME IInv, [Next]_registryVars, NEW e \in Dials,
                        dial[e] = "current", dial'[e] = "stale"
                 PROVE  status' = "disconnected"
    OBVIOUS
  <2>2. login = e /\ login # NoLogin
    BY <2>1, RegistryAssumption DEF IInv, LoginTracked
  <2>3. ASSUME NEW d \in Dials, StartLogin(d)
        PROVE  FALSE
    BY <2>2, <2>3 DEF StartLogin, MayLogIn
  <2>4. ASSUME NEW d \in Dials, LoginEnds(d)
        PROVE  FALSE
    BY <2>1, <2>4, LoginFrame DEF IInv, TypeOK, MainTypeOK, DialTypes
  <2>5. ASSUME EndSession
        PROVE  status' = "disconnected"
    BY <2>5 DEF EndSession, Disconnect
  <2>6. ASSUME (\E t \in Tasks : TaskStep(t)) \/ NetworkStep
        PROVE  FALSE
    BY <2>1, <2>6, DialsFramed
  <2>7. QED
    BY <2>1, <2>3, <2>4, <2>5, <2>6 DEF Next, registryVars
<1>2. QED
  BY <1>1, RegistryInvariant, PTL DEF Spec, LoginsShared

(* A task starts on a client of the present session that has logged in     *)
(* (runOnMainClient, reopenMainClient).                                    *)
THEOREM TasksStartOnSession == Spec => StartsOnSession
<1>1. IInv /\ [Next]_registryVars =>
        [\A t \in Tasks : task[t] # "running" /\ task'[t] = "running" =>
           /\ config /\ login = NoLogin
           /\ using'[t] = client' /\ client' \in watched \cup {using[t]}]_registryVars
  <2>1. SUFFICES ASSUME IInv, Next, NEW u \in Tasks,
                        task[u] # "running", task'[u] = "running"
                 PROVE  /\ config /\ login = NoLogin
                        /\ using'[u] = client' /\ client' \in watched \cup {using[u]}
    OBVIOUS
  <2>2. TaskTypes
    BY <2>1 DEF IInv, TypeOK, MainTypeOK
  <2>3. task' # task
    BY <2>1
  <2>4. PICK t \in Tasks : TaskStep(t)
    BY <2>1, <2>3, TasksFramed, LoginFrame DEF Next, chains
  <2>5. u = t /\ (TaskRuns(t) \/ ReopenSucceeds(t))
    BY <2>1, <2>2, <2>4 DEF TaskTypes, TaskStep, RunOnMainClient, TaskRejected, TaskRuns,
       TaskReopens, ReopenSucceeds, ReopenFails, TaskEnds, Settles
  <2>6. CASE TaskRuns(t)
    <3>1. connected /\ client \in open
      BY <2>6 DEF TaskRuns
    <3>2. config /\ client \in watched /\ status = "connected"
      BY <2>1, <3>1 DEF IInv, StatusHonest
    <3>3. login = NoLogin
      BY <2>1, <3>2 DEF IInv, StatusHonest
    <3>4. using'[u] = client'
      BY <2>2, <2>5, <2>6 DEF TaskRuns, TaskTypes
    <3>5. client' = client
      BY <2>6 DEF TaskRuns
    <3>6. QED
      BY <3>2, <3>3, <3>4, <3>5
  <2>7. CASE ReopenSucceeds(t)
    <3>1. SameGeneration(t) /\ client' = using[t] /\ UNCHANGED using
      BY <2>1, <2>2, <2>5, <2>7 DEF ReopenSucceeds, Settles, TaskTypes
    <3>2. config /\ login = NoLogin
      BY <2>1, <2>7, <3>1 DEF ReopenSucceeds, SameGeneration, IInv, SecondLogins, Reopening
    <3>3. QED
      BY <2>5, <3>1, <3>2
  <2>8. QED
    BY <2>5, <2>6, <2>7
<1>2. QED
  BY <1>1, RegistryInvariant, PTL DEF Spec, StartsOnSession

(* No step forgets an open socket, but a second login that takes over from *)
(* another one of its generation (connect, disconnect, reopenMainClient).  *)
THEOREM NoSocketForgotten == Spec => SocketsKept
<1>1. IInv /\ [Next]_registryVars =>
        [\A c \in open : Owned(c) /\ c \in open' /\ ~Owned(c)' =>
           \E t \in Reopening \ outdated : client = c /\ client' = using[t]]_registryVars
  <2>1. SUFFICES ASSUME IInv, Next, NEW c \in open, Owned(c), c \in open', ~Owned(c)'
                 PROVE  \E t \in Reopening \ outdated : client = c /\ client' = using[t]
    OBVIOUS
  <2> TaskTypes /\ DialTypes /\ DialClients
    BY <2>1 DEF IInv, TypeOK, MainTypeOK
  <2>2. /\ c # client'
        /\ \A t \in Reopening' : using'[t] # c
        /\ \A d \in Dials : dialClient'[d] # c
    BY <2>1 DEF Owned
  <2>3. ASSUME NEW d \in Dials, StartLogin(d)
        PROVE  FALSE
    <3>1. PICK f \in Fresh : /\ client' = f
                             /\ open' = (open \ {client}) \cup {f}
                             /\ dialClient' = [dialClient EXCEPT ![d] = f]
      BY <2>3 DEF StartLogin, Connect
    <3>2. UNCHANGED <<task, using>>
      BY <2>3, TasksFramed
    <3>3. dial[d] = "none"
      BY <2>3 DEF StartLogin, Connect
    <3>4. c # client
      BY <2>1, <2>2, <3>1
    <3>5. \A e \in Dials : dialClient[e] = c => e = d
      BY <2>2, <3>1 DEF DialTypes
    <3>6. dialClient[d] = NoClient
      BY <3>3 DEF DialClients
    <3>7. open \subseteq Clients
      BY <2>1 DEF IInv, TypeOK, MainTypeOK, SocketTypes
    <3>8. \A e \in Dials : dialClient[e] # c
      BY <3>5, <3>6, <3>7, MainClientAssumption
    <3>9. \A t \in Reopening : using[t] # c
      BY <2>2, <3>2 DEF Reopening
    <3>10. QED
      BY <2>1, <3>4, <3>8, <3>9 DEF Owned
  <2>4. ASSUME NEW d \in Dials, LoginEnds(d)
        PROVE  FALSE
    <3>1. UNCHANGED client /\ UNCHANGED <<task, using>>
      BY <2>4, LoginOutcomes, LoginFrame DEF Commits, sockets, chains
    <3>2. dialClient[d] = c
      BY <2>1, <2>2, <2>4, <3>1, LoginFrame DEF Owned, Reopening, DialTypes
    <3>3. dial[d] # "none"
      BY <3>2, <2>1, MainClientAssumption
         DEF DialClients, IInv, TypeOK, MainTypeOK, SocketTypes
    <3>4. c = client \/ c \notin open
      BY <3>2, <3>3 DEF DialClients, DialTypes
    <3>5. QED
      BY <2>1, <2>2, <3>1, <3>4
  <2>5. ASSUME EndSession
        PROVE  FALSE
    BY <2>1, <2>2, <2>5 DEF EndSession, Disconnect, Owned, Reopening
  <2>6. ASSUME NEW t \in Tasks, TaskStep(t)
        PROVE  \E u \in Reopening \ outdated : client = c /\ client' = using[u]
    <3>1. UNCHANGED dialClient
      BY <2>6, DialsFramed
    <3>2. CASE RunOnMainClient(t) \/ TaskRejected(t) \/ TaskRuns(t) \/ TaskEnds(t)
      <4>1. UNCHANGED client
        BY <3>2 DEF RunOnMainClient, TaskRejected, TaskRuns, TaskEnds, sockets
      <4>2. \A u \in Reopening : u \in Reopening' /\ using'[u] = using[u]
        BY <3>2 DEF Reopening, TaskTypes, RunOnMainClient, TaskRejected, TaskRuns, TaskEnds,
           Settles
      <4>3. QED
        BY <2>1, <2>2, <3>1, <4>1, <4>2 DEF Owned
    <3>3. CASE TaskReopens(t)
      <4>1. UNCHANGED client
        BY <3>3 DEF TaskReopens
      <4>2. \A u \in Reopening : u \in Reopening' /\ using'[u] = using[u]
        BY <3>3 DEF Reopening, TaskTypes, TaskReopens
      <4>3. QED
        BY <2>1, <2>2, <3>1, <4>1, <4>2 DEF Owned
    <3>4. CASE ReopenFails(t)
      <4>1. UNCHANGED client /\ c # using[t]
        BY <2>1, <3>4 DEF ReopenFails, Closed
      <4>2. \A u \in Reopening : u # t => u \in Reopening' /\ using'[u] = using[u]
        BY <3>4 DEF Reopening, TaskTypes, ReopenFails, Settles
      <4>3. QED
        BY <2>1, <2>2, <3>1, <4>1, <4>2 DEF Owned
    <3>5. CASE ReopenSucceeds(t) /\ ~SameGeneration(t)
      <4>1. UNCHANGED client /\ c # using[t] /\ Settles(t)
        BY <2>1, <3>5 DEF ReopenSucceeds, Closed
      <4>2. \A u \in Reopening : u # t => u \in Reopening' /\ using'[u] = using[u]
        BY <4>1 DEF Reopening, TaskTypes, Settles
      <4>3. QED
        BY <2>1, <2>2, <3>1, <4>1, <4>2 DEF Owned
    <3>6. CASE ReopenSucceeds(t) /\ SameGeneration(t)
      <4>1. t \in Reopening \ outdated /\ client' = using[t] /\ UNCHANGED using
        BY <3>6 DEF ReopenSucceeds, SameGeneration, Reopening
      <4>2. \A u \in Reopening : u # t => u \in Reopening'
        BY <3>6 DEF Reopening, TaskTypes, ReopenSucceeds, SameGeneration
      <4>3. c = client
        BY <2>1, <2>2, <3>1, <4>1, <4>2 DEF Owned
      <4>4. QED
        BY <4>1, <4>3
    <3>7. QED
      BY <2>6, <3>2, <3>3, <3>4, <3>5, <3>6 DEF TaskStep
  <2>7. ASSUME NetworkStep
        PROVE  FALSE
    <3>1. UNCHANGED <<client, dialClient, task, using>>
      BY <2>7, DialsFramed, TasksFramed DEF NetworkStep, ClosesSilently, LossHeard
    <3>2. QED
      BY <2>1, <2>2, <3>1 DEF Owned, Reopening
  <2>8. QED
    BY <2>1, <2>3, <2>4, <2>5, <2>6, <2>7 DEF Next
<1>2. QED
  BY <1>1, RegistryInvariant, PTL DEF Spec, SocketsKept

=============================================================================
