------------------------- MODULE TransferClientPool -------------------------
(***************************************************************************)
(* The pool of secondary FTP connections that carry transfers              *)
(* (src/main/transfer/TransferClientPool.ts).                              *)
(*                                                                         *)
(* A caller is one activation of the scheduler's run(): it asks for a      *)
(* client, may sleep inside acquire(), and answers by release/discard.     *)
(* The pool learns how many connections the server accepts: a refused      *)
(* login lowers limit, and limit grows again only through one probe login  *)
(* above it at a time.  The server, the network and the user's reconnects  *)
(* are the environment.                                                    *)
(*                                                                         *)
(* Time is abstracted to what the code asks of it: cooling is              *)
(* "now < nextProbeAt", recentClose is "now - lastClosedAt <               *)
(* RECENT_CLOSE_MS", cooldown counts the doublings of probeCooldown.       *)
(* Infinity as a limitCap is MaxTransfers, which never constrains.         *)
(***************************************************************************)
EXTENDS Integers, Sequences, FiniteSets, TLC

CONSTANTS
  Callers,        \* concurrent activations of TransferQueue.run
  Clients,        \* identities of secondary clients, reused once forgotten
  NoClient,
  MaxTransfers,   \* largest maxTransfers a server configuration may hold
  DefaultTransfers, \* maxTransfers when there is no configuration
  MaxRefusals,    \* length of REFUSED_LOGIN_BACKOFF_MS
  MaxCooldown     \* doublings until MAX_PROBE_COOLDOWN_MS

ASSUME PoolAssumption ==
  /\ IsFiniteSet(Callers)
  /\ IsFiniteSet(Clients)
  /\ NoClient \notin Clients
  /\ MaxTransfers \in Nat \ {0}
  /\ DefaultTransfers \in 1..MaxTransfers
  /\ MaxRefusals \in Nat
  /\ MaxCooldown \in Nat

VARIABLES
  idle,          \* stack of clients waiting for reuse (last one first)
  inUse,         \* clients lent to a caller
  live,          \* clients whose control socket is open
  connecting,    \* the counter of unfinished logins
  limit,         \* _limit
  limitCap,
  mainFallback,
  probing,
  cooling,
  cooldown,
  replyLimited,
  recentClose,
  idleTimer,     \* the idle-close timer is armed
  phase,         \* where each caller is inside acquire()/its job
  held,          \* the client each caller was given
  stale,         \* callers in acquire() since before the last generation bump
  prober,        \* callers whose login is the probe (local variable probe)
  sleepers,      \* callers whose sleep ends before the present cooldown
  refusals,      \* the refusals argument of each caller's acquire
  session,       \* the manager's session: "none", "up" or "lost"
  dialing,       \* manager.connect() is in flight
  configured     \* manager.getMaxTransfers()

sockets == <<idle, inUse, live, held>>
limits  == <<limit, limitCap, mainFallback, replyLimited>>
timers  == <<cooling, cooldown, sleepers>>
net     == <<session, dialing, configured>>
asking  == <<phase, stale, prober, refusals>>
vars == <<idle, inUse, live, connecting, limit, limitCap, mainFallback, probing,
          cooling, cooldown, replyLimited, recentClose, idleTimer, phase, held,
          stale, prober, sleepers, refusals, session, dialing, configured>>

Phases == {"out", "login", "refusedWait", "limitWait", "client", "main"}

Lesser(a, b)  == IF a <= b THEN a ELSE b
Greater(a, b) == IF a >= b THEN a ELSE b

(* openCount(): idle clients count even after the server closed them.      *)
Open == Len(idle) + Cardinality(inUse)
Ceiling == Lesser(configured, limitCap)
CanProbe == ~probing /\ limit < Ceiling /\ ~cooling
(* slots: how many jobs the scheduler may run together.                    *)
Slots == limit + (IF probing \/ CanProbe THEN 1 ELSE 0)
Running == {r \in Callers : phase[r] # "out"}
(* The callers the counter connecting stands for.                          *)
Waiting == {r \in Callers : phase[r] \in {"login", "refusedWait", "limitWait"}}
Probers == {r \in Callers : phase[r] = "login" /\ r \in prober}
IdleSet == {idle[i] : i \in 1..Len(idle)}

-----------------------------------------------------------------------------
(* limit, cooldown and generation helpers                                  *)

ResetLimit(max) ==
  /\ limit' = max
  /\ limitCap' = MaxTransfers
  /\ cooling' = FALSE
  /\ cooldown' = 0
  /\ sleepers' = {}
  /\ replyLimited' = FALSE
  /\ mainFallback' = FALSE

Asleep == {r \in Callers : phase[r] \in {"refusedWait", "limitWait"}}

(* Every sleep (at most 1000 ms) is shorter than every cooldown (at least   *)
(* 2000 ms), so who sleeps when a cooldown starts wakes before it ends.     *)
DelayProbe ==
  /\ cooling' = TRUE
  /\ sleepers' = IF cooling THEN sleepers ELSE Asleep'
  /\ cooldown' = IF cooling THEN cooldown ELSE Lesser(cooldown + 1, MaxCooldown)

(* acquire() of r resolves (or throws, p = "out") and forgets its locals.   *)
Answer(r, p) ==
  /\ phase' = [phase EXCEPT ![r] = p]
  /\ stale' = stale \ {r}
  /\ refusals' = [refusals EXCEPT ![r] = 0]

(* r sleeps inside acquire(), its slot still counted as connecting.        *)
Sleep(r, p) ==
  /\ phase' = [phase EXCEPT ![r] = p]
  /\ UNCHANGED <<stale, refusals>>

(* Connections open or being opened.  Fault: the logins are left out.      *)
AliveOpen(n) == Open
Alive(n) == Open + n

(* shrinkAfterLimitError, called by r with n other logins in flight.       *)
ShrinkAfterLimitError(r, n) ==
  LET alive == Alive(n) IN
  \/ /\ alive > 0
     /\ limit' = Greater(1, Lesser(limit, alive))
     /\ limitCap' = limit'
     /\ Answer(r, "out")
     /\ UNCHANGED mainFallback
  \/ /\ alive = 0
     /\ limit' = 1
     /\ limitCap' = 1
     /\ mainFallback' = TRUE
     /\ Answer(r, "main")

(* Fault: the clients lent to callers are forgotten, but not closed.       *)
CloseIdle ==
  /\ idle' = <<>>
  /\ inUse' = {}
  /\ live' = live \ IdleSet
  /\ recentClose' = (recentClose \/ idle # <<>>)
  /\ idleTimer' = FALSE
CloseAll ==
  /\ idle' = <<>>
  /\ inUse' = {}
  /\ live' = {}
  /\ recentClose' = (recentClose \/ idle # <<>> \/ inUse # {})
  /\ idleTimer' = FALSE

(* What a generation bump does: close every client, forget the limits.     *)
Invalidate(max) ==
  /\ CloseAll
  /\ stale' = Waiting
  /\ ResetLimit(max)

-----------------------------------------------------------------------------
(* acquire(): the synchronous part, run when the caller asks and again     *)
(* after each sleep inside it.  n is connecting without this caller.       *)

UseMain(r, n) ==
  /\ mainFallback
  /\ Answer(r, "main")
  /\ connecting' = n
  /\ UNCHANGED <<sockets, probing, prober>>

(* The stack below its i-th client.                                         *)
Popped(i) == SubSeq(idle, 1, i - 1)
LiveIdle == {i \in 1..Len(idle) : idle[i] \in live}

TakeIdle(r, n) ==
  /\ ~mainFallback
  /\ \E i \in LiveIdle :
       /\ \A k \in LiveIdle : k <= i
       /\ idle' = Popped(i)
       /\ inUse' = inUse \cup {idle[i]}
       /\ held' = [held EXCEPT ![r] = idle[i]]
  /\ Answer(r, "client")
  /\ connecting' = n
  /\ UNCHANGED <<live, probing, prober>>

(* All idle clients turned out closed and were dropped: open is inUse.     *)
(* Fault: one login more than limit passes for an ordinary one.            *)
IsProbeLate(n) ==
  Cardinality(inUse) + n - (IF probing THEN 1 ELSE 0) > limit
IsProbe(n) ==
  Cardinality(inUse) + n - (IF probing THEN 1 ELSE 0) >= limit

AtLimit(r, n) ==
  /\ ~mainFallback /\ LiveIdle = {}
  /\ IsProbe(n) /\ ~CanProbe
  /\ idle' = <<>>
  /\ Answer(r, "out")
  /\ connecting' = n
  /\ UNCHANGED <<inUse, live, held, probing, prober>>

BeginLogin(r, n, refused) ==
  /\ ~mainFallback /\ LiveIdle = {}
  /\ IsProbe(n) => CanProbe
  /\ idle' = <<>>
  /\ phase' = [phase EXCEPT ![r] = "login"]
  /\ connecting' = n + 1
  /\ probing' = (probing \/ IsProbe(n))
  /\ prober' = IF IsProbe(n) THEN {r} ELSE prober
  /\ refusals' = [refusals EXCEPT ![r] = refused]
  /\ UNCHANGED <<inUse, live, held, stale>>

Ask(r, n, refused) ==
  /\ idleTimer' = FALSE
  /\ UseMain(r, n) \/ TakeIdle(r, n) \/ AtLimit(r, n) \/ BeginLogin(r, n, refused)
  /\ sleepers' = sleepers \ {r}
  /\ UNCHANGED <<limits, cooling, cooldown, recentClose, net>>

(* The scheduler starts an item only while running < slots (pump).         *)
Acquire(r) ==
  /\ phase[r] = "out"
  /\ Cardinality(Running) < Slots
  /\ Ask(r, connecting, 0)

(* A sleep inside acquire ends: ask again, or throw if the generation      *)
(* changed meanwhile.                                                      *)
WakeUp(r) ==
  /\ phase[r] \in {"refusedWait", "limitWait"}
  /\ \/ /\ r \notin stale
        /\ Ask(r, connecting - 1, IF phase[r] = "refusedWait" THEN refusals[r] + 1 ELSE 0)
     \/ /\ r \in stale
        /\ Answer(r, "out")
        /\ connecting' = connecting - 1
        /\ sleepers' = sleepers \ {r}
        /\ UNCHANGED <<sockets, limits, cooling, cooldown, recentClose, idleTimer,
                       probing, prober, net>>

-----------------------------------------------------------------------------
(* The login answers.                                                      *)

LoginLands(r) ==
  /\ phase[r] = "login"
  /\ probing' = (probing /\ r \notin prober)
  /\ prober' = prober \ {r}

(* createSecondaryClient needs a configuration: without one every login of *)
(* the current generation fails.                                           *)
LoginSucceeds(r) ==
  /\ LoginLands(r)
  /\ r \notin stale
  /\ session # "none"
  /\ connecting' = connecting - 1
  /\ \E c \in Clients :
       /\ c \notin live \cup IdleSet \cup inUse
       /\ \A s \in Callers : held[s] # c
       /\ inUse' = inUse \cup {c}
       /\ live' = live \cup {c}
       /\ held' = [held EXCEPT ![r] = c]
  /\ Answer(r, "client")
  /\ LET reached == Lesser(Ceiling, Open + 1) IN
       /\ limit' = Greater(limit, reached)
       /\ cooldown' = IF reached > limit /\ ~replyLimited THEN 0 ELSE cooldown
  /\ UNCHANGED <<idle, limitCap, mainFallback, replyLimited, cooling, sleepers,
                 recentClose, idleTimer, net>>

(* Fault: the slot of a login of an earlier generation is not given back.  *)
StaleLoginKeepsSlot(r) ==
  /\ LoginLands(r)
  /\ r \in stale
  /\ Answer(r, "out")
  /\ UNCHANGED <<sockets, limits, timers, connecting, recentClose, idleTimer, net>>

(* Fault: the failure is booked before the generation is compared.         *)
StaleLoginDelaysProbe(r) ==
  /\ LoginLands(r)
  /\ r \in stale
  /\ connecting' = connecting - 1
  /\ Answer(r, "out")
  /\ DelayProbe
  /\ UNCHANGED <<sockets, limits, recentClose, idleTimer, net>>

(* A login of an earlier generation lands: a success is closed on arrival, *)
(* and either way the caller sees an error.                                *)
StaleLoginLands(r) ==
  /\ LoginLands(r)
  /\ r \in stale
  /\ connecting' = connecting - 1
  /\ Answer(r, "out")
  /\ UNCHANGED <<sockets, limits, timers, recentClose, idleTimer, net>>

LoginFailed(r) ==
  /\ LoginLands(r)
  /\ r \notin stale
  /\ UNCHANGED <<sockets, replyLimited, recentClose, idleTimer, net>>

(* A wait is left in REFUSED_LOGIN_BACKOFF_MS.                             *)
WaitLeft(r) == refusals[r] < MaxRefusals

(* ECONNREFUSED, ECONNRESET, timeouts: the server took no login.           *)
LoginRefused(r) ==
  LET n == connecting - 1 IN
  /\ LoginFailed(r)
  /\ session # "none"
  /\ \/ /\ r \in prober \/ Open > 0 \/ n > 0
        /\ limit' = IF r \in prober \/ Open = 0 THEN limit ELSE Lesser(limit, Open)
        /\ Answer(r, "out")
        /\ connecting' = n
        /\ UNCHANGED <<limitCap, mainFallback>>
     \/ /\ r \notin prober /\ Open = 0 /\ n = 0
        /\ WaitLeft(r)
        /\ Sleep(r, "refusedWait")
        /\ connecting' = n + 1
        /\ UNCHANGED <<limit, limitCap, mainFallback>>
     \/ /\ r \notin prober /\ Open = 0 /\ n = 0
        /\ ~WaitLeft(r)
        /\ connecting' = n
        /\ \/ session = "up" /\ ShrinkAfterLimitError(r, n)
           \/ /\ session # "up"
              /\ Answer(r, "out")
              /\ UNCHANGED <<limit, limitCap, mainFallback>>
  /\ DelayProbe

(* The server may not have taken back the slot of a connection just closed. *)
(* Fault: every 421 with nothing open is put down to that.                 *)
AnySlotReturning(n) == Open + n = 0
SlotReturning(n) == Open + n = 0 /\ recentClose

(* 421, or 530 that speaks of the number of connections.                   *)
LoginOverLimit(r) ==
  LET n == connecting - 1 IN
  /\ LoginFailed(r)
  /\ session # "none"
  /\ \/ /\ SlotReturning(n)
        /\ limit' = 1
        /\ limitCap' = 1
        /\ Sleep(r, "limitWait")
        /\ connecting' = n + 1
        /\ UNCHANGED mainFallback
     \/ /\ ~SlotReturning(n)
        /\ connecting' = n
        /\ ShrinkAfterLimitError(r, n)
  /\ DelayProbe

(* Any other failure: 530 Login incorrect, or no configuration at all.     *)
LoginIncorrect(r) ==
  LET n == connecting - 1 IN
  /\ LoginFailed(r)
  /\ limit' = IF r \in prober THEN limit
              ELSE IF Open > 0 THEN Lesser(limit, Open)
              ELSE IF n > 0 THEN Lesser(limit, n) ELSE limit
  /\ Answer(r, "out")
  /\ connecting' = n
  /\ UNCHANGED <<limitCap, mainFallback>>
  /\ DelayProbe

-----------------------------------------------------------------------------
(* The caller gives its client back.                                       *)

Leave(r) ==
  /\ phase' = [phase EXCEPT ![r] = "out"]
  /\ held' = [held EXCEPT ![r] = NoClient]

CloseClient(c) ==
  /\ live' = live \ {c}
  /\ recentClose' = TRUE

Release(r) ==
  /\ phase[r] = "client"
  /\ Leave(r)
  /\ inUse' = inUse \ {held[r]}
  /\ \/ /\ held[r] \in inUse \cap live
        /\ idle' = Append(idle, held[r])
        /\ UNCHANGED <<live, recentClose>>
     \/ /\ held[r] \notin inUse \cap live
        /\ CloseClient(held[r])
        /\ UNCHANGED idle
  /\ UNCHANGED <<limits, timers, connecting, probing, idleTimer, stale, prober, refusals, net>>

(* The filter over idle: it changes nothing unless c is there.             *)
Without(c) ==
  IF c \in IdleSet THEN SelectSeq(idle, LAMBDA d : d # c) ELSE idle

(* discard: the client of a broken or cancelled transfer.                  *)
Discard(r) ==
  /\ phase[r] = "client"
  /\ Leave(r)
  /\ inUse' = inUse \ {held[r]}
  /\ idle' = Without(held[r])
  /\ CloseClient(held[r])
  /\ UNCHANGED <<limits, timers, connecting, probing, idleTimer, stale, prober, refusals, net>>

(* 425/421 as the reply to a transfer: with other pool connections around, *)
(* drop this one and lower the limit to their number.                      *)
ShrinkAfterLimitReply(r) ==
  LET others == Open - (IF held[r] \in inUse THEN 1 ELSE 0) + connecting IN
  /\ phase[r] = "client"
  /\ others > 0
  /\ Leave(r)
  /\ inUse' = inUse \ {held[r]}
  /\ idle' = Without(held[r])
  /\ CloseClient(held[r])
  /\ limit' = Lesser(limit, others)
  /\ replyLimited' = TRUE
  /\ DelayProbe
  /\ UNCHANGED <<limitCap, mainFallback, connecting, probing, idleTimer, stale, prober,
                 refusals, net>>

(* A job on the main client fallback ends; the pool holds nothing for it.  *)
MainJobEnds(r) ==
  /\ phase[r] = "main"
  /\ phase' = [phase EXCEPT ![r] = "out"]
  /\ UNCHANGED <<sockets, limits, timers, connecting, probing, recentClose, idleTimer,
                 stale, prober, refusals, net>>

-----------------------------------------------------------------------------
(* Timers, the server and the main session.                                *)

(* pump arms the timer once nothing runs.                                  *)
ArmIdleClose ==
  /\ Running = {}
  /\ ~idleTimer
  /\ idleTimer' = TRUE
  /\ UNCHANGED <<sockets, limits, timers, connecting, probing, recentClose, asking, net>>

IdleClose ==
  /\ idleTimer
  /\ idleTimer' = FALSE
  /\ idle' = <<>>
  /\ live' = live \ IdleSet
  /\ recentClose' = (recentClose \/ idle # <<>>)
  /\ IF Cardinality(inUse) + connecting = 0
     THEN ResetLimit(configured)
     ELSE UNCHANGED <<limits, timers>>
  /\ UNCHANGED <<inUse, held, connecting, probing, asking, net>>

CooldownEnds ==
  /\ cooling
  /\ sleepers = {}
  /\ cooling' = FALSE
  /\ UNCHANGED <<sockets, limits, cooldown, sleepers, connecting, probing, recentClose, idleTimer,
                 asking, net>>

RecentCloseEnds ==
  /\ recentClose
  /\ recentClose' = FALSE
  /\ UNCHANGED <<sockets, limits, timers, connecting, probing, idleTimer, asking, net>>

(* The server, a timeout or a cancel closes a client's socket.             *)
ClientDies(c) ==
  /\ c \in live
  /\ live' = live \ {c}
  /\ UNCHANGED <<idle, inUse, held, limits, timers, connecting, probing, recentClose,
                 idleTimer, asking, net>>

(* Without a configuration createSecondaryClient rejects at once: such a    *)
(* login is answered before any event of the main session.                 *)
NoDoomedLogin ==
  session = "none" => \A r \in Callers : phase[r] = "login" => r \in stale

(* connect(): the pool hears 'connecting'.                                 *)
Dial ==
  /\ ~dialing /\ NoDoomedLogin
  /\ dialing' = TRUE
  /\ Invalidate(configured)
  /\ UNCHANGED <<held, connecting, probing, phase, prober, refusals, session, configured>>

DialSucceeds ==
  /\ dialing /\ NoDoomedLogin
  /\ dialing' = FALSE
  /\ session' = "up"
  /\ configured' \in 1..MaxTransfers
  /\ ResetLimit(configured')
  /\ UNCHANGED <<sockets, connecting, probing, recentClose, idleTimer, asking>>

(* The login of connect() fails, or the main connection is lost: status    *)
(* 'error', which the pool ignores.                                        *)
SessionLost ==
  /\ dialing \/ session = "up"
  /\ NoDoomedLogin
  /\ dialing' = FALSE
  /\ session' = IF session = "none" THEN "none" ELSE "lost"
  /\ UNCHANGED <<sockets, limits, timers, connecting, probing, recentClose, idleTimer,
                 asking, configured>>

Disconnect ==
  /\ session # "none" \/ dialing
  /\ NoDoomedLogin
  /\ session' = "none"
  /\ dialing' = FALSE
  /\ configured' = DefaultTransfers
  /\ Invalidate(DefaultTransfers)
  /\ UNCHANGED <<held, connecting, probing, phase, prober, refusals>>

-----------------------------------------------------------------------------
Init ==
  /\ idle = <<>> /\ inUse = {} /\ live = {}
  /\ held = [r \in Callers |-> NoClient]
  /\ connecting = 0
  /\ limit = DefaultTransfers /\ limitCap = MaxTransfers
  /\ mainFallback = FALSE /\ replyLimited = FALSE
  /\ probing = FALSE /\ cooling = FALSE /\ cooldown = 0
  /\ recentClose = FALSE /\ idleTimer = FALSE
  /\ phase = [r \in Callers |-> "out"]
  /\ stale = {} /\ prober = {} /\ sleepers = {}
  /\ refusals = [r \in Callers |-> 0]
  /\ session = "none" /\ dialing = FALSE
  /\ configured = DefaultTransfers

LoginAnswered(r) ==
  \/ LoginSucceeds(r) \/ StaleLoginLands(r)
  \/ LoginRefused(r) \/ LoginOverLimit(r) \/ LoginIncorrect(r)

CallerStep(r) ==
  \/ Acquire(r) \/ WakeUp(r) \/ LoginAnswered(r)
  \/ Release(r) \/ Discard(r) \/ ShrinkAfterLimitReply(r) \/ MainJobEnds(r)

Next ==
  \/ \E r \in Callers : CallerStep(r)
  \/ ArmIdleClose \/ IdleClose \/ CooldownEnds \/ RecentCloseEnds
  \/ \E c \in Clients : ClientDies(c)
  \/ Dial \/ DialSucceeds \/ SessionLost \/ Disconnect

Spec == Init /\ [][Next]_vars

(* A login ends by its timeout at the latest, and the timers of the pool    *)
(* and of RECENT_CLOSE_MS fire.                                            *)
Fairness ==
  /\ \A r \in Callers : WF_vars(LoginAnswered(r)) /\ WF_vars(WakeUp(r))
  /\ WF_vars(RecentCloseEnds)

FairSpec == Spec /\ Fairness

-----------------------------------------------------------------------------
SocketTypes ==
  /\ idle \in Seq(Clients)
  /\ inUse \in SUBSET Clients
  /\ live \in SUBSET Clients
  /\ held \in [Callers -> Clients \cup {NoClient}]

CallerTypes ==
  /\ phase \in [Callers -> Phases]
  /\ refusals \in [Callers -> 0..MaxRefusals]
  /\ connecting \in Nat
  /\ stale \in SUBSET Waiting
  /\ prober \in SUBSET Callers
  /\ sleepers \in SUBSET Asleep

LimitTypes ==
  /\ limit \in Nat
  /\ limitCap \in Nat
  /\ cooldown \in 0..MaxCooldown

FlagTypes ==
  /\ mainFallback \in BOOLEAN
  /\ replyLimited \in BOOLEAN
  /\ probing \in BOOLEAN
  /\ cooling \in BOOLEAN
  /\ recentClose \in BOOLEAN
  /\ idleTimer \in BOOLEAN

SessionTypes ==
  /\ session \in {"none", "up", "lost"}
  /\ dialing \in BOOLEAN
  /\ configured \in 1..MaxTransfers

TypeOK == SocketTypes /\ CallerTypes /\ LimitTypes /\ FlagTypes /\ SessionTypes

(* limit never reaches zero, which would stop the queue for good, and never *)
(* exceeds the configured number of transfers or the cap the server set,    *)
(* whatever order logins, replies, reconnects and idle closes come in.      *)
LimitInRange == 1 <= limit /\ limit <= Ceiling

(* The counter connecting is exact across sleeps, reconnects and failures:  *)
(* it is the number of callers inside a login or a sleep.                   *)
ConnectingCounted == connecting = Cardinality(Waiting)

(* There is at most one probe login, and probing says whether there is one  *)
(* even when a reconnect makes it stale.                                    *)
ProbeTracked ==
  /\ prober = Probers
  /\ probing = (prober # {})
  /\ \A r, s \in prober : r = s

(* What acquire() decides by, limit, connecting and probing, is right when  *)
(* it decides, and of its type: no login waits past the last entry of       *)
(* REFUSED_LOGIN_BACKOFF_MS.                                                *)
CountersExact == TypeOK /\ LimitInRange /\ ConnectingCounted /\ ProbeTracked

(* No client serves two callers, waits in idle twice, or waits there while  *)
(* a caller holds it; every client the pool counts as lent has a holder.    *)
LeasesExclusive ==
  /\ \A r, s \in Callers : held[r] = held[s] /\ held[r] # NoClient => r = s
  /\ \A r \in Callers : (held[r] # NoClient) = (phase[r] = "client")
  /\ \A i, k \in 1..Len(idle) : idle[i] = idle[k] => i = k
  /\ \A r \in Callers : held[r] \notin IdleSet
  /\ \A c \in inUse : \E r \in Callers : held[r] = c

(* No control connection is leaked: every open socket is one the pool lists *)
(* as idle or lent, so closeAll and the idle close reach it.                *)
NoLeak == live \subseteq IdleSet \cup inUse

(* Each control connection is in one place: with one caller, or idle, or    *)
(* closed (release(), discard(), closeAll() and the idle timer).            *)
ClientsInOnePlace == LeasesExclusive /\ NoLeak

(* A caller is sent to the main client only while no pool connection exists *)
(* or can come to exist: the logins still under way are of an old session.  *)
FallbackExclusive ==
  mainFallback => idle = <<>> /\ inUse = {} /\ Waiting \subseteq stale

(* A login is begun within limit, counting the clients lent and every other *)
(* login or sleep of acquire() but the probe's, or it is the probe: the     *)
(* only one, after the cooldown, and towards a limit the server may allow.  *)
LoginsWithinLimit ==
  [][\A r \in Callers : phase[r] # "login" /\ phase'[r] = "login" =>
       \/ /\ r \notin prober'
          /\ Cardinality(inUse') + Cardinality((Waiting \ prober)') <= limit'
       \/ /\ prober = {} /\ prober' = {r}
          /\ ~cooling /\ limit < Ceiling]_vars

(* The upper bound of transfer connections is the configured maxTransfers:  *)
(* no login is begun that gives the current session more than that.         *)
LoginsWithinConfigured ==
  [][\A r \in Callers : phase[r] # "login" /\ phase'[r] = "login"
       => Cardinality(inUse') + Cardinality((Waiting \ stale)') <= configured]_vars

(* A login that answers after a reconnect leaves the new session's limits,  *)
(* cooldown and clients alone.                                              *)
StaleAnswersHarmless ==
  [][\A r \in stale : phase[r] = "login" /\ phase'[r] = "out"
       => UNCHANGED <<sockets, limits, timers>>]_vars

(* The header's promise on a 421: the limit becomes the number of           *)
(* connections open or being opened, and that number is the cap until the   *)
(* next reconnect or idle close.  So a cap just learnt is never below what  *)
(* the present session holds within its configuration.                      *)
CapCoversHeld ==
  [][limitCap' < limitCap /\ ~mainFallback'
       => limitCap' >= Lesser(configured, Cardinality(inUse') + Cardinality((Waiting \ stale)'))]_vars

(* acquire() always comes to an end: the retries inside it, their sleeps    *)
(* and reconnects meanwhile never keep a job's slot for good.              *)
EveryAskAnswered ==
  \A r \in Callers : r \in Waiting ~> r \notin Waiting

(* The bound on login retries after refusals, as far as it is inductive.    *)
RefusalsBounded ==
  \A r \in Callers : phase[r] = "refusedWait" => refusals[r] < MaxRefusals

(* The inductive invariant.                                                 *)
IInv ==
  /\ TypeOK
  /\ LimitInRange
  /\ ConnectingCounted
  /\ ProbeTracked
  /\ LeasesExclusive
  /\ NoLeak
  /\ FallbackExclusive
  /\ RefusalsBounded

(* For TLC's safety runs: callers, and clients, differ in their names only. *)
Symmetry == Permutations(Callers) \cup Permutations(Clients)
=============================================================================
