---------------------- MODULE TransferClientPoolProofs ----------------------
(***************************************************************************)
(* Proofs that the inductive invariant IInv of TransferClientPool holds    *)
(* for every set of callers and clients, every configured maximum and      *)
(* every number of login retries.                                          *)
(***************************************************************************)
EXTENDS TransferClientPool, FiniteSetTheorems, SequenceTheorems, TLAPS

-----------------------------------------------------------------------------
(* Counting the callers that wait for a login.                             *)

(* Every subset of the callers, or of the clients, has a cardinality.      *)
LEMMA FiniteParts ==
  /\ \A S \in SUBSET Callers : IsFiniteSet(S) /\ Cardinality(S) \in Nat
  /\ \A S \in SUBSET Clients : IsFiniteSet(S) /\ Cardinality(S) \in Nat
BY PoolAssumption, FS_Subset, FS_CardinalityType

WaitPhases == {"login", "refusedWait", "limitWait"}

(* Moving one caller between phases changes the number of waiting callers   *)
(* by what the old and the new phase say.                                  *)
LEMMA WaitingMoves ==
  ASSUME CallerTypes, NEW r \in Callers, NEW p \in Phases,
         phase' = [phase EXCEPT ![r] = p]
  PROVE  /\ Cardinality(Waiting) \in Nat
         /\ phase[r] \in WaitPhases /\ p \notin WaitPhases
              => Cardinality(Waiting') = Cardinality(Waiting) - 1
         /\ phase[r] \notin WaitPhases /\ p \in WaitPhases
              => Cardinality(Waiting') = Cardinality(Waiting) + 1
         /\ (phase[r] \in WaitPhases <=> p \in WaitPhases)
              => Cardinality(Waiting') = Cardinality(Waiting)
<1>1. /\ Waiting \ {r} \in SUBSET Callers
      /\ Waiting \in SUBSET Callers
  BY DEF Waiting
<1>2. /\ IsFiniteSet(Waiting \ {r}) /\ Cardinality(Waiting \ {r}) \in Nat
      /\ IsFiniteSet(Waiting) /\ Cardinality(Waiting) \in Nat
  BY <1>1, FiniteParts
<1>3. Cardinality(Waiting \ {r}) =
        IF r \in Waiting THEN Cardinality(Waiting) - 1 ELSE Cardinality(Waiting)
  BY <1>2, FS_RemoveElement
<1>4. Cardinality((Waiting \ {r}) \cup {r}) = Cardinality(Waiting \ {r}) + 1
  BY <1>2, FS_AddElement
<1>5. r \in Waiting <=> phase[r] \in WaitPhases
  BY DEF Waiting, WaitPhases
<1>6. Waiting' = IF p \in WaitPhases THEN (Waiting \ {r}) \cup {r} ELSE Waiting \ {r}
  BY DEF Waiting, WaitPhases, CallerTypes
<1>7. QED
  BY <1>2, <1>3, <1>4, <1>5, <1>6

(* A caller that waits for a login is counted.                             *)
LEMMA WaitingCounted ==
  ASSUME ConnectingCounted, NEW r \in Waiting
  PROVE  connecting \in Nat /\ connecting >= 1
<1>1. IsFiniteSet(Waiting) /\ Cardinality(Waiting) \in Nat
  BY FiniteParts DEF Waiting
<1>2. Cardinality(Waiting) # 0
  BY <1>1, FS_EmptySet
<1>3. QED
  BY <1>1, <1>2 DEF ConnectingCounted

(* The number of open connections is a natural number, zero exactly when   *)
(* the pool lists none.                                                    *)
LEMMA OpenCounts ==
  ASSUME SocketTypes
  PROVE  /\ Len(idle) \in Nat /\ Cardinality(inUse) \in Nat /\ Open \in Nat
         /\ Open = 0 => idle = <<>> /\ inUse = {}
<1>1. IsFiniteSet(inUse) /\ Cardinality(inUse) \in Nat
  BY FiniteParts DEF SocketTypes
<1>2. Cardinality(inUse) = 0 => inUse = {}
  BY <1>1, FS_EmptySet
<1>3. Len(idle) \in Nat /\ (Len(idle) = 0 => idle = <<>>)
  BY DEF SocketTypes
<1>4. QED
  BY <1>1, <1>2, <1>3 DEF Open

-----------------------------------------------------------------------------
(* The pool as constructed satisfies the inductive invariant.              *)
LEMMA InitIInv == Init => IInv
<1> SUFFICES ASSUME Init PROVE IInv
  OBVIOUS
<1> USE PoolAssumption DEF Init
<1>1. Waiting = {}
  BY DEF Waiting
<1>2. TypeOK
  <2>1. SocketTypes
    BY DEF SocketTypes
  <2>2. CallerTypes
    BY DEF CallerTypes, Phases
  <2>3. LimitTypes
    BY DEF LimitTypes
  <2>4. SessionTypes
    BY DEF SessionTypes
  <2>5. FlagTypes
    BY DEF FlagTypes
  <2>6. QED
    BY <2>1, <2>2, <2>3, <2>4, <2>5 DEF TypeOK
<1>3. LimitInRange
  BY DEF LimitInRange, Ceiling, Lesser
<1>4. ConnectingCounted
  BY <1>1, FS_EmptySet DEF ConnectingCounted
<1>5. ProbeTracked
  BY DEF ProbeTracked, Probers
<1>6. LeasesExclusive
  BY DEF LeasesExclusive, IdleSet
<1>7. NoLeak /\ FallbackExclusive /\ RefusalsBounded
  BY DEF NoLeak, FallbackExclusive, RefusalsBounded
<1>8. QED
  BY <1>2, <1>3, <1>4, <1>5, <1>6, <1>7 DEF IInv

-----------------------------------------------------------------------------
(* Type correctness of the callers' part of the state.                     *)

(* acquire() resolving keeps the callers' types.                           *)
LEMMA AnswerTypes ==
  ASSUME CallerTypes, NEW r \in Callers, NEW p \in {"out", "client", "main"}, Answer(r, p),
         connecting' \in Nat, prober' \in SUBSET Callers,
         sleepers' \subseteq sleepers \/ sleepers' = Asleep',
         r \notin Asleep \/ r \notin sleepers'
  PROVE  CallerTypes'
BY PoolAssumption DEF Answer, CallerTypes, Phases, Waiting, Asleep

(* So does going to sleep inside it.                                       *)
LEMMA SleepTypes ==
  ASSUME CallerTypes, NEW r \in Callers, NEW p \in {"refusedWait", "limitWait"}, Sleep(r, p),
         connecting' \in Nat, prober' \in SUBSET Callers,
         sleepers' = sleepers \/ sleepers' = Asleep'
  PROVE  CallerTypes'
BY DEF Sleep, CallerTypes, Phases, Waiting, Asleep

(* acquire(), when the caller asks for the first time or again.            *)
LEMMA AskCallerTypes ==
  ASSUME CallerTypes, NEW r \in Callers, NEW n \in Nat, NEW k \in 0..MaxRefusals,
         r \notin stale, Ask(r, n, k)
  PROVE  CallerTypes'
<1>1. CASE UseMain(r, n)
  <2>1. connecting' \in Nat /\ prober' \in SUBSET Callers
    BY <1>1 DEF UseMain, CallerTypes
  <2>2. sleepers' \subseteq sleepers /\ r \notin sleepers'
    BY DEF Ask
  <2>3. QED
    BY <1>1, <2>1, <2>2, AnswerTypes DEF UseMain
<1>2. CASE TakeIdle(r, n)
  <2>1. connecting' \in Nat /\ prober' \in SUBSET Callers
    BY <1>2 DEF TakeIdle, Popped, CallerTypes
  <2>2. sleepers' \subseteq sleepers /\ r \notin sleepers'
    BY DEF Ask
  <2>3. QED
    BY <1>2, <2>1, <2>2, AnswerTypes DEF TakeIdle, Popped
<1>3. CASE AtLimit(r, n)
  <2>1. connecting' \in Nat /\ prober' \in SUBSET Callers
    BY <1>3 DEF AtLimit, CallerTypes
  <2>2. sleepers' \subseteq sleepers /\ r \notin sleepers'
    BY DEF Ask
  <2>3. QED
    BY <1>3, <2>1, <2>2, AnswerTypes DEF AtLimit
<1>4. CASE BeginLogin(r, n, k)
  <2>1. connecting' \in Nat /\ prober' \in SUBSET Callers
    BY <1>4 DEF BeginLogin, CallerTypes
  <2>2. sleepers' = sleepers \ {r}
    BY DEF Ask
  <2>3. QED
    BY <1>4, <2>1, <2>2 DEF BeginLogin, CallerTypes, Phases, Waiting, Asleep
<1>5. QED
  BY <1>1, <1>2, <1>3, <1>4 DEF Ask

(* The actions of a caller outside acquire() and of the environment.       *)
LEMMA CallerTypesStep ==
  ASSUME IInv, Next
  PROVE  CallerTypes'
<1> USE DEF IInv, TypeOK
<1>1. ASSUME NEW r \in Callers, Acquire(r) PROVE CallerTypes'
  <2>1. r \notin stale
    BY <1>1 DEF Acquire, CallerTypes, Waiting
  <2>2. QED
    BY <1>1, <2>1, AskCallerTypes, PoolAssumption DEF Acquire, CallerTypes
<1>2. ASSUME NEW r \in Callers, WakeUp(r) PROVE CallerTypes'
  <2>1. r \in Waiting /\ connecting - 1 \in Nat
    BY <1>2, WaitingCounted DEF WakeUp, Waiting
  <2>2. CASE r \notin stale
    <3>1. (IF phase[r] = "refusedWait" THEN refusals[r] + 1 ELSE 0) \in 0..MaxRefusals
      BY PoolAssumption DEF CallerTypes, RefusalsBounded
    <3>2. QED
      BY <1>2, <2>1, <2>2, <3>1, AskCallerTypes DEF WakeUp
  <2>3. CASE r \in stale
    <3>1. Answer(r, "out") /\ connecting' = connecting - 1 /\ prober' = prober
          /\ sleepers' = sleepers \ {r}
      BY <1>2, <2>3 DEF WakeUp
    <3>2. QED
      BY <2>1, <3>1, AnswerTypes DEF CallerTypes
  <2>4. QED
    BY <2>2, <2>3
<1>3. ASSUME NEW r \in Callers,
             LoginSucceeds(r) \/ StaleLoginLands(r) \/ LoginRefused(r)
             \/ LoginOverLimit(r) \/ LoginIncorrect(r)
      PROVE  CallerTypes'
  <2>1. r \in Waiting /\ phase[r] = "login" /\ prober' = prober \ {r}
    BY <1>3 DEF LoginSucceeds, StaleLoginLands, LoginRefused, WaitLeft, LoginOverLimit, SlotReturning,
                LoginIncorrect, LoginFailed, LoginLands, Waiting
  <2>2. connecting - 1 \in Nat /\ connecting \in Nat /\ prober' \in SUBSET Callers
    BY <2>1, WaitingCounted DEF CallerTypes
  <2>3. r \notin Asleep
    BY <2>1 DEF Asleep
  <2>4. sleepers' = sleepers \/ sleepers' = Asleep'
    BY <1>3 DEF LoginSucceeds, StaleLoginLands, LoginRefused, WaitLeft, LoginOverLimit, SlotReturning,
                LoginIncorrect, DelayProbe, timers
  <2>5. \/ /\ \E q \in {"out", "client", "main"} : Answer(r, q)
           /\ connecting' = connecting - 1
        \/ /\ \E q \in {"refusedWait", "limitWait"} : Sleep(r, q)
           /\ connecting' = connecting - 1 + 1
    BY <1>3 DEF LoginSucceeds, StaleLoginLands, LoginRefused, WaitLeft, LoginOverLimit, SlotReturning,
                LoginIncorrect, ShrinkAfterLimitError, Alive
  <2>6. QED
    BY <2>2, <2>3, <2>4, <2>5, AnswerTypes, SleepTypes
<1>4. ASSUME NEW r \in Callers,
             Release(r) \/ Discard(r) \/ ShrinkAfterLimitReply(r) \/ MainJobEnds(r)
      PROVE  CallerTypes'
  <2>1. /\ phase[r] \in {"client", "main"}
        /\ phase' = [phase EXCEPT ![r] = "out"]
        /\ UNCHANGED <<connecting, stale, prober, refusals>>
        /\ sleepers' = sleepers \/ sleepers' = Asleep'
    BY <1>4 DEF Release, Discard, ShrinkAfterLimitReply, MainJobEnds, Leave, DelayProbe, timers
  <2>2. QED
    BY <2>1 DEF CallerTypes, Phases, Waiting, Asleep
<1>5. CASE Dial \/ Disconnect
  <2>1. UNCHANGED <<connecting, phase, prober, refusals>> /\ stale' = Waiting /\ sleepers' = {}
    BY <1>5 DEF Dial, Disconnect, Invalidate, CloseAll, ResetLimit
  <2>2. QED
    BY <2>1 DEF CallerTypes, Waiting, Asleep
<1>6. ASSUME ArmIdleClose \/ IdleClose \/ CooldownEnds \/ RecentCloseEnds
             \/ (\E c \in Clients : ClientDies(c)) \/ DialSucceeds \/ SessionLost
      PROVE  CallerTypes'
  <2>1. UNCHANGED <<connecting, phase, prober, refusals, stale>>
        /\ (sleepers' = {} \/ sleepers' = sleepers)
    BY <1>6 DEF ArmIdleClose, IdleClose, CooldownEnds, RecentCloseEnds, ClientDies,
                DialSucceeds, SessionLost, ResetLimit, asking, timers
  <2>2. QED
    BY <2>1 DEF CallerTypes, Waiting, Asleep
<1>7. QED
  BY <1>1, <1>2, <1>3, <1>4, <1>5, <1>6 DEF Next, CallerStep, LoginAnswered

-----------------------------------------------------------------------------
(* The counter connecting.                                                 *)

(* Asking adds the caller to those counted exactly when it begins a login. *)
LEMMA AskCounted ==
  ASSUME CallerTypes, NEW r \in Callers, NEW n \in Nat, NEW k, Ask(r, n, k),
         phase[r] \in WaitPhases => n = Cardinality(Waiting) - 1,
         phase[r] \notin WaitPhases => n = Cardinality(Waiting)
  PROVE  ConnectingCounted'
<1>1. CASE UseMain(r, n) \/ TakeIdle(r, n) \/ AtLimit(r, n)
  <2>1. PICK q \in {"main", "client", "out"} : phase' = [phase EXCEPT ![r] = q]
    BY <1>1 DEF UseMain, TakeIdle, Popped, AtLimit, Answer
  <2>2. q \in Phases /\ q \notin WaitPhases /\ connecting' = n
    BY <1>1 DEF UseMain, TakeIdle, Popped, AtLimit, Phases, WaitPhases
  <2>3. Cardinality(Waiting') = n
    BY <2>1, <2>2, WaitingMoves
  <2>4. QED
    BY <2>2, <2>3 DEF ConnectingCounted
<1>2. CASE BeginLogin(r, n, k)
  <2>1. /\ connecting' = n + 1 /\ phase' = [phase EXCEPT ![r] = "login"]
        /\ "login" \in WaitPhases \cap Phases
    BY <1>2 DEF BeginLogin, WaitPhases, Phases
  <2>2. CASE phase[r] \in WaitPhases
    <3>1. Cardinality(Waiting) \in Nat /\ Cardinality(Waiting') = Cardinality(Waiting)
      BY <2>1, <2>2, WaitingMoves
    <3>2. QED
      BY <2>1, <2>2, <3>1 DEF ConnectingCounted
  <2>3. CASE phase[r] \notin WaitPhases
    <3>1. Cardinality(Waiting') = Cardinality(Waiting) + 1
      BY <2>1, <2>3, WaitingMoves
    <3>2. QED
      BY <2>1, <2>3, <3>1 DEF ConnectingCounted
  <2>4. QED
    BY <2>2, <2>3
<1>3. QED
  BY <1>1, <1>2 DEF Ask

(* Every step keeps the counter connecting equal to the callers it counts.  *)
LEMMA ConnectingCountedStep ==
  ASSUME IInv, Next
  PROVE  ConnectingCounted'
<1> USE DEF IInv, TypeOK
<1>1. ASSUME NEW r \in Callers, Acquire(r) PROVE ConnectingCounted'
  <2>1. Ask(r, connecting, 0) /\ connecting \in Nat /\ phase[r] = "out"
    BY <1>1 DEF Acquire, CallerTypes
  <2>2. phase[r] \notin WaitPhases /\ connecting = Cardinality(Waiting)
    BY <2>1 DEF ConnectingCounted, WaitPhases
  <2>3. QED
    BY <2>1, <2>2, AskCounted
<1>2. ASSUME NEW r \in Callers, WakeUp(r) PROVE ConnectingCounted'
  <2>1. r \in Waiting /\ phase[r] \in WaitPhases
    BY <1>2 DEF WakeUp, Waiting, WaitPhases
  <2>2. connecting - 1 \in Nat
        /\ connecting - 1 = Cardinality(Waiting) - 1
    BY <2>1, WaitingCounted DEF ConnectingCounted
  <2>3. CASE r \notin stale
    BY <1>2, <2>1, <2>2, <2>3, AskCounted DEF WakeUp
  <2>4. CASE r \in stale
    <3>1. connecting' = connecting - 1 /\ phase' = [phase EXCEPT ![r] = "out"]
      BY <1>2, <2>4 DEF WakeUp, Answer
    <3>2. Cardinality(Waiting') = Cardinality(Waiting) - 1
      BY <2>1, <3>1, WaitingMoves DEF WaitPhases, Phases
    <3>3. QED
      BY <2>1, <2>2, <3>1, <3>2 DEF ConnectingCounted
  <2>5. QED
    BY <2>3, <2>4
<1>3. ASSUME NEW r \in Callers,
             LoginSucceeds(r) \/ StaleLoginLands(r) \/ LoginRefused(r)
             \/ LoginOverLimit(r) \/ LoginIncorrect(r)
      PROVE  ConnectingCounted'
  <2>1. r \in Waiting /\ phase[r] = "login"
    BY <1>3 DEF LoginSucceeds, StaleLoginLands, LoginRefused, WaitLeft, LoginOverLimit, SlotReturning,
                LoginIncorrect, LoginFailed, LoginLands, Waiting
  <2>2. connecting \in Nat /\ connecting >= 1
    BY <2>1, WaitingCounted
  <2>3. \/ /\ \E q \in {"out", "client", "main"} : phase' = [phase EXCEPT ![r] = q]
           /\ connecting' = connecting - 1
        \/ /\ \E q \in {"refusedWait", "limitWait"} : phase' = [phase EXCEPT ![r] = q]
           /\ connecting' = connecting - 1 + 1
    BY <1>3 DEF LoginSucceeds, StaleLoginLands, LoginRefused, WaitLeft, LoginOverLimit, SlotReturning,
                LoginIncorrect, ShrinkAfterLimitError, Alive, Answer, Sleep
  <2>4. QED
    BY <2>1, <2>2, <2>3, WaitingMoves DEF ConnectingCounted, WaitPhases, Phases
<1>4. ASSUME NEW r \in Callers,
             Release(r) \/ Discard(r) \/ ShrinkAfterLimitReply(r) \/ MainJobEnds(r)
      PROVE  ConnectingCounted'
  <2>1. /\ phase[r] \in {"client", "main"} /\ connecting' = connecting
        /\ phase' = [phase EXCEPT ![r] = "out"]
    BY <1>4 DEF Release, Discard, ShrinkAfterLimitReply, MainJobEnds, Leave
  <2>2. Cardinality(Waiting') = Cardinality(Waiting)
    BY <2>1, WaitingMoves DEF WaitPhases, Phases
  <2>3. QED
    BY <2>1, <2>2 DEF ConnectingCounted
<1>5. ASSUME Dial \/ Disconnect \/ ArmIdleClose \/ IdleClose \/ CooldownEnds
             \/ RecentCloseEnds \/ (\E c \in Clients : ClientDies(c)) \/ DialSucceeds
             \/ SessionLost
      PROVE  ConnectingCounted'
  <2>1. UNCHANGED <<connecting, phase>>
    BY <1>5 DEF Dial, Disconnect, ArmIdleClose, IdleClose, CooldownEnds, RecentCloseEnds,
                ClientDies, DialSucceeds, SessionLost, asking
  <2>2. QED
    BY <2>1 DEF ConnectingCounted, Waiting
<1>6. QED
  BY <1>1, <1>2, <1>3, <1>4, <1>5 DEF Next, CallerStep, LoginAnswered

-----------------------------------------------------------------------------
(* The probe.                                                              *)

(* Asking starts a probe only when none is under way.                      *)
LEMMA AskProbeTracked ==
  ASSUME CallerTypes, FlagTypes, ProbeTracked, NEW r \in Callers, NEW n, NEW k,
         phase[r] # "login", Ask(r, n, k)
  PROVE  ProbeTracked' /\ probing' \in BOOLEAN
<1>1. r \notin prober
  BY DEF ProbeTracked, Probers
<1>2. CASE UseMain(r, n) \/ TakeIdle(r, n) \/ AtLimit(r, n)
  <2>1. UNCHANGED <<prober, probing>> /\ \E q \in {"main", "client", "out"} : phase' = [phase EXCEPT ![r] = q]
    BY <1>2 DEF UseMain, TakeIdle, Popped, AtLimit, Answer
  <2>2. QED
    BY <1>1, <2>1 DEF ProbeTracked, Probers, CallerTypes, FlagTypes
<1>3. CASE BeginLogin(r, n, k)
  <2>1. phase' = [phase EXCEPT ![r] = "login"]
    BY <1>3 DEF BeginLogin
  <2>2. CASE IsProbe(n)
    <3>1. prober' = {r} /\ probing' = TRUE /\ probing = FALSE
      BY <1>3, <2>2 DEF BeginLogin, CanProbe, FlagTypes
    <3>2. prober = {}
      BY <3>1 DEF ProbeTracked
    <3>3. QED
      BY <2>1, <3>1, <3>2 DEF ProbeTracked, Probers, CallerTypes, FlagTypes
  <2>3. CASE ~IsProbe(n)
    <3>1. UNCHANGED <<prober, probing>>
      BY <1>3, <2>3 DEF BeginLogin, FlagTypes
    <3>2. QED
      BY <1>1, <2>1, <3>1 DEF ProbeTracked, Probers, CallerTypes, FlagTypes
  <2>4. QED
    BY <2>2, <2>3
<1>4. QED
  BY <1>2, <1>3 DEF Ask

(* Every step keeps probing equal to "some login under way is the probe".   *)
LEMMA ProbeTrackedStep ==
  ASSUME IInv, Next
  PROVE  ProbeTracked' /\ probing' \in BOOLEAN
<1> USE DEF IInv, TypeOK
<1>1. ASSUME NEW r \in Callers, Acquire(r) PROVE ProbeTracked' /\ probing' \in BOOLEAN
  BY <1>1, AskProbeTracked DEF Acquire
<1>2. ASSUME NEW r \in Callers, WakeUp(r) PROVE ProbeTracked' /\ probing' \in BOOLEAN
  <2>1. CASE r \notin stale
    BY <1>2, <2>1, AskProbeTracked DEF WakeUp
  <2>2. CASE r \in stale
    <3>1. UNCHANGED <<prober, probing>> /\ phase' = [phase EXCEPT ![r] = "out"]
          /\ phase[r] # "login"
      BY <1>2, <2>2 DEF WakeUp, Answer
    <3>2. QED
      BY <3>1 DEF ProbeTracked, Probers, CallerTypes, FlagTypes
  <2>3. QED
    BY <2>1, <2>2
<1>3. ASSUME NEW r \in Callers,
             LoginSucceeds(r) \/ StaleLoginLands(r) \/ LoginRefused(r)
             \/ LoginOverLimit(r) \/ LoginIncorrect(r)
      PROVE  ProbeTracked' /\ probing' \in BOOLEAN
  <2>1. LoginLands(r)
    BY <1>3 DEF LoginSucceeds, StaleLoginLands, LoginRefused, WaitLeft, LoginOverLimit, SlotReturning,
                LoginIncorrect, LoginFailed
  <2>2. \E q \in Phases \ {"login"} : phase' = [phase EXCEPT ![r] = q]
    BY <1>3 DEF LoginSucceeds, StaleLoginLands, LoginRefused, WaitLeft, LoginOverLimit, SlotReturning,
                LoginIncorrect, ShrinkAfterLimitError, Alive, Answer, Sleep, Phases
  <2>3. Probers' = Probers \ {r}
    BY <2>1, <2>2 DEF LoginLands, Probers, CallerTypes
  <2>4. prober' = prober \ {r} /\ (\A s, t \in prober' : s = t)
    BY <2>1 DEF LoginLands, ProbeTracked
  <2>5. CASE r \in prober
    <3>1. prober' = {} /\ probing' = FALSE
      BY <2>1, <2>5 DEF LoginLands, ProbeTracked
    <3>2. QED
      BY <2>3, <2>4, <3>1 DEF ProbeTracked
  <2>6. CASE r \notin prober
    <3>1. prober' = prober /\ probing' = probing
      BY <2>1, <2>6 DEF LoginLands, FlagTypes
    <3>2. QED
      BY <2>3, <2>4, <3>1 DEF ProbeTracked, FlagTypes
  <2>7. QED
    BY <2>5, <2>6
<1>4. ASSUME NEW r \in Callers,
             Release(r) \/ Discard(r) \/ ShrinkAfterLimitReply(r) \/ MainJobEnds(r)
      PROVE  ProbeTracked' /\ probing' \in BOOLEAN
  <2>1. /\ phase[r] \in {"client", "main"} /\ UNCHANGED <<prober, probing>>
        /\ phase' = [phase EXCEPT ![r] = "out"]
    BY <1>4 DEF Release, Discard, ShrinkAfterLimitReply, MainJobEnds, Leave
  <2>2. QED
    BY <2>1 DEF ProbeTracked, Probers, CallerTypes, FlagTypes
<1>5. ASSUME Dial \/ Disconnect \/ ArmIdleClose \/ IdleClose \/ CooldownEnds
             \/ RecentCloseEnds \/ (\E c \in Clients : ClientDies(c)) \/ DialSucceeds
             \/ SessionLost
      PROVE  ProbeTracked' /\ probing' \in BOOLEAN
  <2>1. UNCHANGED <<prober, probing, phase>>
    BY <1>5 DEF Dial, Disconnect, ArmIdleClose, IdleClose, CooldownEnds, RecentCloseEnds,
                ClientDies, DialSucceeds, SessionLost, asking
  <2>2. QED
    BY <2>1 DEF ProbeTracked, Probers, FlagTypes
<1>6. QED
  BY <1>1, <1>2, <1>3, <1>4, <1>5 DEF Next, CallerStep, LoginAnswered

-----------------------------------------------------------------------------
(* limit, limitCap and the remaining types.                                *)

(* limit is at least one, at most the configured number and at most the     *)
(* cap, also inside the step that lowers both.                             *)
LEMMA LimitStep ==
  ASSUME IInv, Next
  PROVE  LimitTypes' /\ LimitInRange' /\ SessionTypes'
<1> USE PoolAssumption DEF IInv, TypeOK
<1>0. /\ limit \in Nat /\ limitCap \in Nat /\ cooldown \in 0..MaxCooldown
      /\ configured \in 1..MaxTransfers
      /\ 1 <= limit /\ limit <= configured /\ limit <= limitCap
  BY DEF LimitTypes, LimitInRange, SessionTypes, Ceiling, Lesser
<1>1. Len(idle) \in Nat /\ Cardinality(inUse) \in Nat /\ Open \in Nat
  BY OpenCounts
<1>2. ASSUME NEW r \in Callers,
             Acquire(r) \/ WakeUp(r) \/ StaleLoginLands(r) \/ Release(r) \/ Discard(r)
             \/ MainJobEnds(r)
      PROVE  LimitTypes' /\ LimitInRange' /\ SessionTypes'
  <2>1. UNCHANGED <<limit, limitCap, cooldown, configured, session, dialing>>
    BY <1>2 DEF Acquire, WakeUp, Ask, StaleLoginLands, Release, Discard, MainJobEnds,
                limits, timers, net
  <2>2. QED
    BY <2>1 DEF LimitTypes, LimitInRange, SessionTypes, Ceiling
<1>3. ASSUME NEW r \in Callers, LoginSucceeds(r)
      PROVE  LimitTypes' /\ LimitInRange' /\ SessionTypes'
  <2>1. /\ limit' = Greater(limit, Lesser(Ceiling, Open + 1))
        /\ cooldown' \in {0, cooldown}
        /\ UNCHANGED <<limitCap, configured, session, dialing>>
    BY <1>3 DEF LoginSucceeds, net
  <2>2. limit' \in Nat /\ limit <= limit' /\ limit' <= Ceiling
    BY <1>0, <1>1, <2>1 DEF Greater, Lesser, Ceiling
  <2>3. QED
    BY <1>0, <2>1, <2>2 DEF LimitTypes, LimitInRange, SessionTypes, Ceiling
<1>4. ASSUME NEW r \in Callers,
             LoginRefused(r) \/ LoginOverLimit(r) \/ LoginIncorrect(r)
      PROVE  LimitTypes' /\ LimitInRange' /\ SessionTypes'
  <2>1. r \in Waiting
    BY <1>4 DEF LoginRefused, WaitLeft, LoginOverLimit, SlotReturning, LoginIncorrect, LoginFailed, LoginLands, Waiting
  <2>2. connecting - 1 \in Nat
    BY <2>1, WaitingCounted
  <2>3. UNCHANGED <<configured, session, dialing>> /\ cooldown' \in 0..MaxCooldown
    BY <1>0, <1>4 DEF LoginRefused, WaitLeft, LoginOverLimit, SlotReturning, LoginIncorrect, LoginFailed, DelayProbe,
                      net, Lesser
  <2>4. \/ limit' \in {limit, Lesser(limit, Open), Lesser(limit, connecting - 1)}
           /\ limit' >= 1 /\ limitCap' = limitCap
        \/ limit' \in Nat /\ limit' = limitCap' /\ 1 <= limit' /\ limit' <= limit
    BY <1>0, <1>1, <1>4, <2>2 DEF LoginRefused, WaitLeft, LoginOverLimit, SlotReturning, LoginIncorrect,
                                   ShrinkAfterLimitError, Alive, Lesser, Greater
  <2>5. limit' \in Nat /\ limitCap' \in Nat /\ 1 <= limit' /\ limit' <= limit /\ limit' <= limitCap'
    BY <1>0, <1>1, <2>2, <2>4 DEF Lesser
  <2>6. QED
    BY <1>0, <2>3, <2>5 DEF LimitTypes, LimitInRange, SessionTypes, Ceiling, Lesser
<1>5. ASSUME NEW r \in Callers, ShrinkAfterLimitReply(r)
      PROVE  LimitTypes' /\ LimitInRange' /\ SessionTypes'
  <2>1. PICK others \in Int : others > 0 /\ limit' = Lesser(limit, others)
    BY <1>1, <1>5 DEF ShrinkAfterLimitReply, CallerTypes
  <2>2. UNCHANGED <<limitCap, configured, session, dialing>> /\ cooldown' \in 0..MaxCooldown
    BY <1>0, <1>5 DEF ShrinkAfterLimitReply, DelayProbe, net, Lesser
  <2>3. QED
    BY <1>0, <2>1, <2>2 DEF LimitTypes, LimitInRange, SessionTypes, Ceiling, Lesser
<1>6. CASE ArmIdleClose \/ IdleClose \/ CooldownEnds \/ RecentCloseEnds
           \/ (\E c \in Clients : ClientDies(c)) \/ Dial \/ SessionLost
  <2>1. /\ UNCHANGED configured
        /\ session' \in {"none", "up", "lost"} /\ dialing' \in BOOLEAN
        /\ \/ UNCHANGED <<limit, limitCap, cooldown>>
           \/ ResetLimit(configured)
    BY <1>6 DEF ArmIdleClose, IdleClose, CooldownEnds, RecentCloseEnds, ClientDies, Dial,
                SessionLost, Invalidate, CloseAll, limits, timers, net, SessionTypes
  <2>2. QED
    BY <1>0, <2>1 DEF LimitTypes, LimitInRange, SessionTypes, Ceiling, Lesser, ResetLimit
<1>7. CASE DialSucceeds \/ Disconnect
  <2>1. /\ configured' \in 1..MaxTransfers
        /\ session' \in {"none", "up", "lost"} /\ dialing' \in BOOLEAN
        /\ ResetLimit(configured')
    BY <1>7 DEF DialSucceeds, Disconnect, Invalidate, CloseAll
  <2>2. QED
    BY <1>0, <2>1 DEF LimitTypes, LimitInRange, SessionTypes, Ceiling, Lesser, ResetLimit
<1>8. QED
  BY <1>2, <1>3, <1>4, <1>5, <1>6, <1>7 DEF Next, CallerStep, LoginAnswered

(* The flags stay Boolean.                                                 *)
LEMMA FlagTypesStep ==
  ASSUME IInv, Next
  PROVE  FlagTypes'
<1> USE DEF IInv, TypeOK
<1>1. probing' \in BOOLEAN
  BY ProbeTrackedStep
<1>2. mainFallback' \in BOOLEAN /\ replyLimited' \in BOOLEAN
  BY DEF Next, CallerStep, LoginAnswered, Acquire, WakeUp, Ask, LoginSucceeds, StaleLoginLands,
         LoginRefused, WaitLeft, LoginOverLimit, SlotReturning, LoginIncorrect, LoginFailed, ShrinkAfterLimitError, Alive,
         Release, Discard, ShrinkAfterLimitReply, MainJobEnds, ArmIdleClose, IdleClose,
         CooldownEnds, RecentCloseEnds, ClientDies, Dial, DialSucceeds, SessionLost,
         Disconnect, Invalidate, CloseAll, ResetLimit, limits, FlagTypes
<1>3. cooling' \in BOOLEAN
  BY DEF Next, CallerStep, LoginAnswered, Acquire, WakeUp, Ask, LoginSucceeds, StaleLoginLands,
         LoginRefused, WaitLeft, LoginOverLimit, SlotReturning, LoginIncorrect, DelayProbe,
         Release, Discard, ShrinkAfterLimitReply, MainJobEnds, ArmIdleClose, IdleClose,
         CooldownEnds, RecentCloseEnds, ClientDies, Dial, DialSucceeds, SessionLost,
         Disconnect, Invalidate, CloseAll, ResetLimit, timers, FlagTypes
<1>4. recentClose' \in BOOLEAN
  BY DEF Next, CallerStep, LoginAnswered, Acquire, WakeUp, Ask, LoginSucceeds, StaleLoginLands,
         LoginRefused, WaitLeft, LoginOverLimit, SlotReturning, LoginIncorrect, LoginFailed, CloseClient,
         Release, Discard, ShrinkAfterLimitReply, MainJobEnds, ArmIdleClose, IdleClose,
         CooldownEnds, RecentCloseEnds, ClientDies, Dial, DialSucceeds, SessionLost,
         Disconnect, Invalidate, CloseAll, FlagTypes
<1>5. idleTimer' \in BOOLEAN
  BY DEF Next, CallerStep, LoginAnswered, Acquire, WakeUp, Ask, LoginSucceeds, StaleLoginLands,
         LoginRefused, WaitLeft, LoginOverLimit, SlotReturning, LoginIncorrect, LoginFailed,
         Release, Discard, ShrinkAfterLimitReply, MainJobEnds, ArmIdleClose, IdleClose,
         CooldownEnds, RecentCloseEnds, ClientDies, Dial, DialSucceeds, SessionLost,
         Disconnect, Invalidate, CloseAll, FlagTypes
<1>6. QED
  BY <1>1, <1>2, <1>3, <1>4, <1>5 DEF FlagTypes

-----------------------------------------------------------------------------
(* Clients: who has which, and that none is forgotten.                     *)

ClientsOK == SocketTypes /\ LeasesExclusive /\ NoLeak

(* A caller inside acquire() or on the main client holds no client.        *)
LEMMA EmptyHanded ==
  ASSUME IInv, NEW r \in Callers, phase[r] # "client"
  PROVE  held[r] = NoClient
BY PoolAssumption DEF IInv, LeasesExclusive, TypeOK, SocketTypes, CallerTypes

(* Nothing about clients changes while phases move between acquire() and    *)
(* the outside.                                                            *)
LEMMA SocketsUnchanged ==
  ASSUME IInv, NEW r \in Callers, phase[r] # "client", NEW p, p # "client",
         phase' = [phase EXCEPT ![r] = p], UNCHANGED sockets
  PROVE  ClientsOK'
BY DEF IInv, TypeOK, CallerTypes, SocketTypes, LeasesExclusive, NoLeak, ClientsOK, sockets, IdleSet

(* Dropping the idle clients that turned out closed.                       *)
LEMMA IdleDropped ==
  ASSUME IInv, NEW r \in Callers, phase[r] # "client", NEW p, p # "client",
         phase' = [phase EXCEPT ![r] = p], LiveIdle = {}, idle' = <<>>,
         UNCHANGED <<inUse, live, held>>
  PROVE  ClientsOK'
<1> USE DEF IInv, TypeOK
<1>1. SocketTypes' /\ Len(idle') = 0
  BY DEF SocketTypes
<1>2. IdleSet' = {}
  BY <1>1 DEF IdleSet
<1>3. NoLeak'
  BY <1>2 DEF NoLeak, IdleSet, LiveIdle
<1>4. LeasesExclusive'
  BY <1>1, <1>2 DEF LeasesExclusive, CallerTypes
<1>5. QED
  BY <1>1, <1>3, <1>4 DEF ClientsOK

(* Asking hands out an idle client at most once.                           *)
LEMMA AskClients ==
  ASSUME IInv, NEW r \in Callers, phase[r] # "client", NEW n, NEW k, Ask(r, n, k)
  PROVE  ClientsOK'
<1>1. CASE UseMain(r, n)
  BY <1>1, SocketsUnchanged DEF UseMain, Answer
<1>2. CASE TakeIdle(r, n)
  <2> USE DEF IInv, TypeOK
  <2>1. PICK i \in LiveIdle :
          /\ \A m \in LiveIdle : m <= i
          /\ idle' = SubSeq(idle, 1, i - 1)
          /\ inUse' = inUse \cup {idle[i]}
          /\ held' = [held EXCEPT ![r] = idle[i]]
    BY <1>2 DEF TakeIdle, Popped
  <2>2. /\ i \in 1..Len(idle) /\ idle[i] \in live /\ live' = live
        /\ phase' = [phase EXCEPT ![r] = "client"]
    BY <1>2 DEF TakeIdle, Popped, LiveIdle, Answer
  <2>3. /\ idle' \in Seq(Clients) /\ Len(idle') = i - 1
        /\ \A m \in 1..(i - 1) : idle'[m] = idle[m]
    BY <2>1, <2>2, SubSeqProperties DEF SocketTypes
  <2>4. SocketTypes'
    BY <2>1, <2>2, <2>3 DEF SocketTypes
  <2>5. IdleSet' = {idle[m] : m \in 1..(i - 1)}
    BY <2>3 DEF IdleSet
  <2>6. idle[i] \notin IdleSet'
    BY <2>2, <2>5 DEF LeasesExclusive
  <2>7. NoLeak'
    BY <2>1, <2>2, <2>5 DEF NoLeak, IdleSet, LiveIdle, SocketTypes
  <2>8. LeasesExclusive'
    <3>1. held[r] = NoClient /\ idle[i] \in Clients /\ idle[i] # NoClient
      BY <2>2, EmptyHanded, PoolAssumption DEF SocketTypes
    <3>2. \A s \in Callers : held[s] # idle[i] /\ held[s] \notin IdleSet'
      <4>1. idle[i] \in IdleSet /\ IdleSet' \subseteq IdleSet
        BY <2>2, <2>5 DEF IdleSet, SocketTypes
      <4>2. QED
        BY <4>1 DEF LeasesExclusive
    <3>3. \A s \in Callers : held'[s] = IF s = r THEN idle[i] ELSE held[s]
      BY <2>1 DEF SocketTypes
    <3>4. \A s \in Callers : phase'[s] = IF s = r THEN "client" ELSE phase[s]
      BY <2>2 DEF CallerTypes
    <3>5. \A s, t \in Callers : held'[s] = held'[t] /\ held'[s] # NoClient => s = t
      BY <3>1, <3>2, <3>3 DEF LeasesExclusive
    <3>6. \A s \in Callers : (held'[s] # NoClient) = (phase'[s] = "client")
      BY <3>1, <3>3, <3>4 DEF LeasesExclusive
    <3>7. \A l, m \in 1..Len(idle') : idle'[l] = idle'[m] => l = m
      BY <2>2, <2>3 DEF LeasesExclusive
    <3>8. \A s \in Callers : held'[s] \notin IdleSet'
      BY <2>6, <3>2, <3>3
    <3>9. \A c \in inUse' : \E s \in Callers : held'[s] = c
      BY <2>1, <3>1, <3>3, PoolAssumption DEF LeasesExclusive, SocketTypes
    <3>10. QED
      BY <3>5, <3>6, <3>7, <3>8, <3>9 DEF LeasesExclusive
  <2>9. QED
    BY <2>4, <2>7, <2>8 DEF ClientsOK
<1>3. CASE AtLimit(r, n)
  BY <1>3, IdleDropped DEF AtLimit, Answer
<1>4. CASE BeginLogin(r, n, k)
  BY <1>4, IdleDropped DEF BeginLogin
<1>5. QED
  BY <1>1, <1>2, <1>3, <1>4 DEF Ask

(* A caller gives its client back, to idle or closed.                      *)
LEMMA ReturnClients ==
  ASSUME IInv, NEW r \in Callers, phase[r] = "client", Leave(r),
         inUse' = inUse \ {held[r]},
         \/ idle' = idle /\ live' = live \ {held[r]}
         \/ held[r] \in inUse /\ idle' = Append(idle, held[r]) /\ live' = live
  PROVE  ClientsOK'
<1> USE DEF IInv, TypeOK
<1>1. held[r] \in Clients /\ held[r] # NoClient /\ held[r] \notin IdleSet
  BY DEF LeasesExclusive, SocketTypes
<1>2. \A s \in Callers : held'[s] = IF s = r THEN NoClient ELSE held[s]
  BY DEF Leave, SocketTypes
<1>3. \A s \in Callers : phase'[s] = IF s = r THEN "out" ELSE phase[s]
  BY DEF Leave, CallerTypes
<1>4. inUse' \in SUBSET Clients /\ live' \in SUBSET Clients
      /\ held' \in [Callers -> Clients \cup {NoClient}]
  BY <1>1 DEF SocketTypes, Leave
<1>5. CASE idle' = idle /\ live' = live \ {held[r]}
  <2>1. IdleSet' = IdleSet
    BY <1>5 DEF IdleSet
  <2>2. LeasesExclusive'
    <3>1. \A s, t \in Callers : held'[s] = held'[t] /\ held'[s] # NoClient => s = t
      BY <1>2 DEF LeasesExclusive
    <3>2. \A s \in Callers : (held'[s] # NoClient) = (phase'[s] = "client")
      BY <1>2, <1>3 DEF LeasesExclusive
    <3>3. \A l, m \in 1..Len(idle') : idle'[l] = idle'[m] => l = m
      BY <1>5 DEF LeasesExclusive
    <3>4. \A s \in Callers : held'[s] \notin IdleSet'
      BY <1>2, <2>1, PoolAssumption DEF LeasesExclusive, IdleSet, SocketTypes
    <3>5. \A c \in inUse' : \E s \in Callers : held'[s] = c
      BY <1>2 DEF LeasesExclusive
    <3>6. QED
      BY <3>1, <3>2, <3>3, <3>4, <3>5 DEF LeasesExclusive
  <2>3. QED
    BY <1>4, <1>5, <2>1, <2>2 DEF ClientsOK, SocketTypes, NoLeak
<1>6. CASE held[r] \in inUse /\ idle' = Append(idle, held[r]) /\ live' = live
  <2>1. /\ idle' \in Seq(Clients) /\ Len(idle') = Len(idle) + 1 /\ Len(idle) \in Nat
        /\ idle'[Len(idle) + 1] = held[r]
        /\ \A m \in 1..Len(idle) : idle'[m] = idle[m]
    BY <1>1, <1>6 DEF SocketTypes
  <2>2. IdleSet' = IdleSet \cup {held[r]}
    BY <2>1 DEF IdleSet
  <2>3. \A l, m \in 1..Len(idle') : idle'[l] = idle'[m] => l = m
    BY <1>1, <2>1 DEF LeasesExclusive, IdleSet
  <2>4. \A s \in Callers : held'[s] \notin IdleSet'
    BY <1>1, <1>2, <2>2, PoolAssumption DEF LeasesExclusive, IdleSet, SocketTypes
  <2>5. LeasesExclusive'
    BY <1>1, <1>2, <1>3, <2>3, <2>4 DEF LeasesExclusive
  <2>6. QED
    BY <1>4, <1>6, <2>1, <2>2, <2>5 DEF ClientsOK, SocketTypes, NoLeak
<1>7. QED
  BY <1>5, <1>6

(* A client that answers a login is new to the pool and to every caller.   *)
LEMMA NewClient ==
  ASSUME IInv, NEW r \in Callers, LoginSucceeds(r)
  PROVE  ClientsOK'
<1> USE DEF IInv, TypeOK
<1>1. PICK c \in Clients :
        /\ c \notin live \cup IdleSet \cup inUse
        /\ \A s \in Callers : held[s] # c
        /\ inUse' = inUse \cup {c}
        /\ live' = live \cup {c}
        /\ held' = [held EXCEPT ![r] = c]
  BY DEF LoginSucceeds
<1>2. idle' = idle /\ phase' = [phase EXCEPT ![r] = "client"] /\ phase[r] = "login"
  BY DEF LoginSucceeds, LoginLands, Answer
<1>3. held[r] = NoClient /\ c # NoClient
  BY <1>2, EmptyHanded, PoolAssumption
<1>4. \A s \in Callers : held'[s] = IF s = r THEN c ELSE held[s]
  BY <1>1 DEF SocketTypes
<1>5. \A s \in Callers : phase'[s] = IF s = r THEN "client" ELSE phase[s]
  BY <1>2 DEF CallerTypes
<1>6. IdleSet' = IdleSet
  BY <1>2 DEF IdleSet
<1>7. SocketTypes' /\ NoLeak'
  BY <1>1, <1>2, <1>6 DEF SocketTypes, NoLeak
<1>8. LeasesExclusive'
  BY <1>1, <1>2, <1>3, <1>4, <1>5, <1>6, PoolAssumption DEF LeasesExclusive, SocketTypes
<1>9. QED
  BY <1>7, <1>8 DEF ClientsOK

(* Every step keeps leases exclusive and open sockets listed.               *)
LEMMA ClientsStep ==
  ASSUME IInv, Next
  PROVE  ClientsOK'
<1> USE DEF IInv, TypeOK
<1>1. ASSUME NEW r \in Callers, Acquire(r) PROVE ClientsOK'
  BY <1>1, AskClients DEF Acquire
<1>2. ASSUME NEW r \in Callers, WakeUp(r) PROVE ClientsOK'
  <2>1. CASE r \notin stale
    BY <1>2, <2>1, AskClients DEF WakeUp
  <2>2. CASE r \in stale
    BY <1>2, <2>2, SocketsUnchanged DEF WakeUp, Answer
  <2>3. QED
    BY <2>1, <2>2
<1>3. ASSUME NEW r \in Callers,
             StaleLoginLands(r) \/ LoginRefused(r) \/ LoginOverLimit(r) \/ LoginIncorrect(r)
      PROVE  ClientsOK'
  <2>1. phase[r] = "login" /\ UNCHANGED sockets
    BY <1>3 DEF StaleLoginLands, LoginRefused, WaitLeft, LoginOverLimit, SlotReturning, LoginIncorrect, LoginFailed,
                LoginLands
  <2>2. \E q \in Phases \ {"client"} : phase' = [phase EXCEPT ![r] = q]
    BY <1>3 DEF StaleLoginLands, LoginRefused, WaitLeft, LoginOverLimit, SlotReturning, LoginIncorrect,
                ShrinkAfterLimitError, Alive, Answer, Sleep, Phases
  <2>3. QED
    BY <2>1, <2>2, SocketsUnchanged
<1>4. ASSUME NEW r \in Callers, Release(r) \/ Discard(r) \/ ShrinkAfterLimitReply(r)
      PROVE  ClientsOK'
  <2>1. held[r] \notin IdleSet
    BY DEF LeasesExclusive
  <2>2. QED
    BY <1>4, <2>1, ReturnClients DEF Release, Discard, ShrinkAfterLimitReply, CloseClient,
                                     Without
<1>5. ASSUME NEW r \in Callers, MainJobEnds(r) PROVE ClientsOK'
  BY <1>5, SocketsUnchanged DEF MainJobEnds
<1>6. CASE IdleClose
  <2>1. /\ idle' = <<>> /\ live' = live \ IdleSet
        /\ UNCHANGED <<inUse, held, phase>>
    BY <1>6 DEF IdleClose, asking
  <2>2. IdleSet' = {} /\ idle' \in Seq(Clients) /\ Len(idle') = 0
    BY <2>1 DEF IdleSet
  <2>3. SocketTypes' /\ NoLeak'
    BY <2>1, <2>2 DEF SocketTypes, NoLeak
  <2>4. LeasesExclusive'
    BY <2>1, <2>2 DEF LeasesExclusive
  <2>5. QED
    BY <2>3, <2>4 DEF ClientsOK
<1>7. CASE Dial \/ Disconnect
  <2>1. idle' = <<>> /\ inUse' = {} /\ live' = {} /\ UNCHANGED <<held, phase>>
    BY <1>7 DEF Dial, Disconnect, Invalidate, CloseAll
  <2>2. IdleSet' = {} /\ idle' \in Seq(Clients) /\ Len(idle') = 0
    BY <2>1 DEF IdleSet
  <2>3. SocketTypes' /\ NoLeak'
    BY <2>1, <2>2 DEF SocketTypes, NoLeak
  <2>4. LeasesExclusive'
    BY <2>1, <2>2 DEF LeasesExclusive
  <2>5. QED
    BY <2>3, <2>4 DEF ClientsOK
<1>8. ASSUME ArmIdleClose \/ CooldownEnds \/ RecentCloseEnds
             \/ (\E c \in Clients : ClientDies(c)) \/ DialSucceeds \/ SessionLost
      PROVE  ClientsOK'
  <2>1. UNCHANGED <<idle, inUse, held, phase>> /\ live' \subseteq live
    BY <1>8 DEF ArmIdleClose, CooldownEnds, RecentCloseEnds, ClientDies, DialSucceeds,
                SessionLost, sockets, asking
  <2>2. IdleSet' = IdleSet
    BY <2>1 DEF IdleSet
  <2>3. QED
    BY <2>1, <2>2 DEF ClientsOK, SocketTypes, NoLeak, LeasesExclusive
<1>9. QED
  BY <1>1, <1>2, <1>3, <1>4, <1>5, <1>6, <1>7, <1>8, NewClient DEF Next, CallerStep, LoginAnswered

-----------------------------------------------------------------------------
(* The main client fallback.                                               *)

(* The last login of the session gave up: nothing else waits.              *)
LEMMA LastLogin ==
  ASSUME CallerTypes, SocketTypes, ConnectingCounted, NEW r \in Waiting,
         Open + (connecting - 1) = 0
  PROVE  idle = <<>> /\ inUse = {} /\ Waiting = {r}
<1>1. IsFiniteSet(Waiting) /\ Cardinality(Waiting) \in Nat
  BY FiniteParts DEF Waiting
<1>2. connecting = 1 /\ Open = 0
  BY WaitingCounted, OpenCounts
<1>3. IsFiniteSet(Waiting \ {r}) /\ Cardinality(Waiting \ {r}) = 0
  <2>1. Cardinality(Waiting) = 1
    BY <1>2 DEF ConnectingCounted
  <2>2. IsFiniteSet(Waiting \ {r}) /\ Cardinality(Waiting \ {r}) = Cardinality(Waiting) - 1
    BY <1>1, FS_RemoveElement
  <2>3. QED
    BY <2>1, <2>2
<1>4. Waiting \ {r} = {}
  BY <1>3, FS_EmptySet
<1>5. QED
  BY <1>2, <1>4, OpenCounts

(* Every step keeps the main client fallback apart from pool connections.   *)
LEMMA FallbackStep ==
  ASSUME IInv, Next
  PROVE  FallbackExclusive'
<1> SUFFICES ASSUME mainFallback'
             PROVE  idle' = <<>> /\ inUse' = {} /\ Waiting' \subseteq stale'
  BY DEF FallbackExclusive
<1> USE DEF IInv, TypeOK
<1>1. ASSUME NEW r \in Callers, Acquire(r) \/ WakeUp(r)
      PROVE  idle' = <<>> /\ inUse' = {} /\ Waiting' \subseteq stale'
  <2>1. mainFallback
    BY <1>1 DEF Acquire, WakeUp, Ask, limits
  <2>2. idle = <<>> /\ inUse = {} /\ Waiting \subseteq stale
    BY <2>1 DEF FallbackExclusive
  <2>3. UNCHANGED sockets /\ \E q \in {"main", "out"} : Answer(r, q)
    BY <1>1, <2>1 DEF Acquire, WakeUp, Ask, UseMain, TakeIdle, Popped, AtLimit, BeginLogin
  <2>4. Waiting' \subseteq Waiting \ {r} /\ stale' = stale \ {r}
    BY <2>3 DEF Answer, Waiting, CallerTypes
  <2>5. QED
    BY <2>2, <2>3, <2>4 DEF sockets
<1>2. ASSUME NEW r \in Callers, StaleLoginLands(r)
      PROVE  idle' = <<>> /\ inUse' = {} /\ Waiting' \subseteq stale'
  <2>1. mainFallback /\ UNCHANGED sockets /\ Answer(r, "out")
    BY <1>2 DEF StaleLoginLands, limits
  <2>2. Waiting' \subseteq Waiting \ {r} /\ stale' = stale \ {r}
    BY <2>1 DEF Answer, Waiting, CallerTypes
  <2>3. QED
    BY <2>1, <2>2 DEF FallbackExclusive, sockets
<1>3. ASSUME NEW r \in Callers,
             LoginSucceeds(r) \/ LoginRefused(r) \/ LoginOverLimit(r) \/ LoginIncorrect(r)
      PROVE  idle' = <<>> /\ inUse' = {} /\ Waiting' \subseteq stale'
  <2>1. r \in Waiting /\ r \notin stale
    BY <1>3 DEF LoginSucceeds, LoginRefused, WaitLeft, LoginOverLimit, SlotReturning, LoginIncorrect, LoginFailed,
                LoginLands, Waiting
  <2>2. ~mainFallback
    BY <2>1 DEF FallbackExclusive, FlagTypes
  <2>3. ShrinkAfterLimitError(r, connecting - 1) /\ UNCHANGED sockets
    BY <1>3, <2>2 DEF LoginSucceeds, LoginRefused, WaitLeft, LoginOverLimit, SlotReturning, LoginIncorrect,
                      LoginFailed
  <2>4. Open + (connecting - 1) = 0 /\ phase' = [phase EXCEPT ![r] = "main"]
    BY <2>2, <2>3 DEF ShrinkAfterLimitError, Alive, Answer
  <2>5. idle = <<>> /\ inUse = {} /\ Waiting = {r}
    BY <2>1, <2>4, LastLogin
  <2>6. Waiting' = {}
    BY <2>4, <2>5 DEF Waiting, CallerTypes
  <2>7. QED
    BY <2>3, <2>5, <2>6 DEF sockets
<1>4. ASSUME NEW r \in Callers,
             Release(r) \/ Discard(r) \/ ShrinkAfterLimitReply(r) \/ MainJobEnds(r)
      PROVE  idle' = <<>> /\ inUse' = {} /\ Waiting' \subseteq stale'
  <2>1. mainFallback /\ idle = <<>> /\ inUse = {} /\ Waiting \subseteq stale
    BY <1>4 DEF Release, Discard, ShrinkAfterLimitReply, MainJobEnds, limits, FallbackExclusive
  <2>2. held[r] \notin IdleSet
    BY DEF LeasesExclusive
  <2>3. idle' = <<>> /\ inUse' = {} /\ stale' = stale /\ phase' = [phase EXCEPT ![r] = "out"]
    BY <1>4, <2>1, <2>2 DEF Release, Discard, ShrinkAfterLimitReply, MainJobEnds, Leave,
                            Without, sockets
  <2>4. QED
    BY <2>1, <2>3 DEF Waiting, CallerTypes
<1>5. ASSUME ArmIdleClose \/ IdleClose \/ CooldownEnds \/ RecentCloseEnds
             \/ (\E c \in Clients : ClientDies(c)) \/ Dial \/ DialSucceeds
             \/ SessionLost \/ Disconnect
      PROVE  idle' = <<>> /\ inUse' = {} /\ Waiting' \subseteq stale'
  <2>1. mainFallback /\ UNCHANGED <<inUse, phase, stale>> /\ idle' \in {idle, <<>>}
    BY <1>5 DEF ArmIdleClose, IdleClose, CooldownEnds, RecentCloseEnds, ClientDies, Dial,
                DialSucceeds, SessionLost, Disconnect, Invalidate, CloseAll, ResetLimit, limits,
                sockets, asking
  <2>2. QED
    BY <2>1 DEF FallbackExclusive, Waiting
<1>6. QED
  BY <1>1, <1>2, <1>3, <1>4, <1>5 DEF Next, CallerStep, LoginAnswered

(* A login asleep after a refusal has retries left.                        *)
LEMMA RefusalsStep ==
  ASSUME IInv, Next
  PROVE  RefusalsBounded'
<1> USE DEF IInv, TypeOK
<1>1. ASSUME NEW r \in Callers, CallerStep(r) PROVE RefusalsBounded'
  <2>1. CASE LoginRefused(r) /\ Sleep(r, "refusedWait") /\ refusals[r] < MaxRefusals
    BY <2>1 DEF Sleep, RefusalsBounded, CallerTypes
  <2>2. CASE /\ \E q \in Phases \ {"refusedWait"} : phase' = [phase EXCEPT ![r] = q]
             /\ \/ UNCHANGED refusals
                \/ \E k : refusals' = [refusals EXCEPT ![r] = k]
    BY <2>2 DEF RefusalsBounded, CallerTypes
  <2>3. QED
    BY <1>1, <2>1, <2>2 DEF CallerStep, LoginAnswered, Acquire, WakeUp, Ask, UseMain, TakeIdle, Popped, AtLimit,
       BeginLogin, LoginSucceeds, StaleLoginLands, LoginRefused, WaitLeft, LoginOverLimit, SlotReturning,
       LoginIncorrect, ShrinkAfterLimitError, Alive, Release, Discard, ShrinkAfterLimitReply,
       MainJobEnds, Leave, Answer, Sleep, Phases
<1>2. ASSUME ArmIdleClose \/ IdleClose \/ CooldownEnds \/ RecentCloseEnds
             \/ (\E c \in Clients : ClientDies(c)) \/ Dial \/ DialSucceeds
             \/ SessionLost \/ Disconnect
      PROVE  RefusalsBounded'
  <2>1. UNCHANGED <<phase, refusals>>
    BY <1>2 DEF ArmIdleClose, IdleClose, CooldownEnds, RecentCloseEnds, ClientDies, Dial,
                DialSucceeds, SessionLost, Disconnect, asking
  <2>2. QED
    BY <2>1 DEF RefusalsBounded
<1>3. QED
  BY <1>1, <1>2 DEF Next, CallerStep, LoginAnswered

-----------------------------------------------------------------------------
(* The theorems.                                                           *)

(* A stuttering step changes nothing the invariant reads.                   *)
LEMMA StutterIInv == IInv /\ UNCHANGED vars => IInv'
BY DEF vars, IInv, TypeOK, SocketTypes, CallerTypes, LimitTypes, FlagTypes, SessionTypes,
       LimitInRange, ConnectingCounted, ProbeTracked, LeasesExclusive, NoLeak,
       FallbackExclusive, RefusalsBounded, Waiting, Asleep, Probers, IdleSet, Ceiling

(* The inductive invariant holds of every behaviour of the pool.           *)
THEOREM Invariance == Spec => []IInv
<1>1. IInv /\ [Next]_vars => IInv'
  <2>1. ASSUME IInv, Next PROVE IInv'
    BY <2>1, CallerTypesStep, ConnectingCountedStep, ProbeTrackedStep, LimitStep,
       FlagTypesStep, ClientsStep, FallbackStep, RefusalsStep
       DEF IInv, TypeOK, ClientsOK
  <2>2. QED
    BY <2>1, StutterIInv
<1>2. QED
  BY <1>1, InitIInv, PTL DEF Spec

(* The state of the pool is always of its type.                            *)
THEOREM TypeCorrect == Spec => []TypeOK
<1>1. IInv => TypeOK
  BY DEF IInv
<1>2. QED
  BY <1>1, Invariance, PTL

(* However logins, limit replies, reconnects and idle closes interleave,    *)
(* limit stays between one and the smaller of the configuration and the cap *)
(* the server set: TransferQueue.pump always has a slot to start a job in.  *)
THEOREM LimitStaysInRange == Spec => []LimitInRange
<1>1. IInv => LimitInRange
  BY DEF IInv
<1>2. QED
  BY <1>1, Invariance, PTL

(* The counter connecting always equals the callers inside a login.        *)
THEOREM ConnectingExact == Spec => []ConnectingCounted
<1>1. IInv => ConnectingCounted
  BY DEF IInv
<1>2. QED
  BY <1>1, Invariance, PTL

(* The three numbers acquire() decides by are exact together.              *)
THEOREM CountersStayExact == Spec => []CountersExact
<1>1. IInv => CountersExact
  BY DEF IInv, CountersExact
<1>2. QED
  BY <1>1, Invariance, PTL

(* No client is lent twice, or is idle while it is lent, and every open     *)
(* control connection is listed by the pool, so that a reconnect or the     *)
(* idle close reaches it: for any number of callers and clients.            *)
THEOREM ClientsStayInOnePlace == Spec => []ClientsInOnePlace
<1>1. IInv => ClientsInOnePlace
  BY DEF IInv, ClientsInOnePlace
<1>2. QED
  BY <1>1, Invariance, PTL

(* The main client fallback excludes pool connections of the same session.  *)
THEOREM FallbackStaysExclusive == Spec => []FallbackExclusive
<1>1. IInv => FallbackExclusive
  BY DEF IInv
<1>2. QED
  BY <1>1, Invariance, PTL

(* There is never a second probe login.                                    *)
THEOREM OneProbe == Spec => []ProbeTracked
<1>1. IInv => ProbeTracked
  BY DEF IInv
<1>2. QED
  BY <1>1, Invariance, PTL

-----------------------------------------------------------------------------
(* What a step may never do.                                               *)

(* Only a step of the caller itself moves it from one phase to another.     *)
LEMMA OwnPhase ==
  ASSUME CallerTypes, Next, NEW r \in Callers, phase'[r] # phase[r]
  PROVE  CallerStep(r)
<1>1. ASSUME NEW s \in Callers, CallerStep(s) PROVE s = r
  <2>1. \E q \in Phases : phase' = [phase EXCEPT ![s] = q]
    BY <1>1 DEF CallerStep, Acquire, WakeUp, Ask, UseMain, TakeIdle, AtLimit, BeginLogin, LoginAnswered,
                LoginSucceeds, StaleLoginLands, LoginRefused, LoginOverLimit, LoginIncorrect,
                ShrinkAfterLimitError, Answer, Sleep, Release, Discard, ShrinkAfterLimitReply,
                MainJobEnds, Leave, Phases
  <2>2. QED
    BY <2>1 DEF CallerTypes
<1>2. ASSUME Dial \/ Disconnect \/ ArmIdleClose \/ IdleClose \/ CooldownEnds
             \/ RecentCloseEnds \/ (\E c \in Clients : ClientDies(c)) \/ DialSucceeds
             \/ SessionLost
      PROVE  FALSE
  BY <1>2 DEF Dial, Disconnect, ArmIdleClose, IdleClose, CooldownEnds, RecentCloseEnds,
              ClientDies, DialSucceeds, SessionLost, asking
<1>3. QED
  BY <1>1, <1>2 DEF Next

(* A login of an earlier generation is answered by StaleLoginLands only.    *)
LEMMA StaleAnswer ==
  ASSUME IInv, Next, NEW r \in stale, phase[r] = "login", phase'[r] = "out"
  PROVE  UNCHANGED <<sockets, limits, timers>>
<1>1. r \in Callers /\ CallerTypes
  BY DEF IInv, TypeOK, CallerTypes, Waiting
<1>2. CallerStep(r)
  BY <1>1, OwnPhase
<1>3. StaleLoginLands(r)
  BY <1>2 DEF CallerStep, Acquire, WakeUp, LoginAnswered, LoginSucceeds, LoginRefused, LoginOverLimit,
              LoginIncorrect, LoginFailed, Release, Discard, ShrinkAfterLimitReply, MainJobEnds
<1>4. QED
  BY <1>3 DEF StaleLoginLands

(* acquire() compares the clients lent and the logins under way, the probe  *)
(* left out, with limit; only BeginLogin brings a caller into a login.      *)
LEMMA LoginBegun ==
  ASSUME IInv, IInv', Next, NEW r \in Callers, phase[r] # "login", phase'[r] = "login"
  PROVE  \/ /\ r \notin prober'
            /\ Cardinality(inUse') + Cardinality((Waiting \ prober)') <= limit'
         \/ /\ prober = {} /\ prober' = {r}
            /\ ~cooling /\ limit < Ceiling
<1> USE DEF IInv, TypeOK
<1>1. CallerStep(r)
  BY OwnPhase
<1>2. /\ Acquire(r) \/ (WakeUp(r) /\ r \notin stale)
      /\ UNCHANGED limit
  <2>1. Acquire(r) \/ WakeUp(r) \/ Release(r) \/ Discard(r) \/ ShrinkAfterLimitReply(r) \/ MainJobEnds(r)
    BY <1>1 DEF CallerStep, LoginAnswered, LoginSucceeds, StaleLoginLands, LoginRefused, LoginOverLimit,
                LoginIncorrect, LoginFailed, LoginLands
  <2>2. phase[r] \in {"client", "main"} => phase' # [phase EXCEPT ![r] = "out"]
    BY DEF CallerTypes
  <2>3. Acquire(r) \/ WakeUp(r)
    BY <2>1, <2>2 DEF Release, Discard, ShrinkAfterLimitReply, MainJobEnds, Leave
  <2>4. WakeUp(r) /\ r \in stale => phase' = [phase EXCEPT ![r] = "out"]
    BY DEF WakeUp, Answer
  <2>5. r \in stale => ~WakeUp(r)
    BY <2>4 DEF CallerTypes
  <2>6. Acquire(r) \/ (WakeUp(r) /\ r \notin stale)
    BY <2>3, <2>5
  <2>7. QED
    BY <2>6 DEF Acquire, WakeUp, Ask, limits
<1>3. PICK n \in Int, k \in {0, refusals[r] + 1} : BeginLogin(r, n, k)
  <2>1. PICK n \in {connecting, connecting - 1}, k \in {0, refusals[r] + 1} : Ask(r, n, k)
    BY <1>2 DEF Acquire, WakeUp
  <2>2. n \in Int
    BY <2>1 DEF CallerTypes
  <2>3. BeginLogin(r, n, k)
    BY <2>1 DEF Ask, UseMain, TakeIdle, AtLimit, Answer, CallerTypes
  <2>4. QED
    BY <2>2, <2>3
<1>4. /\ inUse' = inUse /\ r \notin prober
      /\ IsProbe(n) => CanProbe
      /\ n + 1 = Cardinality(Waiting')
  BY <1>3 DEF BeginLogin, ConnectingCounted, ProbeTracked, Probers
<1>5. CASE IsProbe(n)
  <2>1. prober' = {r} /\ ~probing /\ limit < Ceiling /\ ~cooling
    BY <1>3, <1>4, <1>5 DEF BeginLogin, CanProbe
  <2>2. QED
    BY <2>1 DEF ProbeTracked
<1>6. CASE ~IsProbe(n)
  <2>1. prober' = prober /\ probing \in BOOLEAN
    BY <1>3, <1>6 DEF BeginLogin, FlagTypes
  <2>2. /\ Cardinality(inUse) \in Nat /\ limit \in Nat
        /\ Cardinality(inUse) + n - (IF probing THEN 1 ELSE 0) < limit
    BY <1>6, FiniteParts DEF IsProbe, SocketTypes, LimitTypes
  <2>3. IsFiniteSet(Waiting') /\ prober' \subseteq Waiting'
    <3>1. Waiting' \in SUBSET Callers /\ prober' = Probers'
      BY DEF Waiting, ProbeTracked
    <3>2. QED
      BY <3>1, FiniteParts DEF Waiting, Probers
  <2>4. Cardinality((Waiting \ prober)') = n + 1 - (IF probing THEN 1 ELSE 0)
    <3>1. CASE probing
      <4>1. PICK p \in Waiting' : prober' = {p}
        <5>1. prober # {} /\ \A s, t \in prober : s = t
          BY <3>1 DEF ProbeTracked
        <5>2. PICK p \in prober : prober = {p}
          BY <5>1
        <5>3. QED
          BY <2>1, <2>3, <5>2
      <4>2. Cardinality(Waiting' \ {p}) = Cardinality(Waiting') - 1
        BY <2>3, <4>1, FS_RemoveElement
      <4>3. QED
        BY <1>4, <3>1, <4>1, <4>2
    <3>2. CASE ~probing
      <4>1. prober' = {}
        BY <2>1, <3>2 DEF ProbeTracked
      <4>2. Waiting' \ prober' = Waiting'
        BY <4>1
      <4>3. QED
        BY <1>4, <3>2, <4>2
    <3>3. QED
      BY <3>1, <3>2
  <2>5. QED
    BY <1>2, <1>4, <2>1, <2>2, <2>4
<1>7. QED
  BY <1>5, <1>6

(* A login that answers after a reconnect leaves what the pool knows of the *)
(* new session alone, however many callers and reconnects there are.        *)
THEOREM StaleAnswersStayHarmless == Spec => StaleAnswersHarmless
<1>1. ASSUME IInv, [Next]_vars
      PROVE  [\A r \in stale : phase[r] = "login" /\ phase'[r] = "out"
                => UNCHANGED <<sockets, limits, timers>>]_vars
  BY <1>1, StaleAnswer
<1>2. QED
  BY <1>1, Invariance, PTL DEF Spec, StaleAnswersHarmless

(* No login is begun above limit but one probe at a time, after its         *)
(* cooldown, for any number of callers.                                     *)
THEOREM LoginsStayWithinLimit == Spec => LoginsWithinLimit
<1>1. ASSUME IInv, IInv', [Next]_vars
      PROVE  [\A r \in Callers : phase[r] # "login" /\ phase'[r] = "login" =>
                \/ /\ r \notin prober'
                   /\ Cardinality(inUse') + Cardinality((Waiting \ prober)') <= limit'
                \/ /\ prober = {} /\ prober' = {r}
                   /\ ~cooling /\ limit < Ceiling]_vars
  BY <1>1, LoginBegun
<1>2. QED
  BY <1>1, Invariance, PTL DEF Spec, LoginsWithinLimit
=============================================================================
