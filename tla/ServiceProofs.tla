---------------------------- MODULE ServiceProofs ----------------------------
(***************************************************************************)
(* What TLAPS proves of the smaller services of the main process.  Each    *)
(* section is about one of them: its inductive invariant, the lemmas of    *)
(* its steps, and the theorem.                                             *)
(***************************************************************************)
EXTENDS RelayLane, UpdateManager, AgentEndpoint, PasswordVault, AgentActivity, ThumbnailQueue,
        GalleryPreviews, FastUpload, RangePlan

-----------------------------------------------------------------------------
(* Server-to-server copies.                                                *)

(* Where a job of the relay can be.                                         *)
RelayPlaces == InRun \cup {"out", "backoff", "held"}
Routes == {r \in Servers \X Servers : r[1] # r[2]}

(* Where a job of status st is: p, and whether it waits in the lane.       *)
Placed(st, p, waits) ==
  /\ p \in {"first", "second"} => st = "pending"
  /\ p \in InAttempt => st \in {"active", "cancelled"}
  /\ p \in {"backoff", "held"} => st \in {"pending", "cancelled"}
  /\ p = "out" => st # "active"
  /\ waits <=> p = "out" /\ st = "pending"

(* The servers in whose line a job at p stands, and those whose client it has. *)
Wants(p, r) ==
  IF p = "first" THEN {FirstKey(r)} ELSE IF p = "second" THEN {SecondKey(r)} ELSE {}
Holds(p, r) ==
  IF p = "second" THEN {FirstKey(r)} ELSE IF p \in InAttempt THEN {r[1], r[2]} ELSE {}

(* The servers in whose line a job stands, and those whose client it holds. *)
InLines(b, j) == {k \in Servers : j \in InSeq(b[k])}
Lenders(j) == {k \in Servers : j \in lent[k]}

(* What is at the target tg of a job of status st at p, as the job knows it: *)
(* whether it is being cleaned up (cl), was removed (rm), is said to be left *)
(* (lf) and was sent to (sn).                                              *)
TargetFits(st, p, cl, rm, lf, sn, tg) ==
  /\ st = "completed" => tg = "whole"
  /\ rm => tg = "absent" /\ p = "out" /\ st \in {"failed", "cancelled"}
  /\ st = "failed" /\ sn /\ ~cl => tg = "absent" \/ lf
  /\ cl => p = "held" \/ (p = "out" /\ st \in {"failed", "cancelled"})
  /\ p = "held" => cl

TargetOK(j) == TargetFits(relayStatus[j], relayAt[j], j \in cleanups, j \in removedFlag, j \in leftNote,
                          j \in everSent, target[j])

RelayJobOK(j) ==
  /\ relayStatus[j] # "new" => route[j] \in Routes
  /\ Placed(relayStatus[j], relayAt[j], j \in InSeq(lane))
  /\ InLines(line, j) = Wants(relayAt[j], route[j])
  /\ Lenders(j) = Holds(relayAt[j], route[j])
  /\ TargetOK(j)
  /\ relayAt[j] = "sending" => mkd[memo[j]] = "made"

(* The inductive invariant.                                                 *)
RelayInv ==
  /\ RelayTypeOK /\ maxRunning \in Nat
  /\ Once(lane) /\ \A k \in Servers : Once(line[k])
  /\ \A j \in RelayJobs : RelayJobOK(j)

-----------------------------------------------------------------------------
(* pump(): jobs of the lane begin to borrow, and nothing else happens.      *)

LEMMA RouteFacts ==
  ASSUME NEW r \in Routes
  PROVE  /\ FirstKey(r) \in Servers /\ SecondKey(r) \in Servers
         /\ FirstKey(r) # SecondKey(r) /\ {r[1], r[2]} = {FirstKey(r), SecondKey(r)}
BY DEF Routes, FirstKey, SecondKey

(* What pump() makes of a line and the clients of its server.               *)
PumpMoves(w, a, b, r) ==
  /\ lane' \in Seq(RelayJobs) /\ Once(lane')
  /\ relayAt' \in [RelayJobs -> RelayPlaces]
  /\ line' \in [Servers -> Seq(RelayJobs)] /\ \A k \in Servers : Once(line'[k])
  /\ \A j \in RelayJobs :
       \/ /\ relayAt'[j] = a[j] /\ (j \in InSeq(w) <=> j \in InSeq(lane'))
          /\ InLines(line', j) = InLines(b, j)
       \/ /\ j \in InSeq(w) /\ j \notin InSeq(lane') /\ relayAt'[j] = "first"
          /\ InLines(line', j) = {FirstKey(r[j])}

LEMMA PumpFacts ==
  ASSUME maxRunning \in Nat,
         NEW w \in Seq(RelayJobs), Once(w),
         NEW a \in [RelayJobs -> RelayPlaces],
         NEW b \in [Servers -> Seq(RelayJobs)], \A k \in Servers : Once(b[k]),
         NEW r,
         \A j \in InSeq(w) : r[j] \in Routes /\ a[j] = "out" /\ InLines(b, j) = {},
         PumpOn(w, a, b, r)
  PROVE  PumpMoves(w, a, b, r)
<1> DEFINE free == maxRunning - Cardinality({j \in RelayJobs : a[j] \in InRun})
           n == IF free <= 0 THEN 0 ELSE IF free < Len(w) THEN free ELSE Len(w)
           started == SubSeq(w, 1, n)
           rest == SubSeq(w, n + 1, Len(w))
           of(k) == Only(started, {j \in InSeq(started) : FirstKey(r[j]) = k})
<1>1. n \in 0..Len(w)
  <2>1. {j \in RelayJobs : a[j] \in InRun} \subseteq RelayJobs
    OBVIOUS
  <2>2. Cardinality({j \in RelayJobs : a[j] \in InRun}) \in Nat
    BY <2>1, RelayAssumption, FS_Subset, FS_CardinalityType DEF RelayAssumption
  <2>3. Len(w) \in Nat
    BY LenProperties
  <2> QED BY <2>2, <2>3
<1>2. /\ lane' = rest
      /\ relayAt' = [j \in RelayJobs |-> IF j \in InSeq(started) THEN "first" ELSE a[j]]
      /\ line' = [k \in Servers |-> b[k] \o of(k)]
  BY DEF PumpOn
<1> HIDE DEF n
<1>3. /\ started \in Seq(RelayJobs) /\ Once(started)
      /\ rest \in Seq(RelayJobs) /\ Once(rest)
      /\ InSeq(w) = InSeq(started) \cup InSeq(rest)
      /\ InSeq(started) \cap InSeq(rest) = {}
  BY <1>1, CutFacts
<1> HIDE DEF started, rest
<1>4. \A k : /\ of(k) \in Seq(RelayJobs) /\ Once(of(k))
             /\ InSeq(of(k)) = {j \in InSeq(started) : FirstKey(r[j]) = k}
  BY <1>3, OnlyFacts
<1> HIDE DEF of
<1>5. \A k \in Servers : /\ line'[k] \in Seq(RelayJobs) /\ Once(line'[k])
                         /\ InSeq(line'[k]) = InSeq(b[k]) \cup {j \in InSeq(started) : FirstKey(r[j]) = k}
  <2> TAKE k \in Servers
  <2>1. InSeq(b[k]) \cap InSeq(of(k)) = {}
    BY <1>3, <1>4 DEF InLines
  <2>2. /\ b[k] \o of(k) \in Seq(RelayJobs)
        /\ InSeq(b[k] \o of(k)) = InSeq(b[k]) \cup InSeq(of(k))
        /\ Once(b[k] \o of(k))
    BY <1>4, <2>1, ConcatFacts
  <2> QED BY <1>2, <1>4, <2>2
<1>6. ASSUME NEW j \in RelayJobs
      PROVE  \/ /\ relayAt'[j] = a[j] /\ (j \in InSeq(w) <=> j \in InSeq(lane'))
                /\ InLines(line', j) = InLines(b, j)
             \/ /\ j \in InSeq(w) /\ j \notin InSeq(lane') /\ relayAt'[j] = "first"
                /\ InLines(line', j) = {FirstKey(r[j])}
  <2>1. CASE j \in InSeq(started)
    <3>1. FirstKey(r[j]) \in Servers /\ InLines(b, j) = {}
      BY <1>3, <2>1, RouteFacts
    <3>2. InLines(line', j) = {FirstKey(r[j])}
      BY <1>5, <2>1, <3>1 DEF InLines
    <3> QED BY <1>2, <1>3, <2>1, <3>2
  <2>2. CASE j \notin InSeq(started)
    BY <1>2, <1>3, <1>5, <2>2 DEF InLines
  <2> QED BY <2>1, <2>2
<1>7. relayAt' \in [RelayJobs -> RelayPlaces]
  BY <1>2 DEF RelayPlaces, InRun
<1>8. line' \in [Servers -> Seq(RelayJobs)]
  BY <1>2, <1>5
<1> QED BY <1>2, <1>3, <1>5, <1>6, <1>7, <1>8 DEF PumpMoves

(* The same of the state a handler leaves to its pump(): the jobs w in the *)
(* lane, the places a and the lines b.                                     *)
FitsAfter(j, w, a, b, r) ==
  /\ relayStatus'[j] # "new" => r[j] \in Routes
  /\ Placed(relayStatus'[j], a[j], j \in InSeq(w))
  /\ InLines(b, j) = Wants(a[j], r[j])
  /\ Lenders(j)' = Holds(a[j], r[j])
  /\ TargetFits(relayStatus'[j], a[j], j \in cleanups', j \in removedFlag', j \in leftNote',
                j \in everSent', target'[j])
  /\ a[j] = "sending" => mkd'[memo'[j]] = "made"

(* The types of what the jobs' part of the invariant does not speak of.     *)
RestType ==
  /\ maxRunning \in Nat
  /\ relayStatus \in [RelayJobs -> {"new", "pending", "active", "completed", "failed",
                                    "cancelled"}]
  /\ lent \in [Servers -> SUBSET RelayJobs]
  /\ relayTries \in [RelayJobs -> 0..RelayRetries]
  /\ memo \in [RelayJobs -> RelayJobs]
  /\ mkd \in [RelayJobs -> {"none", "asked", "made"}]
  /\ target \in [RelayJobs -> {"theirs", "absent", "partial", "whole"}]
  /\ everSent \subseteq RelayJobs /\ cleanups \subseteq RelayJobs
  /\ removedFlag \subseteq RelayJobs /\ leftNote \subseteq RelayJobs

LEMMA RelayTypes ==
  RelayTypeOK /\ maxRunning \in Nat <=>
    /\ RestType
    /\ relayAt \in [RelayJobs -> RelayPlaces]
    /\ lane \in Seq(RelayJobs) /\ line \in [Servers -> Seq(RelayJobs)]
BY DEF RelayTypeOK, RestType, RelayPlaces

(* A handler that pumps last keeps the invariant.                          *)
LEMMA PumpKeeps ==
  ASSUME NEW w \in Seq(RelayJobs), Once(w),
         NEW a \in [RelayJobs -> RelayPlaces],
         NEW b \in [Servers -> Seq(RelayJobs)], \A k \in Servers : Once(b[k]),
         NEW r, route' = r, UNCHANGED maxRunning, RestType',
         \A j \in RelayJobs : FitsAfter(j, w, a, b, r),
         PumpOn(w, a, b, r)
  PROVE  RelayInv'
<1>1. maxRunning \in Nat
  BY DEF RestType
<1>2. \A j \in InSeq(w) : j \in RelayJobs
  BY InSeqFacts
<1>3. \A j \in InSeq(w) : r[j] \in Routes /\ a[j] = "out" /\ InLines(b, j) = {}
  BY <1>2 DEF FitsAfter, Placed, Wants
<1>4. PumpMoves(w, a, b, r)
  BY <1>1, <1>3, PumpFacts
<1>5. ASSUME NEW j \in RelayJobs
      PROVE  RelayJobOK(j)'
  <2>1. FitsAfter(j, w, a, b, r)
    OBVIOUS
  <2>2. CASE /\ relayAt'[j] = a[j] /\ (j \in InSeq(w) <=> j \in InSeq(lane'))
             /\ InLines(line', j) = InLines(b, j)
    BY <2>1, <2>2 DEF FitsAfter, RelayJobOK, TargetOK, Placed, InLines, Lenders
  <2>3. CASE /\ j \in InSeq(w) /\ j \notin InSeq(lane') /\ relayAt'[j] = "first"
             /\ InLines(line', j) = {FirstKey(r[j])}
    <3>1. a[j] = "out" /\ relayStatus'[j] = "pending" /\ r[j] \in Routes
      BY <2>1, <2>3 DEF FitsAfter, Placed
    <3>2. Placed(relayStatus'[j], relayAt'[j], j \in InSeq(lane'))
      BY <2>3, <3>1 DEF Placed, InAttempt
    <3>3. InLines(line', j) = Wants(relayAt'[j], r[j]) /\ Lenders(j)' = Holds(relayAt'[j], r[j])
      BY <2>1, <2>3, <3>1 DEF FitsAfter, Wants, Holds, InAttempt
    <3>4. TargetOK(j)'
      BY <2>1, <2>3, <3>1 DEF FitsAfter, TargetOK, TargetFits
    <3> QED BY <2>3, <3>1, <3>2, <3>3, <3>4 DEF RelayJobOK, InLines
  <2> QED BY <1>4, <2>2, <2>3 DEF PumpMoves
<1>6. RelayTypeOK' /\ maxRunning' \in Nat
  BY <1>1, <1>4 DEF PumpMoves, RestType, RelayTypeOK, RelayPlaces
<1> QED BY <1>4, <1>5, <1>6 DEF RelayInv, PumpMoves

(* One that does not pump.                                                 *)
LEMMA StepKeeps ==
  ASSUME RestType', relayAt' \in [RelayJobs -> RelayPlaces],
         lane' \in Seq(RelayJobs), Once(lane'),
         line' \in [Servers -> Seq(RelayJobs)], \A k \in Servers : Once(line'[k]),
         \A j \in RelayJobs : FitsAfter(j, lane', relayAt', line', route')
  PROVE  RelayInv'
<1>1. ASSUME NEW j \in RelayJobs PROVE RelayJobOK(j)'
  BY DEF FitsAfter, RelayJobOK, TargetOK, Placed, InLines, Lenders
<1> QED BY <1>1 DEF RelayInv, RestType, RelayTypeOK, RelayPlaces

-----------------------------------------------------------------------------
(* What the parts of a handler do.                                         *)

LEMMA JobFacts ==
  ASSUME RelayInv, NEW j \in RelayJobs
  PROVE  /\ RelayJobOK(j) /\ relayAt[j] \in RelayPlaces
         /\ relayStatus[j] \in {"new", "pending", "active", "completed", "failed", "cancelled"}
         /\ relayTries[j] \in 0..RelayRetries /\ memo[j] \in RelayJobs
BY DEF RelayInv, RelayTypeOK, RelayPlaces

LEMMA InvTypes ==
  ASSUME RelayInv
  PROVE  /\ RestType /\ relayAt \in [RelayJobs -> RelayPlaces]
         /\ lane \in Seq(RelayJobs) /\ Once(lane)
         /\ line \in [Servers -> Seq(RelayJobs)] /\ \A k \in Servers : Once(line[k])
BY RelayTypes DEF RelayInv

(* A job of which a step changes nothing.                                  *)
SameJob(j) ==
  /\ relayStatus'[j] = relayStatus[j] /\ Lenders(j)' = Lenders(j)
  /\ (j \in cleanups') = (j \in cleanups) /\ (j \in removedFlag') = (j \in removedFlag)
  /\ (j \in leftNote') = (j \in leftNote) /\ (j \in everSent') = (j \in everSent)
  /\ target'[j] = target[j]
  /\ mkd[memo[j]] = "made" => mkd'[memo'[j]] = "made"

LEMMA SameFits ==
  ASSUME RelayInv, NEW j \in RelayJobs, SameJob(j),
         NEW w, NEW a, NEW b, NEW r,
         a[j] = relayAt[j], (j \in InSeq(w)) = (j \in InSeq(lane)),
         InLines(b, j) = InLines(line, j), r[j] = route[j]
  PROVE  FitsAfter(j, w, a, b, r)
BY JobFacts DEF SameJob, FitsAfter, RelayJobOK, TargetOK

LEMMA OutOfLineFacts ==
  ASSUME RelayInv, NEW j \in RelayJobs
  PROVE  /\ OutOfLine(j) \in [Servers -> Seq(RelayJobs)]
         /\ \A k \in Servers : Once(OutOfLine(j)[k])
         /\ \A i \in RelayJobs : InLines(OutOfLine(j), i) = IF i = j THEN {} ELSE InLines(line, i)
<1>1. \A k \in Servers :
        LET s == Only(line[k], RelayJobs \ {j}) IN
        s \in Seq(RelayJobs) /\ Once(s) /\ InSeq(s) = InSeq(line[k]) \ {j}
  <2> TAKE k \in Servers
  <2> DEFINE s == Only(line[k], RelayJobs \ {j})
  <2>1. line[k] \in Seq(RelayJobs) /\ Once(line[k])
    BY InvTypes
  <2>2. s \in Seq(RelayJobs) /\ Once(s) /\ InSeq(s) = InSeq(line[k]) \cap (RelayJobs \ {j})
    BY <2>1, OnlyFacts
  <2>3. InSeq(line[k]) \subseteq RelayJobs
    BY <2>1, InSeqFacts
  <2> QED BY <2>2, <2>3
<1> QED BY <1>1 DEF OutOfLine, InLines

LEMMA GiveBackFacts ==
  ASSUME RelayInv, NEW j \in RelayJobs, GiveBack(j)
  PROVE  /\ lent' \in [Servers -> SUBSET RelayJobs]
         /\ \A i \in RelayJobs : Lenders(i)' = IF i = j THEN {} ELSE Lenders(i)
BY InvTypes DEF GiveBack, Lenders, RestType

(* A batch gets a memo that no other job uses.                             *)
LEMMA NewMemoFacts ==
  ASSUME RelayInv, NEW S \in SUBSET RelayJobs, S # {}, NewMemo(S)
  PROVE  /\ memo' \in [RelayJobs -> RelayJobs]
         /\ mkd' \in [RelayJobs -> {"none", "asked", "made"}]
         /\ \A j \in RelayJobs \ S : memo'[j] = memo[j] /\ mkd'[memo'[j]] = mkd[memo[j]]
<1> DEFINE Others == RelayJobs \ S
           f == [j \in Others |-> memo[j]]
           new == CHOOSE m \in RelayJobs : \A j \in RelayJobs \ S : memo[j] # m
<1>1. /\ memo \in [RelayJobs -> RelayJobs] /\ mkd \in [RelayJobs -> {"none", "asked", "made"}]
      /\ IsFiniteSet(RelayJobs)
  BY InvTypes, RelayAssumption DEF RestType, RelayAssumption
<1>2. \E m \in RelayJobs : \A j \in RelayJobs \ S : memo[j] # m
  <2> SUFFICES ASSUME \A m \in RelayJobs : \E j \in Others : memo[j] = m
               PROVE  FALSE
    OBVIOUS
  <2>1. f \in Surjection(Others, RelayJobs)
    BY <1>1 DEF Surjection
  <2>2. /\ IsFiniteSet(Others) /\ Cardinality(Others) <= Cardinality(RelayJobs)
        /\ Cardinality(RelayJobs) = Cardinality(Others) => RelayJobs = Others
    BY <1>1, FS_Subset
  <2>3. Others # RelayJobs
    OBVIOUS
  <2> HIDE DEF f, Others
  <2>4. Cardinality(RelayJobs) <= Cardinality(Others)
    BY <2>1, <2>2, FS_Surjection
  <2>5. Cardinality(RelayJobs) \in Nat /\ Cardinality(Others) \in Nat
    BY <1>1, <2>2, FS_CardinalityType
  <2> QED BY <2>2, <2>3, <2>4, <2>5
<1>3. new \in RelayJobs /\ \A j \in RelayJobs \ S : memo[j] # new
  BY <1>2
<1>4. /\ memo' = [j \in RelayJobs |-> IF j \in S THEN new ELSE memo[j]]
      /\ mkd' = [mkd EXCEPT ![new] = "none"]
  BY DEF NewMemo
<1> HIDE DEF new
<1> QED BY <1>1, <1>3, <1>4

LEMMA JobsToSeq ==
  ASSUME NEW S \in SUBSET RelayJobs
  PROVE  /\ SetToSeq(S) \in Seq(RelayJobs)
         /\ InSeq(SetToSeq(S)) = S /\ Once(SetToSeq(S))
<1>1. IsFiniteSet(S)
  BY RelayAssumption, FS_Subset DEF RelayAssumption
<1> QED BY <1>1, SetToSeqFacts, SeqMonotonic

-----------------------------------------------------------------------------
(* The steps.                                                              *)

LEMMA RelayStart == RelayInit => RelayInv
<1> SUFFICES ASSUME RelayInit PROVE RelayInv
  OBVIOUS
<1>1. InSeq(<<>>) = {} /\ Once(<<>>) /\ <<>> \in Seq(RelayJobs)
  BY DEF InSeq, Once
<1>2. RelayTypeOK /\ maxRunning \in Nat
  BY <1>1, RelayAssumption DEF RelayInit, RelayTypeOK, RelayAssumption
<1>3. Once(lane) /\ \A k \in Servers : Once(line[k])
  BY <1>1 DEF RelayInit
<1>4. ASSUME NEW j \in RelayJobs PROVE RelayJobOK(j)
  <2>1. InLines(line, j) = {} /\ Lenders(j) = {} /\ j \notin InSeq(lane)
    BY <1>1 DEF RelayInit, InLines, Lenders
  <2> QED BY <2>1 DEF RelayInit, RelayJobOK, Placed, Wants, Holds, TargetOK, TargetFits, InAttempt
<1> QED BY <1>2, <1>3, <1>4 DEF RelayInv

(* Each operation keeps the invariant: first a copy that is asked for.      *)
LEMMA EnqueueStep ==
  ASSUME RelayInv, NEW S \in SUBSET RelayJobs, NEW r \in Routes, Enqueue(S, r)
  PROVE  RelayInv'
<1> DEFINE routes == [j \in RelayJobs |-> IF j \in S THEN r ELSE route[j]]
           new == SetToSeq(S)
           w == lane \o new
<1>1. /\ new \in Seq(RelayJobs) /\ InSeq(new) = S /\ Once(new)
      /\ lane \in Seq(RelayJobs) /\ Once(lane)
  BY JobsToSeq, InvTypes
<1>2. \A j \in S : j \in RelayJobs /\ relayStatus[j] = "new"
  BY DEF Enqueue
<1>3. \A j \in S : relayAt[j] = "out" /\ j \notin InSeq(lane)
  BY <1>2, JobFacts DEF RelayJobOK, Placed, RelayPlaces, InRun, InAttempt
<1> HIDE DEF new
<1>4. w \in Seq(RelayJobs) /\ Once(w) /\ InSeq(w) = InSeq(lane) \cup S
  BY <1>1, <1>3, ConcatFacts
<1>5. /\ route' = routes /\ PumpOn(w, relayAt, line, routes)
      /\ relayStatus' = [j \in RelayJobs |-> IF j \in S THEN "pending" ELSE relayStatus[j]]
      /\ UNCHANGED <<maxRunning, lent, relayTries, cleanups, everSent, removedFlag, leftNote, target>>
  BY DEF Enqueue, relayFiles, new
<1>6. /\ memo' \in [RelayJobs -> RelayJobs]
      /\ mkd' \in [RelayJobs -> {"none", "asked", "made"}]
      /\ \A j \in RelayJobs \ S : memo'[j] = memo[j] /\ mkd'[memo'[j]] = mkd[memo[j]]
  BY NewMemoFacts DEF Enqueue
<1> HIDE DEF w, routes
<1>7. RestType'
  BY <1>5, <1>6, InvTypes DEF RestType
<1>8. ASSUME NEW j \in RelayJobs PROVE FitsAfter(j, w, relayAt, line, routes)
  <2>1. CASE j \in S
    <3>1. RelayJobOK(j) /\ relayStatus[j] = "new" /\ relayAt[j] = "out" /\ relayStatus'[j] = "pending"
      BY <1>2, <1>3, <1>5, <2>1, JobFacts
    <3>2. routes[j] = r /\ j \in InSeq(w) /\ Lenders(j)' = Lenders(j)
      BY <1>4, <1>5, <2>1 DEF routes, Lenders
    <3> QED BY <1>5, <3>1, <3>2 DEF FitsAfter, RelayJobOK, Placed, Wants, Holds, TargetOK, TargetFits, InAttempt
  <2>2. CASE j \notin S
    <3>1. SameJob(j)
      BY <1>5, <1>6, <2>2 DEF SameJob, Lenders
    <3>2. routes[j] = route[j] /\ (j \in InSeq(w)) = (j \in InSeq(lane))
      BY <1>4, <2>2 DEF routes
    <3> QED BY <3>1, <3>2, SameFits
  <2> QED BY <2>1, <2>2
<1> QED BY <1>4, <1>5, <1>7, <1>8, InvTypes, PumpKeeps

(* The lease of the lesser key is there: the job asks for the other.       *)
LEMMA FirstLentStep ==
  ASSUME RelayInv, NEW k \in Servers, NEW j \in RelayJobs,
         line[k] # <<>>, j = Head(line[k]), lent' = [lent EXCEPT ![k] = @ \cup {j}],
         FirstLent(j, k),
         UNCHANGED <<relayPlan, lane, relayTries, memo, cleanups, relayFiles>>
  PROVE  RelayInv'
<1> DEFINE k2 == SecondKey(route[j])
<1>1. /\ RelayJobOK(j) /\ relayAt[j] = "first" /\ k = FirstKey(route[j]) /\ relayStatus[j] = "pending"
      /\ route[j] \in Routes /\ k2 \in Servers /\ k2 # k
  BY JobFacts, RouteFacts DEF FirstLent, RelayJobOK, Placed
<1>2. /\ relayAt' = [relayAt EXCEPT ![j] = "second"]
      /\ line' = [line EXCEPT ![k] = Tail(@), ![k2] = Append(@, j)]
      /\ UNCHANGED <<maxRunning, relayStatus, route, lane, relayTries, memo, mkd, cleanups, everSent,
                     removedFlag, leftNote, target>>
  BY DEF FirstLent, Moves, relayPlan, relayFiles
<1>3. InLines(line, j) = {k} /\ Lenders(j) = {}
  BY <1>1 DEF RelayJobOK, Wants, Holds, InAttempt
<1> HIDE DEF k2
<1>4. /\ line[k] \in Seq(RelayJobs) /\ Once(line[k])
      /\ line[k2] \in Seq(RelayJobs) /\ Once(line[k2]) /\ j \notin InSeq(line[k2])
  BY <1>1, <1>3, InvTypes DEF InLines
<1>5. /\ Tail(line[k]) \in Seq(RelayJobs) /\ Once(Tail(line[k]))
      /\ InSeq(Tail(line[k])) = InSeq(line[k]) \ {j}
  BY <1>4, TailFacts
<1>6. /\ Append(line[k2], j) \in Seq(RelayJobs) /\ Once(Append(line[k2], j))
      /\ InSeq(Append(line[k2], j)) = InSeq(line[k2]) \cup {j}
  BY <1>4, AppendFacts
<1>7. /\ line'[k] = Tail(line[k]) /\ line'[k2] = Append(line[k2], j)
      /\ \A i \in Servers \ {k, k2} : line'[i] = line[i]
      /\ line' \in [Servers -> Seq(RelayJobs)] /\ \A i \in Servers : Once(line'[i])
  BY <1>1, <1>2, <1>5, <1>6, InvTypes
<1>8. ASSUME NEW i \in RelayJobs
      PROVE  InLines(line', i) = IF i = j THEN {k2} ELSE InLines(line, i)
  <2>1. \A q \in Servers : j \in InSeq(line[q]) <=> q = k
    BY <1>3 DEF InLines
  <2>2. ASSUME NEW q \in Servers
        PROVE  i \in InSeq(line'[q]) <=> IF i = j THEN q = k2 ELSE i \in InSeq(line[q])
    <3>1. CASE q = k
      BY <1>1, <1>5, <1>7, <3>1
    <3>2. CASE q = k2
      BY <1>6, <1>7, <3>2
    <3>3. CASE q \notin {k, k2}
      BY <1>7, <2>1, <3>3
    <3> QED BY <3>1, <3>2, <3>3
  <2>3. CASE i = j
    BY <1>1, <2>2, <2>3 DEF InLines
  <2>4. CASE i # j
    BY <2>2, <2>4 DEF InLines
  <2> QED BY <2>3, <2>4
<1>9. \A i \in RelayJobs : Lenders(i)' = IF i = j THEN {k} ELSE Lenders(i)
  BY <1>3, InvTypes DEF RestType, Lenders
<1>10. RestType' /\ relayAt' \in [RelayJobs -> RelayPlaces]
  BY <1>2, InvTypes DEF RestType, RelayPlaces, InRun
<1>11. ASSUME NEW i \in RelayJobs PROVE FitsAfter(i, lane', relayAt', line', route')
  <2>1. CASE i = j
    <3>1. relayAt'[j] = "second"
      BY <1>2, InvTypes
    <3>2. InLines(line', j) = {k2} /\ Lenders(j)' = {k}
      BY <1>8, <1>9
    <3> QED BY <1>1, <1>2, <2>1, <3>1, <3>2
        DEF FitsAfter, RelayJobOK, Placed, Wants, Holds, TargetOK, TargetFits, InAttempt, k2
  <2>2. CASE i # j
    <3>1. SameJob(i)
      BY <1>2, <1>9, <2>2 DEF SameJob
    <3>2. relayAt'[i] = relayAt[i] /\ InLines(line', i) = InLines(line, i)
      BY <1>2, <1>8, <2>2, InvTypes
    <3> QED BY <1>2, <3>1, <3>2, SameFits
  <2> QED BY <2>1, <2>2
<1> QED BY <1>2, <1>7, <1>10, <1>11, InvTypes, StepKeeps

(* Both are there.                                                         *)
LEMMA BothLentStep ==
  ASSUME RelayInv, NEW k \in Servers, NEW j \in RelayJobs,
         line[k] # <<>>, j = Head(line[k]), lent' = [lent EXCEPT ![k] = @ \cup {j}],
         BothLent(j, k),
         UNCHANGED <<relayPlan, lane, relayTries, memo, cleanups, relayFiles>>
  PROVE  RelayInv'
<1>1. /\ RelayJobOK(j) /\ relayAt[j] = "second" /\ k = SecondKey(route[j]) /\ relayStatus[j] = "pending"
      /\ route[j] \in Routes /\ memo[j] \in RelayJobs
  BY JobFacts DEF BothLent, RelayJobOK, Placed
<1>2. /\ relayStatus' = [relayStatus EXCEPT ![j] = "active"]
      /\ line' = [line EXCEPT ![k] = Tail(@)]
      /\ UNCHANGED <<maxRunning, route, lane, relayTries, memo, cleanups, everSent,
                     removedFlag, leftNote, target>>
  BY DEF BothLent, Becomes, relayPlan, relayFiles
<1>3. PICK p \in {"sending", "dirs"} :
        /\ relayAt' = [relayAt EXCEPT ![j] = p]
        /\ mkd' = mkd \/ (mkd[memo[j]] # "made" /\ mkd' = [mkd EXCEPT ![memo[j]] = "asked"])
        /\ p = "sending" => mkd'[memo[j]] = "made"
  <2>1. CASE mkd[memo[j]] = "made"
    <3>1. relayAt' = [relayAt EXCEPT ![j] = "sending"] /\ mkd' = mkd
      BY <2>1 DEF BothLent, Made, Moves
    <3> QED BY <2>1, <3>1
  <2>2. CASE mkd[memo[j]] # "made"
    <3>1. relayAt' = [relayAt EXCEPT ![j] = "dirs"] /\ mkd' = [mkd EXCEPT ![memo[j]] = "asked"]
      BY <2>2 DEF BothLent, Made, Moves
    <3> QED BY <2>2, <3>1
  <2> QED BY <2>1, <2>2
<1>4. InLines(line, j) = {k} /\ Lenders(j) = {FirstKey(route[j])}
  BY <1>1 DEF RelayJobOK, Wants, Holds, InAttempt
<1>5. /\ line[k] \in Seq(RelayJobs) /\ Once(line[k])
  BY InvTypes
<1>6. /\ Tail(line[k]) \in Seq(RelayJobs) /\ Once(Tail(line[k]))
      /\ InSeq(Tail(line[k])) = InSeq(line[k]) \ {j}
  BY <1>5, TailFacts
<1>7. /\ line'[k] = Tail(line[k]) /\ \A i \in Servers \ {k} : line'[i] = line[i]
      /\ line' \in [Servers -> Seq(RelayJobs)] /\ \A i \in Servers : Once(line'[i])
  BY <1>2, <1>6, InvTypes
<1>8. ASSUME NEW i \in RelayJobs
      PROVE  InLines(line', i) = IF i = j THEN {} ELSE InLines(line, i)
  <2>1. \A q \in Servers : j \in InSeq(line[q]) <=> q = k
    BY <1>4 DEF InLines
  <2>2. ASSUME NEW q \in Servers
        PROVE  i \in InSeq(line'[q]) <=> i # j /\ i \in InSeq(line[q])
    <3>1. CASE q = k
      BY <1>6, <1>7, <3>1
    <3>2. CASE q # k
      BY <1>7, <2>1, <3>2
    <3> QED BY <3>1, <3>2
  <2> QED BY <2>2 DEF InLines
<1>9. \A i \in RelayJobs : Lenders(i)' = IF i = j THEN Lenders(j) \cup {k} ELSE Lenders(i)
  BY InvTypes DEF RestType, Lenders
<1>10. RestType' /\ relayAt' \in [RelayJobs -> RelayPlaces]
  <2>1. relayAt' \in [RelayJobs -> RelayPlaces]
    BY <1>3, InvTypes DEF RelayPlaces, InRun, InAttempt
  <2>2. mkd' \in [RelayJobs -> {"none", "asked", "made"}]
    BY <1>3, InvTypes DEF RestType
  <2> QED BY <1>2, <2>1, <2>2, InvTypes DEF RestType
<1>11. \A i \in RelayJobs : mkd[memo[i]] = "made" => mkd'[memo'[i]] = "made"
  BY <1>1, <1>3, InvTypes DEF RestType
<1>12. ASSUME NEW i \in RelayJobs PROVE FitsAfter(i, lane', relayAt', line', route')
  <2>1. CASE i = j
    <3>1. relayAt'[j] = p /\ relayStatus'[j] = "active"
      BY <1>2, <1>3, InvTypes DEF RestType
    <3>2. InLines(line', j) = {} /\ Lenders(j)' = {route[j][1], route[j][2]}
      BY <1>1, <1>4, <1>8, <1>9, RouteFacts
    <3>3. Placed("active", p, j \in InSeq(lane))
      BY <1>1, <1>3 DEF RelayJobOK, Placed, InAttempt
    <3> QED BY <1>1, <1>2, <1>3, <2>1, <3>1, <3>2, <3>3
        DEF FitsAfter, RelayJobOK, Wants, Holds, TargetOK, TargetFits, InAttempt
  <2>2. CASE i # j
    <3>1. SameJob(i)
      BY <1>2, <1>9, <1>11, <2>2, InvTypes DEF SameJob, RestType
    <3>2. relayAt'[i] = relayAt[i] /\ InLines(line', i) = InLines(line, i)
      BY <1>2, <1>3, <1>8, <2>2, InvTypes
    <3> QED BY <1>2, <3>1, <3>2, SameFits
  <2> QED BY <2>1, <2>2
<1> QED BY <1>2, <1>7, <1>10, <1>12, InvTypes, StepKeeps

(* A client is lent to the first of the line.                               *)
LEMMA LendStep == ASSUME RelayInv, NEW k \in Servers, Lend(k) PROVE RelayInv'
<1>1. line[k] \in Seq(RelayJobs) /\ line[k] # <<>> /\ Once(line[k])
  BY InvTypes DEF Lend
<1>2. Head(line[k]) \in RelayJobs
  BY <1>1, HeadTailProperties
<1> QED BY <1>1, <1>2, FirstLentStep, BothLentStep DEF Lend

(* A run that fails gives its clients back and is repeated or over.        *)
LEMMA RetryOrFailStep ==
  ASSUME RelayInv, NEW j \in RelayJobs,
         relayAt[j] \in {"first", "second", "sending", "broken"}, relayStatus[j] \in {"pending", "active"},
         NEW b \in [Servers -> Seq(RelayJobs)], \A k \in Servers : Once(b[k]),
         \A i \in RelayJobs : InLines(b, i) = IF i = j THEN {} ELSE InLines(line, i),
         GiveBack(j), RetryOrFail(j, b),
         UNCHANGED <<relayPlan, memo, mkd, relayFiles>>
  PROVE  RelayInv'
<1>1. /\ RelayJobOK(j) /\ j \notin InSeq(lane) /\ j \notin cleanups /\ j \notin removedFlag
  BY JobFacts DEF RelayJobOK, Placed, TargetOK, TargetFits
<1>2. /\ lent' \in [Servers -> SUBSET RelayJobs]
      /\ \A i \in RelayJobs : Lenders(i)' = IF i = j THEN {} ELSE Lenders(i)
  BY GiveBackFacts
<1>3. UNCHANGED <<maxRunning, route, memo, mkd, everSent, removedFlag, leftNote, target>>
  BY DEF relayPlan, relayFiles
<1>4. PICK st \in {"pending", "failed"}, p \in {"backoff", "out"} :
        /\ st = "pending" <=> p = "backoff"
        /\ relayStatus' = [relayStatus EXCEPT ![j] = st]
        /\ PumpOn(lane, Moves(j, p), b, route)
        /\ cleanups' \subseteq cleanups \cup {j} /\ cleanups \subseteq cleanups'
        /\ j \in cleanups' <=> st = "failed" /\ j \in everSent
        /\ relayTries' \in [RelayJobs -> 0..RelayRetries]
  <2>1. CASE /\ relayTries[j] < RelayRetries
             /\ Becomes(j, "pending")
             /\ relayTries' = [relayTries EXCEPT ![j] = @ + 1]
             /\ Pump(lane, Moves(j, "backoff"), b)
             /\ UNCHANGED cleanups
    <3>1. relayTries' \in [RelayJobs -> 0..RelayRetries]
      BY <2>1, InvTypes, RelayAssumption DEF RestType, RelayAssumption
    <3>2. /\ relayStatus' = [relayStatus EXCEPT ![j] = "pending"]
          /\ PumpOn(lane, Moves(j, "backoff"), b, route) /\ cleanups' = cleanups
      BY <2>1 DEF Becomes, Pump
    <3> QED BY <1>1, <3>1, <3>2
  <2>2. CASE /\ Becomes(j, "failed")
             /\ CleanUp(j)
             /\ Pump(lane, Moves(j, "out"), b)
             /\ UNCHANGED relayTries
    <3>1. /\ relayStatus' = [relayStatus EXCEPT ![j] = "failed"]
          /\ PumpOn(lane, Moves(j, "out"), b, route)
          /\ cleanups' = IF j \in everSent THEN cleanups \cup {j} ELSE cleanups
          /\ relayTries' \in [RelayJobs -> 0..RelayRetries]
      BY <2>2, InvTypes DEF Becomes, Pump, CleanUp, Truncated, RestType
    <3> QED BY <1>1, <3>1
  <2> QED BY <2>1, <2>2 DEF RetryOrFail
<1> DEFINE a == Moves(j, p)
<1>5. a \in [RelayJobs -> RelayPlaces] /\ \A i \in RelayJobs : a[i] = IF i = j THEN p ELSE relayAt[i]
  BY <1>4, InvTypes DEF Moves, RelayPlaces
<1>6. PumpOn(lane, a, b, route)
  BY <1>4
<1> HIDE DEF a
<1>7. RestType'
  <2>1. relayStatus' \in [RelayJobs -> {"new", "pending", "active", "completed", "failed", "cancelled"}]
    BY <1>4, InvTypes DEF RestType
  <2> QED BY <1>2, <1>3, <1>4, <2>1, InvTypes DEF RestType
<1>8. ASSUME NEW i \in RelayJobs PROVE FitsAfter(i, lane, a, b, route)
  <2>1. CASE i = j
    <3>1. a[j] = p /\ relayStatus'[j] = st
      BY <1>4, <1>5, InvTypes DEF RestType
    <3>2. Placed(st, p, j \in InSeq(lane)) /\ Wants(p, route[j]) = {} /\ Holds(p, route[j]) = {}
      BY <1>1, <1>4 DEF Placed, Wants, Holds, InAttempt
    <3>3. TargetFits(st, p, j \in cleanups', j \in removedFlag', j \in leftNote', j \in everSent', target'[j])
      BY <1>1, <1>3, <1>4 DEF TargetFits
    <3>4. route[j] \in Routes /\ InLines(b, j) = {} /\ Lenders(j)' = {}
      BY <1>1, <1>2 DEF RelayJobOK
    <3> QED BY <1>4, <2>1, <3>1, <3>2, <3>3, <3>4 DEF FitsAfter
  <2>2. CASE i # j
    <3>1. SameJob(i)
      BY <1>2, <1>3, <1>4, <2>2, InvTypes DEF SameJob, RestType
    <3> QED BY <1>5, <2>2, <3>1, SameFits
  <2> QED BY <2>1, <2>2
<1> QED BY <1>3, <1>5, <1>6, <1>7, <1>8, InvTypes, PumpKeeps

LEMMA BorrowFailsStep == ASSUME RelayInv, NEW j \in RelayJobs, BorrowFails(j) PROVE RelayInv'
<1>1. relayStatus[j] = "pending"
  BY JobFacts DEF BorrowFails, RelayJobOK, Placed
<1> QED BY <1>1, OutOfLineFacts, RetryOrFailStep DEF BorrowFails

(* The jobs that wait for a directory go on, or fail together.             *)
LEMMA MkdStep ==
  ASSUME RelayInv, NEW m \in RelayJobs, NEW x \in {"made", "none"}, NEW p \in {"sending", "broken"},
         mkd[m] = "asked", x = "made" <=> p = "sending",
         mkd' = [mkd EXCEPT ![m] = x],
         relayAt' = [j \in RelayJobs |-> IF relayAt[j] = "dirs" /\ memo[j] = m THEN p ELSE relayAt[j]],
         UNCHANGED <<relayPlan, relayStatus, lane, line, lent, relayTries, memo, cleanups, relayFiles>>
  PROVE  RelayInv'
<1>1. UNCHANGED <<maxRunning, route, relayStatus, lane, line, lent, memo, cleanups, everSent,
                  removedFlag, leftNote, target>>
  BY DEF relayPlan, relayFiles
<1>2. RestType' /\ relayAt' \in [RelayJobs -> RelayPlaces]
  <2>1. relayAt' \in [RelayJobs -> RelayPlaces]
    BY InvTypes DEF RelayPlaces, InRun, InAttempt
  <2>2. mkd' \in [RelayJobs -> {"none", "asked", "made"}]
    BY InvTypes DEF RestType
  <2> QED BY <1>1, <2>1, <2>2, InvTypes DEF RestType
<1>3. ASSUME NEW j \in RelayJobs PROVE FitsAfter(j, lane', relayAt', line', route')
  <2>2. CASE relayAt[j] = "dirs" /\ memo[j] = m
    <3>1. RelayJobOK(j) /\ relayAt'[j] = p /\ Lenders(j)' = Lenders(j)
      BY <1>1, <2>2, JobFacts DEF Lenders
    <3>2. p = "sending" => mkd'[memo'[j]] = "made"
      BY <1>1, <2>2, InvTypes DEF RestType
    <3> QED BY <1>1, <2>2, <3>1, <3>2
        DEF FitsAfter, RelayJobOK, Placed, Wants, Holds, TargetOK, TargetFits, InAttempt
  <2>3. CASE ~(relayAt[j] = "dirs" /\ memo[j] = m)
    <3>1. RelayJobOK(j) /\ relayAt'[j] = relayAt[j] /\ Lenders(j)' = Lenders(j)
      BY <1>1, <2>3, JobFacts DEF Lenders
    <3>2. relayAt[j] = "sending" => memo[j] # m /\ mkd'[memo'[j]] = "made"
      BY <1>1, <3>1, JobFacts, InvTypes DEF RestType, RelayJobOK
    <3> QED BY <1>1, <3>1, <3>2 DEF FitsAfter, RelayJobOK, TargetOK
  <2> QED BY <2>2, <2>3
<1> QED BY <1>1, <1>2, <1>3, InvTypes, StepKeeps

(* The copy: it begins, ends, or fails and waits for its next attempt.      *)
LEMMA SendsStep == ASSUME RelayInv, NEW j \in RelayJobs, Sends(j) PROVE RelayInv'
<1>1. /\ relayAt[j] = "sending" /\ everSent' = everSent \cup {j}
      /\ target' = [target EXCEPT ![j] = "partial"]
      /\ UNCHANGED <<maxRunning, route, relayStatus, relayAt, lane, line, lent, relayTries, memo, mkd,
                     cleanups, removedFlag, leftNote>>
  BY DEF Sends, relayPlan
<1>2. RestType'
  BY <1>1, InvTypes DEF RestType
<1>3. ASSUME NEW i \in RelayJobs PROVE FitsAfter(i, lane', relayAt', line', route')
  <2>1. RelayJobOK(i) /\ Lenders(i)' = Lenders(i) /\ target'[i] = IF i = j THEN "partial" ELSE target[i]
    BY <1>1, JobFacts, InvTypes DEF Lenders, RestType
  <2>2. CASE i = j
    BY <1>1, <2>1, <2>2 DEF FitsAfter, RelayJobOK, Placed, TargetOK, TargetFits, InAttempt
  <2>3. CASE i # j
    BY <1>1, <2>1, <2>3 DEF FitsAfter, RelayJobOK, TargetOK
  <2> QED BY <2>2, <2>3
<1> QED BY <1>1, <1>2, <1>3, InvTypes, StepKeeps

(* A run that is over for good leaves the job out.                         *)
LEMMA RunOverStep ==
  ASSUME RelayInv, NEW j \in RelayJobs, relayAt[j] \in {"sending", "broken"},
         NEW st \in {"completed", "cancelled"}, NEW tg \in {"theirs", "absent", "partial", "whole"},
         st = "completed" => tg = "whole" /\ cleanups' = cleanups,
         relayStatus' = [relayStatus EXCEPT ![j] = st],
         target' = [target EXCEPT ![j] = tg],
         st = "cancelled" => CleanUp(j),
         GiveBack(j), Pump(lane, Moves(j, "out"), line),
         UNCHANGED <<relayPlan, relayTries, memo, mkd, everSent, removedFlag, leftNote>>
  PROVE  RelayInv'
<1>1. RelayJobOK(j) /\ j \notin InSeq(lane) /\ j \notin cleanups /\ j \notin removedFlag /\ InLines(line, j) = {}
  BY JobFacts DEF RelayJobOK, Placed, TargetOK, TargetFits, Wants
<1>2. /\ lent' \in [Servers -> SUBSET RelayJobs]
      /\ \A i \in RelayJobs : Lenders(i)' = IF i = j THEN {} ELSE Lenders(i)
  BY GiveBackFacts
<1>3. UNCHANGED <<maxRunning, route, memo, mkd, relayTries, everSent, removedFlag, leftNote>>
  BY DEF relayPlan
<1>4. /\ cleanups \subseteq cleanups' /\ cleanups' \subseteq cleanups \cup {j}
      /\ st = "completed" => j \notin cleanups'
  BY <1>1 DEF CleanUp
<1> DEFINE a == Moves(j, "out")
<1>5. a \in [RelayJobs -> RelayPlaces] /\ \A i \in RelayJobs : a[i] = IF i = j THEN "out" ELSE relayAt[i]
  BY InvTypes DEF Moves, RelayPlaces
<1>6. PumpOn(lane, a, line, route)
  BY DEF Pump
<1> HIDE DEF a
<1>7. RestType'
  <2>1. relayStatus' \in [RelayJobs -> {"new", "pending", "active", "completed", "failed", "cancelled"}]
    BY InvTypes DEF RestType
  <2>2. target' \in [RelayJobs -> {"theirs", "absent", "partial", "whole"}]
    BY InvTypes DEF RestType
  <2> QED BY <1>2, <1>3, <1>4, <2>1, <2>2, InvTypes DEF RestType
<1>8. ASSUME NEW i \in RelayJobs PROVE FitsAfter(i, lane, a, line, route)
  <2>1. CASE i = j
    <3>1. a[j] = "out" /\ relayStatus'[j] = st /\ target'[j] = tg
      BY <1>5, InvTypes DEF RestType
    <3>2. Placed(st, "out", j \in InSeq(lane)) /\ Wants("out", route[j]) = {} /\ Holds("out", route[j]) = {}
      BY <1>1 DEF Placed, Wants, Holds, InAttempt
    <3>3. TargetFits(st, "out", j \in cleanups', j \in removedFlag', j \in leftNote', j \in everSent', tg)
      BY <1>1, <1>3, <1>4 DEF TargetFits
    <3>4. route[j] \in Routes /\ Lenders(j)' = {}
      BY <1>1, <1>2 DEF RelayJobOK, Placed, InAttempt
    <3> QED BY <1>1, <2>1, <3>1, <3>2, <3>3, <3>4 DEF FitsAfter
  <2>2. CASE i # j
    <3>1. SameJob(i)
      BY <1>2, <1>3, <1>4, <2>2, InvTypes DEF SameJob, RestType
    <3> QED BY <1>5, <2>2, <3>1, SameFits
  <2> QED BY <2>1, <2>2
<1> QED BY <1>3, <1>5, <1>6, <1>7, <1>8, InvTypes, PumpKeeps

LEMMA RelayedStep == ASSUME RelayInv, NEW j \in RelayJobs, Relayed(j) PROVE RelayInv'
<1>1. CASE relayStatus[j] = "cancelled"
  <2>1. relayStatus' = [relayStatus EXCEPT ![j] = "cancelled"]
    BY <1>1, InvTypes DEF Relayed, RestType
  <2> QED BY <1>1, <2>1, RunOverStep DEF Relayed
<1>2. CASE relayStatus[j] # "cancelled"
  BY <1>2, RunOverStep DEF Relayed, Becomes
<1> QED BY <1>1, <1>2

LEMMA AttemptFailsStep == ASSUME RelayInv, NEW j \in RelayJobs, AttemptFails(j) PROVE RelayInv'
<1>1. relayStatus[j] \in {"active", "cancelled"} /\ InLines(line, j) = {}
  BY JobFacts DEF AttemptFails, RelayJobOK, Placed, Wants, InAttempt
<1>2. CASE relayStatus[j] = "cancelled"
  <2>1. relayStatus' = [relayStatus EXCEPT ![j] = "cancelled"] /\ target' = [target EXCEPT ![j] = target[j]]
    BY <1>2, InvTypes DEF AttemptFails, RestType, relayFiles
  <2>2. target[j] \in {"theirs", "absent", "partial", "whole"}
    BY InvTypes DEF RestType
  <2> QED BY <1>2, <2>1, <2>2, RunOverStep DEF AttemptFails, relayFiles
<1>3. CASE relayStatus[j] # "cancelled"
  <2>1. \A i \in RelayJobs : InLines(line, i) = IF i = j THEN {} ELSE InLines(line, i)
    BY <1>1
  <2> QED BY <1>1, <1>3, <2>1, InvTypes, RetryOrFailStep DEF AttemptFails
<1> QED BY <1>2, <1>3

(* A job at no run joins the lane, in front or behind, or drops out.       *)
LEMMA AttemptLearnsStep == ASSUME RelayInv, NEW j \in RelayJobs, AttemptLearns(j) PROVE RelayInv'
<1> DEFINE one == <<j>>
           w == one \o lane
           a == Moves(j, "out")
<1>1. /\ relayAt[j] \in {"sending", "broken"} /\ relayStatus[j] = "active"
      /\ RelayJobOK(j) /\ j \notin InSeq(lane) /\ j \notin cleanups /\ j \notin removedFlag
      /\ InLines(line, j) = {}
  BY JobFacts DEF AttemptLearns, RelayJobOK, Placed, TargetOK, TargetFits, Wants
<1>2. /\ lent' \in [Servers -> SUBSET RelayJobs]
      /\ \A i \in RelayJobs : Lenders(i)' = IF i = j THEN {} ELSE Lenders(i)
  BY GiveBackFacts DEF AttemptLearns
<1>3. /\ relayStatus' = [relayStatus EXCEPT ![j] = "pending"] /\ PumpOn(w, a, line, route)
      /\ UNCHANGED <<maxRunning, route, relayTries, memo, mkd, cleanups, everSent, removedFlag, leftNote, target>>
  BY DEF AttemptLearns, Becomes, Pump, relayPlan, relayFiles
<1>4. one \in Seq(RelayJobs) /\ InSeq(one) = {j} /\ Once(one) /\ lane \in Seq(RelayJobs) /\ Once(lane)
  BY SingleFacts, InvTypes
<1> HIDE DEF one
<1>5. w \in Seq(RelayJobs) /\ Once(w) /\ InSeq(w) = InSeq(lane) \cup {j}
  BY <1>1, <1>4, ConcatFacts
<1>6. a \in [RelayJobs -> RelayPlaces] /\ \A i \in RelayJobs : a[i] = IF i = j THEN "out" ELSE relayAt[i]
  BY InvTypes DEF Moves, RelayPlaces
<1> HIDE DEF a, w
<1>7. RestType'
  BY <1>2, <1>3, InvTypes DEF RestType
<1>8. ASSUME NEW i \in RelayJobs PROVE FitsAfter(i, w, a, line, route)
  <2>1. CASE i = j
    <3>1. a[j] = "out" /\ relayStatus'[j] = "pending" /\ j \in InSeq(w) /\ Lenders(j)' = {}
      BY <1>2, <1>3, <1>5, <1>6, InvTypes DEF RestType
    <3> QED BY <1>1, <1>3, <2>1, <3>1
        DEF FitsAfter, RelayJobOK, Placed, Wants, Holds, TargetOK, TargetFits, InAttempt
  <2>2. CASE i # j
    <3>1. SameJob(i) /\ a[i] = relayAt[i] /\ (i \in InSeq(w)) = (i \in InSeq(lane))
      BY <1>2, <1>3, <1>5, <1>6, <2>2, InvTypes DEF SameJob, RestType
    <3> QED BY <3>1, SameFits
  <2> QED BY <2>1, <2>2
<1> QED BY <1>3, <1>5, <1>6, <1>7, <1>8, InvTypes, PumpKeeps

(* The lane with a pending job behind.                                     *)
LEMMA BehindFacts ==
  ASSUME RelayInv, NEW j \in RelayJobs, j \notin InSeq(lane)
  PROVE  LET w == IF relayStatus[j] = "pending" THEN Append(lane, j) ELSE lane IN
         /\ w \in Seq(RelayJobs) /\ Once(w)
         /\ \A i \in RelayJobs :
              i \in InSeq(w) <=> i \in InSeq(lane) \/ (i = j /\ relayStatus[j] = "pending")
<1>1. lane \in Seq(RelayJobs) /\ Once(lane)
  BY InvTypes
<1>2. /\ Append(lane, j) \in Seq(RelayJobs) /\ Once(Append(lane, j))
      /\ InSeq(Append(lane, j)) = InSeq(lane) \cup {j}
  BY <1>1, AppendFacts
<1> QED BY <1>1, <1>2

LEMMA BackoffOverStep == ASSUME RelayInv, NEW j \in RelayJobs, BackoffOver(j) PROVE RelayInv'
<1> DEFINE w == IF relayStatus[j] = "pending" THEN Append(lane, j) ELSE lane
           a == Moves(j, "out")
<1>1. /\ relayAt[j] = "backoff" /\ relayStatus[j] \in {"pending", "cancelled"}
      /\ RelayJobOK(j) /\ j \notin InSeq(lane) /\ j \notin cleanups /\ j \notin removedFlag
  BY JobFacts DEF BackoffOver, RelayJobOK, Placed, TargetOK, TargetFits
<1>2. /\ PumpOn(w, a, line, route)
      /\ UNCHANGED <<maxRunning, route, relayStatus, lent, relayTries, memo, mkd, cleanups, everSent,
                     removedFlag, leftNote, target>>
  BY DEF BackoffOver, Pump, relayPlan, relayFiles
<1>3. /\ w \in Seq(RelayJobs) /\ Once(w)
      /\ \A i \in RelayJobs :
           i \in InSeq(w) <=> i \in InSeq(lane) \/ (i = j /\ relayStatus[j] = "pending")
  BY <1>1, BehindFacts
<1>4. a \in [RelayJobs -> RelayPlaces] /\ \A i \in RelayJobs : a[i] = IF i = j THEN "out" ELSE relayAt[i]
  BY InvTypes DEF Moves, RelayPlaces
<1> HIDE DEF a, w
<1>5. RestType'
  BY <1>2, InvTypes DEF RestType
<1>6. ASSUME NEW i \in RelayJobs PROVE FitsAfter(i, w, a, line, route)
  <2>0. Lenders(i)' = Lenders(i)
    BY <1>2 DEF Lenders
  <2>1. CASE i = j
    BY <1>1, <1>2, <1>3, <1>4, <2>0, <2>1
    DEF FitsAfter, RelayJobOK, Placed, Wants, Holds, TargetOK, TargetFits, InAttempt
  <2>2. CASE i # j
    <3>1. SameJob(i) /\ a[i] = relayAt[i] /\ (i \in InSeq(w)) = (i \in InSeq(lane))
      BY <1>2, <1>3, <1>4, <2>0, <2>2 DEF SameJob
    <3> QED BY <3>1, SameFits
  <2> QED BY <2>1, <2>2
<1> QED BY <1>2, <1>3, <1>4, <1>5, <1>6, InvTypes, PumpKeeps

(* Cancelled wherever it is: out of the line, or its clients closed under   *)
(* it.                                                                      *)
LEMMA CancelRelayStep == ASSUME RelayInv, NEW j \in RelayJobs, CancelRelay(j) PROVE RelayInv'
<1>1. /\ RelayJobOK(j) /\ relayStatus[j] \in {"pending", "active"} /\ relayAt[j] \in RelayPlaces
      /\ relayStatus' = [relayStatus EXCEPT ![j] = "cancelled"]
      /\ UNCHANGED <<maxRunning, route, relayTries, memo, mkd, cleanups, everSent, removedFlag, leftNote, target>>
  BY JobFacts DEF CancelRelay, Becomes, relayPlan, relayFiles
<1>2. \A i \in RelayJobs : relayStatus'[i] = IF i = j THEN "cancelled" ELSE relayStatus[i]
  BY <1>1, InvTypes DEF RestType
<1>3. lent' \in [Servers -> SUBSET RelayJobs] => RestType'
  BY <1>1, InvTypes DEF RestType
<1>4. CASE relayAt[j] \in {"first", "second"}
  <2> DEFINE a == Moves(j, "out")
             b == OutOfLine(j)
  <2>1. /\ b \in [Servers -> Seq(RelayJobs)] /\ \A k \in Servers : Once(b[k])
        /\ \A i \in RelayJobs : InLines(b, i) = IF i = j THEN {} ELSE InLines(line, i)
    BY OutOfLineFacts
  <2>2. /\ lent' \in [Servers -> SUBSET RelayJobs]
        /\ \A i \in RelayJobs : Lenders(i)' = IF i = j THEN {} ELSE Lenders(i)
    BY <1>4, GiveBackFacts DEF CancelRelay
  <2>3. PumpOn(lane, a, b, route)
    BY <1>4 DEF CancelRelay, Pump
  <2>4. a \in [RelayJobs -> RelayPlaces] /\ \A i \in RelayJobs : a[i] = IF i = j THEN "out" ELSE relayAt[i]
    BY InvTypes DEF Moves, RelayPlaces
  <2> HIDE DEF a, b
  <2>5. ASSUME NEW i \in RelayJobs PROVE FitsAfter(i, lane, a, b, route)
    <3>1. CASE i = j
      <4>1. InLines(b, j) = {} /\ Lenders(j)' = {} /\ a[j] = "out" /\ j \notin InSeq(lane)
        BY <1>1, <1>4, <2>1, <2>2, <2>4 DEF RelayJobOK, Placed
      <4> QED BY <1>1, <1>2, <1>4, <3>1, <4>1
          DEF FitsAfter, RelayJobOK, Placed, Wants, Holds, TargetOK, TargetFits, InAttempt
    <3>2. CASE i # j
      <4>1. SameJob(i)
        BY <1>1, <1>2, <2>2, <3>2 DEF SameJob
      <4> QED BY <2>1, <2>4, <3>2, <4>1, SameFits
    <3> QED BY <3>1, <3>2
  <2> QED BY <1>1, <1>3, <2>1, <2>2, <2>3, <2>4, <2>5, InvTypes, PumpKeeps
<1>5. CASE relayAt[j] \notin {"first", "second"}
  <2>1. lane' = Only(lane, RelayJobs \ {j}) /\ UNCHANGED <<relayAt, line, lent>>
    BY <1>5 DEF CancelRelay
  <2>2. lane' \in Seq(RelayJobs) /\ Once(lane') /\ InSeq(lane') = InSeq(lane) \cap (RelayJobs \ {j})
    BY <2>1, OnlyFacts, InvTypes
  <2>3. ASSUME NEW i \in RelayJobs PROVE FitsAfter(i, lane', relayAt', line', route')
    <3>0. Lenders(i)' = Lenders(i)
      BY <2>1 DEF Lenders
    <3>1. CASE i = j
      <4>1. /\ relayStatus'[j] = "cancelled" /\ relayAt' = relayAt /\ line' = line
            /\ j \notin InSeq(lane')
        BY <1>2, <2>1, <2>2
      <4>2. Placed("cancelled", relayAt[j], FALSE)
        BY <1>1, <1>5 DEF RelayJobOK, Placed, RelayPlaces, InRun, InAttempt
      <4>3. TargetFits("cancelled", relayAt[j], j \in cleanups', j \in removedFlag', j \in leftNote',
                       j \in everSent', target'[j])
        BY <1>1 DEF RelayJobOK, TargetOK, TargetFits
      <4>4. /\ route'[j] \in Routes /\ InLines(line, j) = Wants(relayAt[j], route'[j])
            /\ Lenders(j)' = Holds(relayAt[j], route'[j])
            /\ relayAt[j] = "sending" => mkd'[memo'[j]] = "made"
        <5>1. route' = route /\ mkd' = mkd /\ memo' = memo /\ Lenders(j)' = Lenders(j)
          BY <1>1, <3>0, <3>1
        <5> QED BY <1>1, <5>1 DEF RelayJobOK
      <4> QED BY <3>1, <4>1, <4>2, <4>3, <4>4 DEF FitsAfter, Placed
    <3>2. CASE i # j
      <4>1. SameJob(i) /\ (i \in InSeq(lane')) = (i \in InSeq(lane))
        BY <1>1, <1>2, <2>2, <3>0, <3>2 DEF SameJob
      <4> QED BY <1>1, <2>1, <4>1, SameFits
    <3> QED BY <3>1, <3>2
  <2> QED BY <1>3, <2>1, <2>2, <2>3, InvTypes, StepKeeps DEF RestType
<1> QED BY <1>4, <1>5

(* A failed job starts again, when its clean-up is over.                   *)
LEMMA RetryRelayStep == ASSUME RelayInv, NEW S \in SUBSET RelayJobs, RetryRelay(S) PROVE RelayInv'
<1> DEFINE ready == S \ cleanups
           new == SetToSeq(ready)
           w == lane \o new
           a == [j \in RelayJobs |-> IF j \in S \cap cleanups THEN "held" ELSE relayAt[j]]
<1>1. /\ new \in Seq(RelayJobs) /\ InSeq(new) = ready /\ Once(new)
      /\ lane \in Seq(RelayJobs) /\ Once(lane)
  <2>1. ready \in SUBSET RelayJobs
    OBVIOUS
  <2> HIDE DEF ready
  <2> QED BY <2>1, JobsToSeq, InvTypes
<1>2. ASSUME NEW j \in S
      PROVE  /\ j \in RelayJobs /\ RelayJobOK(j) /\ relayStatus[j] = "failed"
             /\ relayAt[j] = "out" /\ j \notin InSeq(lane)
  <2>1. j \in RelayJobs /\ RelayJobOK(j) /\ relayStatus[j] = "failed" /\ relayAt[j] \in RelayPlaces
    BY JobFacts DEF RetryRelay
  <2> QED BY <2>1 DEF RelayJobOK, Placed, RelayPlaces, InRun, InAttempt
<1>3. S \ Held(S) = ready /\ Held(S) = S \cap cleanups
  BY DEF Held
<1>4. /\ PumpOn(w, a, line, route)
      /\ relayStatus' = [j \in RelayJobs |-> IF j \in S THEN "pending" ELSE relayStatus[j]]
      /\ relayTries' = [j \in RelayJobs |-> IF j \in S THEN 0 ELSE relayTries[j]]
      /\ everSent' = everSent \ S /\ removedFlag' = removedFlag \ S /\ leftNote' = leftNote \ S
      /\ UNCHANGED <<maxRunning, route, lent, cleanups, target>>
  BY <1>3 DEF RetryRelay, Pump, relayPlan
<1>5. /\ memo' \in [RelayJobs -> RelayJobs]
      /\ mkd' \in [RelayJobs -> {"none", "asked", "made"}]
      /\ \A j \in RelayJobs \ S : memo'[j] = memo[j] /\ mkd'[memo'[j]] = mkd[memo[j]]
  BY NewMemoFacts DEF RetryRelay
<1>6. a \in [RelayJobs -> RelayPlaces]
  BY InvTypes DEF RelayPlaces
<1>7. \A j \in RelayJobs : a[j] = IF j \in S \cap cleanups THEN "held" ELSE relayAt[j]
  OBVIOUS
<1> HIDE DEF new, a
<1>8. w \in Seq(RelayJobs) /\ Once(w) /\ InSeq(w) = InSeq(lane) \cup ready
  BY <1>1, <1>2, ConcatFacts
<1> HIDE DEF w
<1>9. RestType'
  BY <1>4, <1>5, InvTypes, RelayAssumption DEF RestType, RelayAssumption
<1>10. ASSUME NEW j \in RelayJobs PROVE FitsAfter(j, w, a, line, route)
  <2>0. Lenders(j)' = Lenders(j)
    BY <1>4 DEF Lenders
  <2>1. CASE j \in S
    <3>1. RelayJobOK(j) /\ relayStatus'[j] = "pending" /\ relayAt[j] = "out" /\ j \notin InSeq(lane)
      BY <1>2, <1>4, <2>1
    <3>2. IF j \in cleanups THEN a[j] = "held" /\ j \notin InSeq(w) ELSE a[j] = "out" /\ j \in InSeq(w)
      BY <1>7, <1>8, <2>1, <3>1
    <3>3. j \notin removedFlag' /\ j \notin everSent' /\ (j \in cleanups') = (j \in cleanups)
      BY <1>4, <2>1
    <3>4. route[j] \in Routes /\ InLines(line, j) = {} /\ Lenders(j)' = {}
      BY <1>2, <2>0, <2>1 DEF RelayJobOK, Wants, Holds, InAttempt
    <3>5. CASE j \in cleanups
      BY <3>1, <3>2, <3>3, <3>4, <3>5 DEF FitsAfter, Placed, Wants, Holds, TargetFits, InAttempt
    <3>6. CASE j \notin cleanups
      BY <3>1, <3>2, <3>3, <3>4, <3>6 DEF FitsAfter, Placed, Wants, Holds, TargetFits, InAttempt
    <3> QED BY <3>5, <3>6
  <2>2. CASE j \notin S
    <3>1. SameJob(j) /\ a[j] = relayAt[j] /\ (j \in InSeq(w)) = (j \in InSeq(lane))
      BY <1>4, <1>5, <1>7, <1>8, <2>0, <2>2 DEF SameJob
    <3> QED BY <3>1, SameFits
  <2> QED BY <2>1, <2>2
<1> QED BY <1>4, <1>6, <1>8, <1>9, <1>10, InvTypes, PumpKeeps

(* What a clean-up tells the job, and what it leaves of the file.          *)
LEMMA CleanupFacts ==
  ASSUME RelayInv, NEW j \in RelayJobs, NEW deleted \in BOOLEAN, CleanupOver(j, deleted)
  PROVE  /\ RelayJobOK(j) /\ j \in cleanups /\ relayAt[j] \in {"out", "held"}
         /\ j \notin InSeq(lane) \/ relayAt[j] = "out"
         /\ RestType'
         /\ UNCHANGED <<maxRunning, route, relayStatus, lent, memo, mkd, everSent>>
         /\ TargetFits(relayStatus'[j], "out", j \in cleanups', j \in removedFlag', j \in leftNote',
                       j \in everSent', target'[j])
         /\ \A i \in RelayJobs : i # j => SameJob(i)
<1>1. /\ RelayJobOK(j) /\ j \in cleanups /\ cleanups' = cleanups \ {j}
      /\ target' = [target EXCEPT ![j] = IF deleted THEN "absent" ELSE @]
      /\ UNCHANGED <<maxRunning, route, relayStatus, lent, relayTries, memo, mkd, everSent>>
  BY JobFacts DEF CleanupOver, relayPlan
<1>2. /\ \/ /\ relayAt[j] = "held" /\ relayStatus[j] \in {"pending", "cancelled"}
            /\ j \notin removedFlag
         \/ relayAt[j] = "out" /\ relayStatus[j] \in {"failed", "cancelled"}
      /\ j \notin InSeq(lane) \/ relayAt[j] = "out"
  BY <1>1 DEF RelayJobOK, TargetOK, TargetFits, Placed, InAttempt
<1> DEFINE told == relayStatus[j] \in {"failed", "cancelled"} /\ relayAt[j] = "out"
<1>3. /\ removedFlag' = IF told /\ deleted THEN removedFlag \cup {j} ELSE removedFlag
      /\ leftNote' = IF told /\ ~deleted THEN leftNote \cup {j} ELSE leftNote
  BY DEF CleanupOver
<1>4. target' \in [RelayJobs -> {"theirs", "absent", "partial", "whole"}]
  BY <1>1, InvTypes DEF RestType
<1>5. RestType'
  BY <1>1, <1>3, <1>4, InvTypes DEF RestType
<1>6. TargetFits(relayStatus'[j], "out", j \in cleanups', j \in removedFlag', j \in leftNote',
                 j \in everSent', target'[j])
  <2>1. target'[j] = IF deleted THEN "absent" ELSE target[j]
    BY <1>1, InvTypes DEF RestType
  <2>2. j \in removedFlag => target[j] = "absent"
    BY <1>1 DEF RelayJobOK, TargetOK, TargetFits
  <2>3. relayStatus[j] # "completed" /\ relayStatus'[j] = relayStatus[j] /\ j \notin cleanups'
    BY <1>1, <1>2
  <2>4. j \in removedFlag' => target'[j] = "absent" /\ relayStatus[j] \in {"failed", "cancelled"}
    BY <1>2, <1>3, <2>1, <2>2
  <2>5. relayStatus[j] = "failed" => target'[j] = "absent" \/ j \in leftNote'
    BY <1>2, <1>3, <2>1
  <2> QED BY <2>3, <2>4, <2>5 DEF TargetFits
<1>7. \A i \in RelayJobs : i # j => SameJob(i)
  BY <1>1, <1>3, InvTypes DEF SameJob, Lenders, RestType
<1> QED BY <1>1, <1>2, <1>5, <1>6, <1>7

(* The truncated target has been removed, or not.                           *)
LEMMA CleanupOverStep ==
  ASSUME RelayInv, NEW j \in RelayJobs, NEW deleted \in BOOLEAN, CleanupOver(j, deleted)
  PROVE  RelayInv'
<1>1. /\ RelayJobOK(j) /\ j \in cleanups /\ relayAt[j] \in {"out", "held"}
      /\ j \notin InSeq(lane) \/ relayAt[j] = "out"
      /\ RestType'
      /\ UNCHANGED <<maxRunning, route, relayStatus, lent, memo, mkd, everSent>>
      /\ TargetFits(relayStatus'[j], "out", j \in cleanups', j \in removedFlag', j \in leftNote',
                    j \in everSent', target'[j])
      /\ \A i \in RelayJobs : i # j => SameJob(i)
  BY CleanupFacts
<1>2. Lenders(j)' = Lenders(j)
  BY <1>1 DEF Lenders
<1>3. CASE relayAt[j] = "held"
  <2> DEFINE w == IF relayStatus[j] = "pending" THEN Append(lane, j) ELSE lane
             a == Moves(j, "out")
  <2>1. PumpOn(w, a, line, route)
    BY <1>3 DEF CleanupOver, Pump
  <2>2. j \notin InSeq(lane) /\ relayStatus[j] \in {"pending", "cancelled"} /\ route[j] \in Routes
    BY <1>1, <1>3 DEF RelayJobOK, Placed
  <2>3. /\ w \in Seq(RelayJobs) /\ Once(w)
        /\ \A i \in RelayJobs :
             i \in InSeq(w) <=> i \in InSeq(lane) \/ (i = j /\ relayStatus[j] = "pending")
    BY <2>2, BehindFacts
  <2>4. a \in [RelayJobs -> RelayPlaces] /\ \A i \in RelayJobs : a[i] = IF i = j THEN "out" ELSE relayAt[i]
    BY InvTypes DEF Moves, RelayPlaces
  <2> HIDE DEF a, w
  <2>5. ASSUME NEW i \in RelayJobs PROVE FitsAfter(i, w, a, line, route)
    <3>1. CASE i = j
      <4>1. /\ a[j] = "out" /\ relayStatus'[j] = relayStatus[j]
            /\ InLines(line, j) = {} /\ Lenders(j)' = {}
        BY <1>1, <1>2, <1>3, <2>4 DEF RelayJobOK, Wants, Holds, InAttempt
      <4>2. Placed(relayStatus[j], "out", j \in InSeq(w))
        BY <2>2, <2>3 DEF Placed, InAttempt
      <4>3. Wants("out", route[j]) = {} /\ Holds("out", route[j]) = {}
        BY DEF Wants, Holds, InAttempt
      <4> QED BY <1>1, <2>2, <3>1, <4>1, <4>2, <4>3 DEF FitsAfter
    <3>2. CASE i # j
      BY <1>1, <2>3, <2>4, <3>2, SameFits
    <3> QED BY <3>1, <3>2
  <2> QED BY <1>1, <2>1, <2>3, <2>4, <2>5, InvTypes, PumpKeeps
<1>4. CASE relayAt[j] = "out"
  <2>1. UNCHANGED <<relayAt, lane, line>>
    BY <1>4 DEF CleanupOver
  <2>2. ASSUME NEW i \in RelayJobs PROVE FitsAfter(i, lane', relayAt', line', route')
    <3>1. CASE i = j
      BY <1>1, <1>2, <1>4, <2>1, <3>1 DEF FitsAfter, RelayJobOK
    <3>2. CASE i # j
      BY <1>1, <2>1, <3>2, SameFits
    <3> QED BY <3>1, <3>2
  <2> QED BY <1>1, <2>1, <2>2, InvTypes, StepKeeps
<1> QED BY <1>1, <1>3, <1>4

-----------------------------------------------------------------------------
(* The theorems.                                                           *)

LEMMA RelayStepKeeps == RelayInv /\ [RelayNext]_relayVars => RelayInv'
<1> SUFFICES ASSUME RelayInv, [RelayNext]_relayVars PROVE RelayInv'
  OBVIOUS
<1>1. ASSUME NEW k \in Servers, Lend(k) PROVE RelayInv'
  BY <1>1, LendStep
<1>2. ASSUME NEW m \in RelayJobs, MkdAnswered(m) PROVE RelayInv'
  BY <1>2, MkdStep DEF MkdAnswered
<1>3. ASSUME NEW m \in RelayJobs, MkdLost(m) PROVE RelayInv'
  BY <1>3, MkdStep DEF MkdLost
<1>4. ASSUME NEW j \in RelayJobs,
             \/ Sends(j) \/ Relayed(j) \/ AttemptFails(j) \/ BackoffOver(j)
             \/ BorrowFails(j) \/ AttemptLearns(j) \/ CancelRelay(j)
      PROVE  RelayInv'
  BY <1>4, SendsStep, RelayedStep, AttemptFailsStep, BackoffOverStep, BorrowFailsStep,
     AttemptLearnsStep, CancelRelayStep
<1>5. ASSUME NEW j \in RelayJobs, NEW deleted \in BOOLEAN, CleanupOver(j, deleted) PROVE RelayInv'
  BY <1>5, CleanupOverStep
<1>6. ASSUME NEW S \in SUBSET RelayJobs, RetryRelay(S) PROVE RelayInv'
  BY <1>6, RetryRelayStep
<1>7. ASSUME NEW S \in SUBSET RelayJobs, NEW r \in Servers \X Servers, r[1] # r[2], Enqueue(S, r)
      PROVE  RelayInv'
  BY <1>7, EnqueueStep DEF Routes
<1>8. ASSUME UNCHANGED relayVars PROVE RelayInv'
  BY <1>8 DEF relayVars, RelayInv, RelayTypeOK, RelayJobOK, TargetOK, InLines, Lenders
<1> QED BY <1>1, <1>2, <1>3, <1>4, <1>5, <1>6, <1>7, <1>8 DEF RelayNext, RelayProgress

(* The invariant gives the property.                                        *)
LEMMA RelayInvGives == RelayInv => RelaySafe
<1> SUFFICES ASSUME RelayInv PROVE RelaySafe
  OBVIOUS
<1>1. RelayTypeOK
  BY DEF RelayInv
<1>2. LeasesMatch
  <2> SUFFICES ASSUME NEW j \in RelayJobs, NEW k \in Servers
               PROVE  j \in lent[k] <=>
                        \/ relayAt[j] = "second" /\ k = FirstKey(route[j])
                        \/ relayAt[j] \in InAttempt /\ k \in {route[j][1], route[j][2]}
    BY DEF LeasesMatch
  <2>1. j \in lent[k] <=> k \in Holds(relayAt[j], route[j])
    BY JobFacts DEF RelayJobOK, Lenders
  <2> QED BY <2>1 DEF Holds, InAttempt
<1>3. RemovalApart /\ DirsFirst /\ OutcomeHonest
  <2>1. \A j \in RelayJobs : RelayJobOK(j)
    BY JobFacts
  <2>2. cleanups \subseteq RelayJobs
    BY InvTypes DEF RestType
  <2>3. RemovalApart
    BY <2>1, <2>2 DEF RemovalApart, RelayJobOK, TargetOK, TargetFits
  <2>4. DirsFirst
    BY <2>1 DEF DirsFirst, RelayJobOK
  <2>5. OutcomeHonest
    BY <2>1 DEF OutcomeHonest, RelayJobOK, TargetOK, TargetFits
  <2> QED BY <2>3, <2>4, <2>5
<1> QED BY <1>1, <1>2, <1>3 DEF RelaySafe

(* The inductive invariant: each job is at one place of its life, stands in *)
(* the line of the server whose client it needs next and in no other, and   *)
(* holds the clients of the servers it has come past.                       *)
THEOREM RelayInvariance == RelaySpec => []RelayInv
<1>1. RelayInit => RelayInv
  BY RelayStart
<1>2. RelayInv /\ [RelayNext]_relayVars => RelayInv'
  BY RelayStepKeeps
<1> QED BY <1>1, <1>2, PTL DEF RelaySpec

(* No cancellation, refusal or failure between the two borrows leaks a      *)
(* client or lends one twice to a job (borrowBoth()); no clean-up deletes   *)
(* what an attempt is sending; STOR never precedes the directory; what a    *)
(* job reports is what is on the server.                                    *)
THEOREM RelayIsSafe == RelaySpec => []RelaySafe
BY RelayInvariance, RelayInvGives, PTL

-----------------------------------------------------------------------------
(* The update manager.  While the app runs the library's handler for        *)
(* quitting is there exactly when a downloaded update is: the flag was on   *)
(* when its download ended, whatever the setting was.                       *)
UpdateTypes ==
  /\ udStatus \in {"idle", "checking", "available", "up-to-date", "downloading", "ready", "error"}
  /\ udAuto \in BOOLEAN /\ udQuitFlag \in BOOLEAN /\ udChecking \in BOOLEAN
  /\ udDownload \in BOOLEAN /\ udFile \in BOOLEAN /\ udHandler \in BOOLEAN /\ udQuit \in BOOLEAN
  /\ udInstall \in {"no", "user", "quit"}

(* The inductive invariant: the quit handler of the library is there with   *)
(* the file of an update, and nothing is installed before the app quits.    *)
UpdateInv ==
  /\ UpdateTypes /\ UpdateSafe
  /\ udHandler <=> udFile
  /\ ~udQuit => udQuitFlag /\ udInstall = "no"

LEMMA UpdateStepKeeps == UpdateInv /\ [UpdateNext]_updateVars => UpdateInv'
<1> SUFFICES ASSUME UpdateInv, [UpdateNext]_updateVars PROVE UpdateInv'
  OBVIOUS
<1> USE DEF UpdateInv, UpdateTypes, UpdateSafe, NeverStuck, InstallsAsWished
<1>1. CASE CheckAnswers
  BY <1>1 DEF CheckAnswers
<1>2. CASE DownloadEnds
  <2>1. CASE udStatus' = "ready" /\ udFile' = TRUE /\ udHandler' = (udHandler \/ udQuitFlag)
    <3>1. udHandler' = TRUE /\ udQuitFlag' = udQuitFlag /\ ~udQuit' /\ ~udQuit /\ udQuitFlag
      BY <1>2, <2>1, Zenon DEF DownloadEnds
    <3>2. /\ udStatus' = "ready" /\ udFile' = TRUE /\ udDownload' = FALSE
          /\ UNCHANGED <<udAuto, udQuitFlag, udChecking, udInstall, udQuit>>
      BY <1>2, <2>1 DEF DownloadEnds
    <3>3. UpdateTypes'
      BY <3>1, <3>2
    <3>4. (udHandler <=> udFile)' /\ (~udQuit => udQuitFlag /\ udInstall = "no")'
      BY <3>1, <3>2
    <3>5. UpdateSafe'
      BY <3>1, <3>2
    <3> QED BY <3>3, <3>4, <3>5
  <2>2. CASE udStatus' = "error" /\ UNCHANGED <<udFile, udHandler>>
    BY <1>2, <2>2 DEF DownloadEnds
  <2> QED BY <1>2, <2>1, <2>2 DEF DownloadEnds
<1>3. CASE DownloadProgresses
  BY <1>3 DEF DownloadProgresses
<1>4. CASE Check
  BY <1>4 DEF Check, Command, Blocking
<1>5. CASE Download
  BY <1>5 DEF Download, Command, DownloadIfAvailable
<1>6. CASE SetAutoUpdate
  BY <1>6 DEF SetAutoUpdate, Command, DownloadIfAvailable, FlagStays
<1>7. CASE Install
  BY <1>7 DEF Install, Command
<1>8. CASE Quit
  BY <1>8 DEF Quit
<1>9. CASE UNCHANGED updateVars
  BY <1>9 DEF updateVars
<1> QED BY <1>1, <1>2, <1>3, <1>4, <1>5, <1>6, <1>7, <1>8, <1>9 DEF UpdateNext, UpdateProgress

(* The window never waits for something that nothing ends, and the program  *)
(* is installed exactly as the user wishes when it quits (UpdateManager.ts, *)
(* applyAutoUpdate() and before-quit).                                      *)
THEOREM UpdateIsSafe == UpdateSpec => []UpdateSafe
<1>1. UpdateInit => UpdateInv
  BY DEF UpdateInit, UpdateInv, UpdateTypes, UpdateSafe, NeverStuck, InstallsAsWished
<1>2. UpdateInv /\ [UpdateNext]_updateVars => UpdateInv'
  BY UpdateStepKeeps
<1>3. UpdateInv => UpdateSafe
  BY DEF UpdateInv
<1> QED BY <1>1, <1>2, <1>3, PTL DEF UpdateSpec

-----------------------------------------------------------------------------
(* How agents find the app.  The port is the lock of the two files: a run   *)
(* that is anywhere in writing or removing them has it.                     *)
Leaving == {"checking", "removing", "token", "leaving"}
(* Where a run of the app is, and the types.                                *)
EndpointPlaces == {"idle", "publishing", "endpoint"} \cup Leaving

EndpointTypes ==
  /\ epRun \in [AppRuns -> {"new", "up", "dead"}]
  /\ epTokens \in 0..MaxTokens /\ epDbToken \in 0..epTokens /\ epToken \in [AppRuns -> 0..epTokens]
  /\ epListen \in [AppRuns -> BOOLEAN] /\ epStops \in [AppRuns -> BOOLEAN]
  /\ epServer \in [AppRuns -> BOOLEAN] /\ epWanted \in [AppRuns -> BOOLEAN]
  /\ epPort \in AppRuns \cup {0}
  /\ epPc \in [AppRuns -> EndpointPlaces]
  /\ epFile \in [endpoint : AppRuns \cup {0}, token : 0..MaxTokens]

(* The port, of run p.                                                     *)
PortOK(p) ==
  /\ epRun[p] # "up" => ~epListen[p] /\ ~epStops[p] /\ epPort # p
  /\ epServer[p] \/ epPc[p] # "idle" <=> epPort = p
  /\ epPc[p] \in {"publishing", "endpoint"} => epServer[p]
  /\ epPc[p] \in Leaving => ~epServer[p]
  /\ epPort = p => ~epListen[p]

(* The switch and the token.                                               *)
SwitchOK(p) ==
  /\ epStops[p] => epListen[p] \/ epPc[p] \in {"publishing", "endpoint"}
  /\ (epServer[p] \/ epListen[p]) /\ ~epWanted[p] => epStops[p]
  /\ epServer[p] \/ epListen[p] => epToken[p] # 0

(* The files.                                                              *)
FilesOK(p) ==
  /\ epPc[p] = "endpoint" => epFile.token = epToken[p]
  /\ epPc[p] = "token" => epFile.endpoint = 0
  /\ epPc[p] = "leaving" => epFile.endpoint # p
  /\ epServer[p] /\ epPc[p] = "idle" => epFile = [endpoint |-> p, token |-> epToken[p]]
  /\ epFile.endpoint = p /\ epRun[p] # "dead" => epServer[p] \/ epPc[p] \in {"checking", "removing"}

(* The inductive invariant: the port is the lock of the two files.          *)
EndpointInv ==
  /\ EndpointTypes /\ TokenBeside
  /\ \A p \in AppRuns : PortOK(p) /\ SwitchOK(p) /\ FilesOK(p)

LEMMA EndpointStepKeeps == EndpointInv /\ [EndpointNext]_endpointVars => EndpointInv'
<1> SUFFICES ASSUME EndpointInv, [EndpointNext]_endpointVars PROVE EndpointInv'
  OBVIOUS
<1> USE EndpointAssumption DEF EndpointAssumption
<1>1. ASSUME NEW p \in AppRuns, NEW enabled \in BOOLEAN, RunStarts(p, enabled) PROVE EndpointInv'
  <2>1. EndpointTypes'
    BY <1>1 DEF EndpointInv, EndpointTypes, EndpointPlaces, Leaving, RunStarts
  <2>2. TokenBeside'
    BY <1>1 DEF EndpointInv, EndpointTypes, PortOK, SwitchOK, FilesOK, TokenBeside, RunStarts
  <2>3. ASSUME NEW q \in AppRuns PROVE (PortOK(q) /\ SwitchOK(q) /\ FilesOK(q))'
    <3>1. PortOK(q)'
      BY <1>1 DEF EndpointInv, EndpointTypes, EndpointPlaces, Leaving, PortOK, SwitchOK, RunStarts
    <3>2. SwitchOK(q)'
      BY <1>1 DEF EndpointInv, EndpointTypes, EndpointPlaces, Leaving, PortOK, SwitchOK, RunStarts
    <3>3. FilesOK(q)'
      BY <1>1 DEF EndpointInv, EndpointTypes, EndpointPlaces, Leaving, PortOK, FilesOK, RunStarts
    <3> QED BY <3>1, <3>2, <3>3
  <2> QED BY <2>1, <2>2, <2>3 DEF EndpointInv
<1>2. ASSUME NEW p \in AppRuns, SwitchOn(p) PROVE EndpointInv'
  <2>1. EndpointTypes'
    <3>1. /\ epTokens' \in 0..MaxTokens /\ epTokens <= epTokens' /\ epDbToken' \in 0..epTokens'
          /\ epToken' \in [AppRuns -> 0..epTokens'] /\ epListen' \in [AppRuns -> BOOLEAN]
      <4>1. CASE epServer[p] \/ epListen[p]
        BY <1>2, <4>1 DEF EndpointInv, EndpointTypes, SwitchOn, Listen
      <4>2. CASE ~(epServer[p] \/ epListen[p]) /\ epToken[p] # 0
        <5>1. UNCHANGED <<epTokens, epDbToken, epToken>> /\ epListen' = [epListen EXCEPT ![p] = TRUE]
          BY <1>2, <4>2 DEF SwitchOn, Listen
        <5> QED BY <5>1 DEF EndpointInv, EndpointTypes
      <4>3. CASE ~(epServer[p] \/ epListen[p]) /\ epToken[p] = 0
        <5>1. /\ epTokens' = epTokens + 1 /\ epDbToken' = epTokens'
              /\ epToken' = [epToken EXCEPT ![p] = epTokens']
              /\ epListen' = [epListen EXCEPT ![p] = TRUE] /\ epTokens < MaxTokens
          BY <1>2, <4>3 DEF SwitchOn, Listen
        <5> QED BY <5>1 DEF EndpointInv, EndpointTypes
      <4> QED BY <4>1, <4>2, <4>3
    <3> QED BY <1>2, <3>1 DEF EndpointInv, EndpointTypes, SwitchOn
  <2>2. TokenBeside'
    BY <1>2 DEF EndpointInv, EndpointTypes, PortOK, SwitchOK, FilesOK, TokenBeside, SwitchOn, Listen, Free
  <2>3. ASSUME NEW q \in AppRuns PROVE (PortOK(q) /\ SwitchOK(q) /\ FilesOK(q))'
    <3>1. PortOK(q)'
      BY <1>2 DEF EndpointInv, EndpointTypes, EndpointPlaces, Leaving, PortOK, SwitchOK, SwitchOn, Listen, Free
    <3>2. SwitchOK(q)'
      BY <1>2 DEF EndpointInv, EndpointTypes, EndpointPlaces, Leaving, PortOK, SwitchOK, SwitchOn, Listen, Free
    <3>3. FilesOK(q)'
      BY <1>2 DEF EndpointInv, EndpointTypes, EndpointPlaces, Leaving, PortOK, FilesOK, SwitchOn, Listen, Free
    <3> QED BY <3>1, <3>2, <3>3
  <2> QED BY <2>1, <2>2, <2>3 DEF EndpointInv
<1>3. ASSUME NEW p \in AppRuns, SwitchOff(p) PROVE EndpointInv'
  <2>1. EndpointTypes'
    BY <1>3 DEF EndpointInv, EndpointTypes, EndpointPlaces, Leaving, SwitchOff, StopLater, Free
  <2>2. TokenBeside'
    BY <1>3 DEF EndpointInv, EndpointTypes, PortOK, SwitchOK, FilesOK, TokenBeside, SwitchOff, StopLater, Free
  <2>3. ASSUME NEW q \in AppRuns PROVE (PortOK(q) /\ SwitchOK(q) /\ FilesOK(q))'
    <3>1. PortOK(q)'
      BY <1>3 DEF EndpointInv, EndpointTypes, EndpointPlaces, Leaving, PortOK, SwitchOK, SwitchOff, StopLater, Free
    <3>2. SwitchOK(q)'
      BY <1>3 DEF EndpointInv, EndpointTypes, EndpointPlaces, Leaving, PortOK, SwitchOK, SwitchOff, StopLater, Free
    <3>3. FilesOK(q)'
      BY <1>3 DEF EndpointInv, EndpointTypes, EndpointPlaces, Leaving, PortOK, FilesOK, SwitchOff, StopLater, Free
    <3> QED BY <3>1, <3>2, <3>3
  <2> QED BY <2>1, <2>2, <2>3 DEF EndpointInv
<1>4. ASSUME NEW p \in AppRuns, Regenerate(p) PROVE EndpointInv'
  <2>1. EndpointTypes'
    BY <1>4 DEF EndpointInv, EndpointTypes, EndpointPlaces, Leaving, Regenerate, Free
  <2>2. TokenBeside'
    BY <1>4 DEF EndpointInv, EndpointTypes, PortOK, SwitchOK, FilesOK, TokenBeside, Regenerate, Free
  <2>3. ASSUME NEW q \in AppRuns PROVE (PortOK(q) /\ SwitchOK(q) /\ FilesOK(q))'
    <3>1. PortOK(q)'
      BY <1>4 DEF EndpointInv, EndpointTypes, EndpointPlaces, Leaving, PortOK, SwitchOK, Regenerate, Free
    <3>2. SwitchOK(q)'
      BY <1>4 DEF EndpointInv, EndpointTypes, EndpointPlaces, Leaving, PortOK, SwitchOK, Regenerate, Free
    <3>3. FilesOK(q)'
      BY <1>4 DEF EndpointInv, EndpointTypes, EndpointPlaces, Leaving, PortOK, FilesOK, Regenerate, Free
    <3> QED BY <3>1, <3>2, <3>3
  <2> QED BY <2>1, <2>2, <2>3 DEF EndpointInv
<1>5. ASSUME NEW p \in AppRuns, Bound(p) PROVE EndpointInv'
  <2>1. EndpointTypes'
    BY <1>5 DEF EndpointInv, EndpointTypes, EndpointPlaces, Leaving, Bound, Free
  <2>2. TokenBeside'
    BY <1>5 DEF EndpointInv, EndpointTypes, PortOK, SwitchOK, FilesOK, TokenBeside, Bound, Free
  <2>3. ASSUME NEW q \in AppRuns PROVE (PortOK(q) /\ SwitchOK(q) /\ FilesOK(q))'
    <3>1. PortOK(q)'
      BY <1>5 DEF EndpointInv, EndpointTypes, EndpointPlaces, Leaving, PortOK, SwitchOK, Bound, Free
    <3>2. SwitchOK(q)'
      BY <1>5 DEF EndpointInv, EndpointTypes, EndpointPlaces, Leaving, PortOK, SwitchOK, Bound, Free
    <3>3. FilesOK(q)'
      BY <1>5 DEF EndpointInv, EndpointTypes, EndpointPlaces, Leaving, PortOK, FilesOK, Bound, Free
    <3> QED BY <3>1, <3>2, <3>3
  <2> QED BY <2>1, <2>2, <2>3 DEF EndpointInv
<1>6. ASSUME NEW p \in AppRuns, BindFails(p) PROVE EndpointInv'
  <2>1. EndpointTypes'
    BY <1>6 DEF EndpointInv, EndpointTypes, EndpointPlaces, Leaving, BindFails, Free
  <2>2. TokenBeside'
    BY <1>6 DEF EndpointInv, EndpointTypes, PortOK, SwitchOK, FilesOK, TokenBeside, BindFails, Free
  <2>3. ASSUME NEW q \in AppRuns PROVE (PortOK(q) /\ SwitchOK(q) /\ FilesOK(q))'
    <3>1. PortOK(q)'
      BY <1>6 DEF EndpointInv, EndpointTypes, EndpointPlaces, Leaving, PortOK, SwitchOK, BindFails, Free
    <3>2. SwitchOK(q)'
      BY <1>6 DEF EndpointInv, EndpointTypes, EndpointPlaces, Leaving, PortOK, SwitchOK, BindFails, Free
    <3>3. FilesOK(q)'
      BY <1>6 DEF EndpointInv, EndpointTypes, EndpointPlaces, Leaving, PortOK, FilesOK, BindFails, Free
    <3> QED BY <3>1, <3>2, <3>3
  <2> QED BY <2>1, <2>2, <2>3 DEF EndpointInv
<1>7. ASSUME NEW p \in AppRuns, Publishes(p) PROVE EndpointInv'
  <2>1. EndpointTypes'
    BY <1>7 DEF EndpointInv, EndpointTypes, EndpointPlaces, Leaving, Publishes, WritesFile
  <2>2. TokenBeside'
    BY <1>7 DEF EndpointInv, EndpointTypes, PortOK, SwitchOK, FilesOK, TokenBeside, Publishes, WritesFile
  <2>3. ASSUME NEW q \in AppRuns PROVE (PortOK(q) /\ SwitchOK(q) /\ FilesOK(q))'
    <3>1. PortOK(q)'
      BY <1>7 DEF EndpointInv, EndpointTypes, EndpointPlaces, Leaving, PortOK, SwitchOK, Publishes, WritesFile
    <3>2. SwitchOK(q)'
      BY <1>7 DEF EndpointInv, EndpointTypes, EndpointPlaces, Leaving, PortOK, SwitchOK, Publishes, WritesFile
    <3>3. FilesOK(q)'
      BY <1>7 DEF EndpointInv, EndpointTypes, EndpointPlaces, Leaving, PortOK, FilesOK, Publishes, WritesFile
    <3> QED BY <3>1, <3>2, <3>3
  <2> QED BY <2>1, <2>2, <2>3 DEF EndpointInv
<1>8. ASSUME NEW p \in AppRuns, Withdraws(p) PROVE EndpointInv'
  <2>1. EndpointTypes'
    BY <1>8 DEF EndpointInv, EndpointTypes, EndpointPlaces, Leaving, Withdraws, PortLeaves
  <2>2. TokenBeside'
    BY <1>8 DEF EndpointInv, EndpointTypes, PortOK, SwitchOK, FilesOK, TokenBeside, Withdraws, PortLeaves
  <2>3. ASSUME NEW q \in AppRuns PROVE (PortOK(q) /\ SwitchOK(q) /\ FilesOK(q))'
    <3>1. PortOK(q)'
      BY <1>8 DEF EndpointInv, EndpointTypes, EndpointPlaces, Leaving, PortOK, SwitchOK, Withdraws, PortLeaves
    <3>2. SwitchOK(q)'
      BY <1>8 DEF EndpointInv, EndpointTypes, EndpointPlaces, Leaving, PortOK, SwitchOK, Withdraws, PortLeaves
    <3>3. FilesOK(q)'
      BY <1>8 DEF EndpointInv, EndpointTypes, EndpointPlaces, Leaving, PortOK, FilesOK, Withdraws, PortLeaves
    <3> QED BY <3>1, <3>2, <3>3
  <2> QED BY <2>1, <2>2, <2>3 DEF EndpointInv
<1>9. ASSUME NEW p \in AppRuns, Dies(p) PROVE EndpointInv'
  <2>1. EndpointTypes'
    BY <1>9 DEF EndpointInv, EndpointTypes, EndpointPlaces, Leaving, Dies
  <2>2. TokenBeside'
    BY <1>9 DEF EndpointInv, EndpointTypes, PortOK, SwitchOK, FilesOK, TokenBeside, Dies
  <2>3. ASSUME NEW q \in AppRuns PROVE (PortOK(q) /\ SwitchOK(q) /\ FilesOK(q))'
    <3>1. PortOK(q)'
      BY <1>9 DEF EndpointInv, EndpointTypes, EndpointPlaces, Leaving, PortOK, SwitchOK, Dies
    <3>2. SwitchOK(q)'
      BY <1>9 DEF EndpointInv, EndpointTypes, EndpointPlaces, Leaving, PortOK, SwitchOK, Dies
    <3>3. FilesOK(q)'
      BY <1>9 DEF EndpointInv, EndpointTypes, EndpointPlaces, Leaving, PortOK, FilesOK, Dies
    <3> QED BY <3>1, <3>2, <3>3
  <2> QED BY <2>1, <2>2, <2>3 DEF EndpointInv
<1>10. ASSUME UNCHANGED endpointVars PROVE EndpointInv'
  BY <1>10 DEF endpointVars, EndpointInv, EndpointTypes, TokenBeside, PortOK, SwitchOK, FilesOK
<1> QED BY <1>1, <1>2, <1>3, <1>4, <1>5, <1>6, <1>7, <1>8, <1>9, <1>10 DEF EndpointNext, EndpointProgress

(* Agents find the run that listens, and none that was switched off,        *)
(* however runs of the app start, switch, die and overlap: McpService opens *)
(* its port before it touches the files and writes the token first.         *)
THEOREM EndpointIsSafe == EndpointSpec => []EndpointSafe
<1>1. EndpointInit => EndpointInv
  BY EndpointAssumption DEF EndpointInit, EndpointInv, EndpointTypes, TokenBeside, PortOK, SwitchOK, FilesOK,
     EndpointPlaces, Leaving, EndpointAssumption
<1>2. EndpointInv /\ [EndpointNext]_endpointVars => EndpointInv'
  BY EndpointStepKeeps
<1>3. EndpointInv => EndpointSafe
  BY DEF EndpointInv, EndpointTypes, PortOK, SwitchOK, FilesOK, EndpointSafe, EndpointTypeOK, ListenerFound,
     OffIsOff, Free
<1> QED BY <1>1, <1>2, <1>3, PTL DEF EndpointSpec

-----------------------------------------------------------------------------
(* Passwords.  While a migration is under way its list still holds every    *)
(* plain password, as it was read, so that the scrub finds none.           *)

(* Passwords are numbers, 0 for none; a seal is one of them and the call    *)
(* that made it.                                                            *)
Secrets == Nat
Seals == {NoSeal} \cup ((Nat \ {0}) \X Nat)
VaultRow == [there : BOOLEAN, addr : Nat, plain : Nat, sealed : Seals]
Writes == [kind : {"save", "login", "only"}, row : Rows, addr : Nat, at : {"encrypt", "ended"}]
Revelations == [row : Rows, read : Seals, result : Nat, at : {"decrypt", "ended"}]
Listing == [row : Rows, plain : Nat \ {0}]

(* Types, which the steps below need with every range.                      *)
VaultTypes ==
  /\ vaCanEncrypt \in BOOLEAN /\ vaScrubbed \in BOOLEAN
  /\ vaRow \in [Rows -> VaultRow]
  /\ vaMeant \in [Rows -> [secret : Nat, addr : Nat]]
  /\ vaMigrate \in [at : {"start", "rows", "over"}, failed : BOOLEAN, todo : Seq(Listing)]
  /\ vaWrites \in Seq(Writes)
  /\ vaReveals \in Seq(Revelations)
  /\ vaSeals \in Nat \ {0}

(* A save that leaves the password as it is waits for nothing.              *)
OnlyAtOnce == \A i \in 1..Len(vaWrites) : vaWrites[i].kind = "only" => vaWrites[i].at = "ended"

(* What decryption will give back is what the seal that was read holds.     *)
RevealsMatch ==
  \A i \in 1..Len(vaReveals) :
    vaReveals[i].at = "decrypt" => vaReveals[i].read # NoSeal /\ vaReveals[i].result = vaReveals[i].read[1]

(* While a migration that has not failed is under way every plain password  *)
(* is still on its list, as it was read; none is left when it is over.      *)
PlainListed ==
  /\ vaScrubbed => vaCanEncrypt
  /\ vaCanEncrypt /\ vaMigrate.at = "rows" /\ ~vaMigrate.failed =>
       \A r \in Rows : vaRow[r].plain # 0 => [row |-> r, plain |-> vaRow[r].plain] \in InSeq(vaMigrate.todo)

(* No seal is no password; every other one holds one.                       *)
LEMMA NoSealFacts == NoSeal \in Seals /\ \A s \in Seals : s[1] \in Nat /\ (s # NoSeal => s[1] # 0)
BY DEF NoSeal, Seals

LEMMA SealFacts ==
  ASSUME NEW n \in Nat \ {0}, NEW p \in Nat
  PROVE  <<n, p>> \in Seals /\ <<n, p>> # NoSeal /\ <<n, p>>[1] = n
BY DEF Seals, NoSeal

(* What a row promises; the steps replace one row at a time.               *)
RowOK(w, m, scrubbed) ==
  /\ PasswordOf(w) = m.secret
  /\ HasPassword(w) => w.addr = m.addr /\ w.there
  /\ w.plain = 0 \/ w.sealed = NoSeal
  /\ scrubbed => w.plain = 0

(* Every row is as its user wrote it.                                       *)
RowsOK == \A r \in Rows : RowOK(vaRow[r], vaMeant[r], vaScrubbed)

(* The inductive invariant.                                                 *)
VaultInv == VaultTypes /\ RowsOK /\ OnlyAtOnce /\ RevealsMatch /\ PlainListed

(* A step that replaces row r at most, and whose new row is plain only if   *)
(* it was before.                                                          *)
LEMMA RowStep ==
  ASSUME VaultInv, NEW r \in Rows, NEW w \in VaultRow, NEW m \in [secret : Nat, addr : Nat],
         RowOK(w, m, vaScrubbed),
         vaRow' = [vaRow EXCEPT ![r] = w], vaMeant' = [vaMeant EXCEPT ![r] = m],
         w.plain \in {0, vaRow[r].plain} \/ ~vaCanEncrypt,
         UNCHANGED <<vaCanEncrypt, vaScrubbed>>
  PROVE  /\ RowsOK'
         /\ vaRow' \in [Rows -> VaultRow] /\ vaMeant' \in [Rows -> [secret : Nat, addr : Nat]]
         /\ UNCHANGED vaMigrate => PlainListed'
<1> USE DEF VaultInv, VaultTypes
<1>1. \A q \in Rows : vaRow'[q] = (IF q = r THEN w ELSE vaRow[q]) /\ vaMeant'[q] = (IF q = r THEN m ELSE vaMeant[q])
  OBVIOUS
<1>2. RowsOK'
  <2> SUFFICES ASSUME NEW q \in Rows PROVE RowOK(vaRow'[q], vaMeant'[q], vaScrubbed)
    BY DEF RowsOK
  <2> QED BY <1>1 DEF RowsOK
<1>3. vaRow' \in [Rows -> VaultRow] /\ vaMeant' \in [Rows -> [secret : Nat, addr : Nat]]
  OBVIOUS
<1>4. ASSUME UNCHANGED vaMigrate PROVE PlainListed'
  BY <1>1, <1>4 DEF PlainListed
<1> QED BY <1>2, <1>3, <1>4

(* The list of the migration, one row at a time.                            *)
LEMMA HeadTail ==
  ASSUME NEW T, NEW s \in Seq(T), s # <<>>
  PROVE  Head(s) \in T /\ Tail(s) \in Seq(T) /\ InSeq(s) \subseteq InSeq(Tail(s)) \cup {Head(s)}
<1>1. /\ Len(s) \in Nat \ {0} /\ Head(s) = s[1] /\ Head(s) \in T
      /\ Tail(s) \in Seq(T) /\ Len(Tail(s)) = Len(s) - 1
      /\ \A i \in 1..Len(Tail(s)) : Tail(s)[i] = s[i + 1]
  BY HeadTailProperties, EmptySeq
<1>2. ASSUME NEW i \in 1..Len(s), i # 1 PROVE s[i] \in InSeq(Tail(s))
  <2>1. i - 1 \in 1..Len(Tail(s)) /\ s[i] = Tail(s)[i - 1]
    BY <1>1, <1>2
  <2> QED BY <2>1 DEF InSeq
<1> QED BY <1>1, <1>2 DEF InSeq

(* Each step keeps the invariant: the migration lists the plain rows ...    *)
LEMMA ListPlainStep == VaultInv /\ ListPlain => VaultInv'
<1> SUFFICES ASSUME VaultInv, ListPlain PROVE VaultInv'
  OBVIOUS
<1> USE DEF VaultInv, VaultTypes
<1>1. VaultInv
  OBVIOUS
<1> DEFINE P == {r \in Rows : vaRow[r].there /\ vaRow[r].plain # 0 /\ vaRow[r].sealed = NoSeal}
           todo == [i \in DOMAIN PlainRows |-> [row |-> PlainRows[i], plain |-> vaRow[PlainRows[i]].plain]]
<1>2. PlainRows \in Seq(Rows) /\ InSeq(PlainRows) = P
  BY VaultAssumption, SetToSeqFacts, OnlyFacts DEF VaultAssumption, PlainRows
<1>3. Len(PlainRows) \in Nat /\ DOMAIN PlainRows = 1..Len(PlainRows)
  BY <1>2, LenProperties
<1>4. \A i \in 1..Len(PlainRows) : PlainRows[i] \in P
  BY <1>2 DEF InSeq
<1>5. /\ vaMigrate' = [at |-> IF PlainRows # <<>> /\ ~vaCanEncrypt THEN "over" ELSE "rows",
                       failed |-> FALSE, todo |-> todo]
      /\ UNCHANGED <<vaCanEncrypt, vaRow, vaMeant, vaScrubbed, vaWrites, vaReveals, vaSeals>>
  BY DEF ListPlain
<1>6. \A i \in 1..Len(PlainRows) : [row |-> PlainRows[i], plain |-> vaRow[PlainRows[i]].plain] \in Listing
  BY <1>1, <1>4 DEF Listing, VaultRow
<1>7. todo \in [1..Len(PlainRows) -> Listing]
  BY <1>3, <1>6
<1>8. todo \in Seq(Listing) /\ Len(todo) = Len(PlainRows)
  <2> HIDE DEF todo
  <2>1. todo \in Seq(Listing)
    BY <1>3, <1>7, SeqDef
  <2>2. Len(todo) \in Nat /\ 1..Len(PlainRows) = 1..Len(todo)
    BY <1>7, <2>1, LenProperties
  <2> QED BY <1>3, <2>1, <2>2
<1>9. ASSUME NEW r \in P PROVE [row |-> r, plain |-> vaRow[r].plain] \in InSeq(todo)
  <2>1. PICK i \in 1..Len(PlainRows) : PlainRows[i] = r
    BY <1>2 DEF InSeq
  <2>2. i \in DOMAIN PlainRows /\ todo[i] = [row |-> r, plain |-> vaRow[r].plain]
    BY <1>3, <2>1
  <2> HIDE DEF todo
  <2> QED BY <1>8, <2>2, <2>1 DEF InSeq
<1> HIDE DEF todo
<1>10. VaultTypes'
  <2>1. vaMigrate' \in [at : {"start", "rows", "over"}, failed : BOOLEAN, todo : Seq(Listing)]
    BY <1>5, <1>8
  <2> QED BY <1>1, <1>5, <2>1
<1>11. RowsOK' /\ OnlyAtOnce' /\ RevealsMatch'
  BY <1>1, <1>5 DEF RowsOK, OnlyAtOnce, RevealsMatch
<1>12. PlainListed'
  <2>1. ASSUME NEW r \in Rows, vaRow[r].plain # 0 PROVE r \in P
    BY <1>1, <2>1 DEF RowsOK, RowOK, HasPassword, PasswordOf
  <2> QED BY <1>1, <1>5, <1>9, <2>1 DEF PlainListed
<1> QED BY <1>10, <1>11, <1>12 DEF VaultInv

(* ... seals the next if it is still the password that was listed ...       *)
LEMMA EncryptNextStep == VaultInv /\ EncryptNext => VaultInv'
<1> SUFFICES ASSUME VaultInv, EncryptNext PROVE VaultInv'
  OBVIOUS
<1>1. VaultInv
  OBVIOUS
<1> DEFINE t == Head(vaMigrate.todo)
           rest == Tail(vaMigrate.todo)
<1>2. PICK works \in BOOLEAN :
        /\ vaMigrate' = [vaMigrate EXCEPT !.todo = rest, !.failed = @ \/ ~works]
        /\ vaRow' = IF works /\ StillPlain(t)
                    THEN [vaRow EXCEPT ![t.row].plain = 0, ![t.row].sealed = <<t.plain, vaSeals>>]
                    ELSE vaRow
  BY DEF EncryptNext
<1>3. /\ vaMigrate.at = "rows" /\ vaMigrate.todo # <<>> /\ vaSeals' = vaSeals + 1
      /\ UNCHANGED <<vaCanEncrypt, vaMeant, vaScrubbed, vaWrites, vaReveals>>
  BY DEF EncryptNext
<1>4. /\ vaMigrate.todo \in Seq(Listing) /\ vaMigrate.failed \in BOOLEAN
      /\ vaSeals \in Nat \ {0} /\ vaRow \in [Rows -> VaultRow] /\ DOMAIN vaMigrate = {"at", "failed", "todo"}
      /\ vaMeant \in [Rows -> [secret : Nat, addr : Nat]]
  BY <1>1 DEF VaultInv, VaultTypes
<1>5. t \in Listing /\ rest \in Seq(Listing) /\ InSeq(vaMigrate.todo) \subseteq InSeq(rest) \cup {t}
  BY <1>3, <1>4, HeadTail
<1> HIDE DEF t, rest
<1>6. t.row \in Rows /\ t.plain \in Nat \ {0}
  BY <1>5 DEF Listing
<1> DEFINE q == t.row
           w == IF works /\ StillPlain(t) THEN [vaRow[q] EXCEPT !.plain = 0, !.sealed = <<t.plain, vaSeals>>]
                ELSE vaRow[q]
<1>7. vaRow[q] \in VaultRow /\ RowOK(vaRow[q], vaMeant[q], vaScrubbed)
  BY <1>1, <1>4, <1>6 DEF VaultInv, RowsOK
<1>8. w \in VaultRow /\ RowOK(w, vaMeant[q], vaScrubbed) /\ w.plain \in {0, vaRow[q].plain}
  <2>1. CASE works /\ StillPlain(t)
    <3>1. <<t.plain, vaSeals>> \in Seals /\ <<t.plain, vaSeals>> # NoSeal /\ <<t.plain, vaSeals>>[1] = t.plain
      BY <1>4, <1>6, SealFacts
    <3> QED BY <1>7, <2>1, <3>1 DEF VaultRow, RowOK, StillPlain, PasswordOf, HasPassword
  <2>2. CASE ~(works /\ StillPlain(t))
    BY <1>7, <2>2
  <2> QED BY <2>1, <2>2
<1>9. vaRow' = [vaRow EXCEPT ![q] = w] /\ vaMeant' = [vaMeant EXCEPT ![q] = vaMeant[q]]
  BY <1>2, <1>3, <1>4, <1>6
<1>10. works /\ q \in Rows /\ vaRow[q].plain = t.plain => w.plain = 0
  BY <1>6, <1>7 DEF RowOK, StillPlain, VaultRow, HasPassword, PasswordOf
<1> HIDE DEF w, q
<1>11. RowsOK' /\ vaRow' \in [Rows -> VaultRow]
  <2>1. q \in Rows /\ vaMeant[q] \in [secret : Nat, addr : Nat]
    BY <1>4, <1>6 DEF q
  <2> QED BY <1>1, <1>3, <1>8, <1>9, <2>1, RowStep
<1>12. VaultTypes'
  <2>1. vaMigrate' \in [at : {"start", "rows", "over"}, failed : BOOLEAN, todo : Seq(Listing)]
    BY <1>1, <1>2, <1>5 DEF VaultInv, VaultTypes
  <2>2. vaSeals' \in Nat \ {0}
    BY <1>3, <1>4
  <2> QED BY <1>1, <1>3, <1>11, <2>1, <2>2 DEF VaultInv, VaultTypes
<1>13. OnlyAtOnce' /\ RevealsMatch'
  BY <1>1, <1>3 DEF VaultInv, OnlyAtOnce, RevealsMatch
<1>14. PlainListed'
  <2>1. SUFFICES ASSUME vaCanEncrypt, works, ~vaMigrate.failed, NEW r \in Rows, vaRow'[r].plain # 0
                 PROVE  [row |-> r, plain |-> vaRow'[r].plain] \in InSeq(rest)
    BY <1>1, <1>2, <1>3, <1>4 DEF VaultInv, PlainListed
  <2>2. vaRow'[r].plain = vaRow[r].plain
    BY <1>4, <1>6, <1>8, <1>9, <2>1 DEF q
  <2>3. [row |-> r, plain |-> vaRow[r].plain] \in InSeq(vaMigrate.todo)
    BY <1>1, <1>3, <2>1, <2>2 DEF VaultInv, PlainListed
  <2>4. [row |-> r, plain |-> vaRow[r].plain] # t
    BY <1>4, <1>6, <1>9, <1>10, <2>1, <2>2 DEF q
  <2> QED BY <1>5, <2>2, <2>3, <2>4
<1> QED BY <1>11, <1>12, <1>13, <1>14 DEF VaultInv

(* ... and rewrites the file when it got through its list.                  *)
LEMMA ScrubStep == VaultInv /\ Scrub => VaultInv'
<1> SUFFICES ASSUME VaultInv, Scrub PROVE VaultInv'
  OBVIOUS
<1> USE DEF VaultInv, VaultTypes, Scrub
<1>1. VaultTypes' /\ OnlyAtOnce' /\ RevealsMatch'
  BY DEF OnlyAtOnce, RevealsMatch
<1>2. PlainListed'
  BY DEF PlainListed
<1>3. InSeq(vaMigrate.todo) = {}
  BY InSeqFacts
<1>4. ASSUME NEW r \in Rows PROVE RowOK(vaRow[r], vaMeant[r], vaScrubbed')
  BY <1>3 DEF RowsOK, RowOK, PlainListed
<1> QED BY <1>1, <1>2, <1>4 DEF RowsOK

(* A password that a save or a login brings, before it is sealed.           *)
LEMMA BeginWriteStep ==
  ASSUME VaultInv, NEW kind \in {"save", "login"}, NEW r \in Rows, NEW a \in Addresses, BeginWrite(kind, r, a)
  PROVE  VaultInv'
<1> USE DEF VaultInv
<1>1. vaWrites' = Append(vaWrites, [kind |-> kind, row |-> r, addr |-> a, at |-> "encrypt"])
  BY DEF BeginWrite
<1>2. UNCHANGED <<vaCanEncrypt, vaRow, vaMeant, vaMigrate, vaScrubbed, vaReveals, vaSeals>>
  BY DEF BeginWrite
<1>3. [kind |-> kind, row |-> r, addr |-> a, at |-> "encrypt"] \in Writes
  BY VaultAssumption DEF VaultAssumption, Writes
<1>4. vaWrites' \in Seq(Writes)
  BY <1>1, <1>3, AppendProperties DEF VaultTypes, Writes
<1>5. VaultTypes'
  BY <1>2, <1>4 DEF VaultTypes, Writes
<1>6. OnlyAtOnce'
  <2> DEFINE e == [kind |-> kind, row |-> r, addr |-> a, at |-> "encrypt"]
  <2>1. e \in Writes /\ e.kind # "only" /\ vaWrites \in Seq(Writes)
    BY <1>3 DEF VaultTypes
  <2> HIDE DEF e
  <2>2. /\ Len(Append(vaWrites, e)) = Len(vaWrites) + 1 /\ Len(vaWrites) \in Nat
        /\ \A i \in 1..Len(vaWrites) : Append(vaWrites, e)[i] = vaWrites[i]
        /\ Append(vaWrites, e)[Len(vaWrites) + 1] = e
    BY <2>1, AppendProperties, LenProperties
  <2>3. vaWrites' = Append(vaWrites, e)
    BY <1>1 DEF e
  <2> QED BY <2>1, <2>2, <2>3 DEF OnlyAtOnce
<1> QED BY <1>2, <1>5, <1>6 DEF RowsOK, RevealsMatch, PlainListed

(* It is sealed and written, if the row is still there for it.              *)
LEMMA EndWriteStep ==
  ASSUME VaultInv, NEW i \in DOMAIN vaWrites, EndWrite(i)
  PROVE  VaultInv'
<1> DEFINE w == vaWrites[i]
           r == w.row
           taken == vaRow[r].there /\ (w.kind = "login" => StillAt(w))
           old == Readdressed(w)
           new == Written(old, i)
           m == [secret |-> i, addr |-> w.addr]
<1>1. /\ vaWrites \in Seq(Writes) /\ vaRow \in [Rows -> VaultRow] /\ vaSeals \in Nat \ {0}
      /\ vaMeant \in [Rows -> [secret : Nat, addr : Nat]] /\ vaCanEncrypt \in BOOLEAN
  BY DEF VaultInv, VaultTypes, Writes
<1>2. i \in 1..Len(vaWrites) /\ i \in Nat \ {0} /\ w \in Writes
  BY <1>1, ElementOfSeq, LenProperties
<1>3. /\ vaWrites' = [vaWrites EXCEPT ![i].at = "ended"] /\ w.at = "encrypt"
      /\ vaSeals' = vaSeals + 1
      /\ IF taken THEN vaRow' = [vaRow EXCEPT ![r] = new] /\ vaMeant' = [vaMeant EXCEPT ![r] = m]
                  ELSE UNCHANGED <<vaRow, vaMeant>>
      /\ UNCHANGED <<vaCanEncrypt, vaMigrate, vaScrubbed, vaReveals>>
  <2>1. r \in Rows
    BY <1>2 DEF Writes
  <2>2. taken => vaRow' = [vaRow EXCEPT ![r] = new] /\ vaMeant' = [vaMeant EXCEPT ![r] = m]
    BY <2>1 DEF EndWrite, Taken
  <2>3. ~taken => UNCHANGED <<vaRow, vaMeant>>
    BY Zenon DEF EndWrite
  <2>4. /\ vaWrites' = [vaWrites EXCEPT ![i].at = "ended"] /\ w.at = "encrypt"
        /\ vaSeals' = vaSeals + 1 /\ UNCHANGED <<vaCanEncrypt, vaMigrate, vaScrubbed, vaReveals>>
    BY Zenon DEF EndWrite
  <2> HIDE DEF w, r, new, m, taken
  <2> QED BY <2>2, <2>3, <2>4, Zenon
<1> HIDE DEF w
<1>4. r \in Rows /\ w.addr \in Nat /\ vaRow[r] \in VaultRow /\ RowOK(vaRow[r], vaMeant[r], vaScrubbed)
      /\ w.kind \in {"save", "login", "only"}
  BY <1>1, <1>2 DEF Writes, VaultInv, RowsOK
<1>5. vaWrites' \in Seq(Writes)
  <2>1. [vaWrites[i] EXCEPT !.at = "ended"] \in Writes
    BY <1>2 DEF Writes, w
  <2>2. vaWrites' = [vaWrites EXCEPT ![i] = [vaWrites[i] EXCEPT !.at = "ended"]]
    BY <1>3
  <2> QED BY <1>1, <1>2, <2>1, <2>2, ExceptSeq
<1>6. ASSUME taken PROVE RowsOK' /\ vaRow' \in [Rows -> VaultRow]
                         /\ vaMeant' \in [Rows -> [secret : Nat, addr : Nat]] /\ PlainListed'
  <2>1. old \in VaultRow /\ old.addr \in Nat /\ old.there
    BY <1>4, <1>6 DEF VaultRow, Readdressed
  <2>2. new = [old EXCEPT !.plain = IF vaCanEncrypt THEN 0 ELSE i,
                          !.sealed = IF vaCanEncrypt THEN <<i, vaSeals>> ELSE NoSeal]
    BY <1>2 DEF Written
  <2>3. <<i, vaSeals>> \in Seals /\ <<i, vaSeals>> # NoSeal /\ <<i, vaSeals>>[1] = i /\ NoSeal \in Seals
    BY <1>1, <1>2, SealFacts, NoSealFacts
  <2>4. (w.kind = "login" => old.addr = w.addr) /\ (w.kind = "save" => old.addr = w.addr)
    BY <1>4, <1>6 DEF StillAt, VaultRow, Readdressed
  <2>5. w.kind # "only"
    BY <1>2, <1>3 DEF VaultInv, OnlyAtOnce, w
  <2> HIDE DEF old, new
  <2>6. new \in VaultRow /\ RowOK(new, m, vaScrubbed) /\ (new.plain = 0 \/ ~vaCanEncrypt)
    <3>1. vaScrubbed => vaCanEncrypt
      BY DEF VaultInv, PlainListed
    <3>2. old.addr = w.addr
      BY <1>4, <2>4, <2>5
    <3>3. CASE vaCanEncrypt
      <4>1. new = [old EXCEPT !.plain = 0, !.sealed = <<i, vaSeals>>]
        BY <2>2, <3>3
      <4> QED BY <1>2, <1>4, <2>1, <2>3, <3>2, <4>1 DEF VaultRow, RowOK, PasswordOf, HasPassword
    <3>4. CASE ~vaCanEncrypt
      <4>1. new = [old EXCEPT !.plain = i, !.sealed = NoSeal]
        BY <2>2, <3>4
      <4> QED BY <1>2, <1>4, <2>1, <2>3, <3>1, <3>2, <3>4, <4>1 DEF VaultRow, RowOK, PasswordOf, HasPassword
    <3> QED BY <3>3, <3>4
  <2>7. m \in [secret : Nat, addr : Nat]
    BY <1>2, <1>4
  <2> HIDE DEF m, r
  <2>8. vaRow' = [vaRow EXCEPT ![r] = new] /\ vaMeant' = [vaMeant EXCEPT ![r] = m]
    BY <1>3, <1>6
  <2> QED BY <1>3, <1>4, <2>6, <2>7, <2>8, RowStep
<1>7. ASSUME ~taken PROVE RowsOK' /\ vaRow' \in [Rows -> VaultRow]
                         /\ vaMeant' \in [Rows -> [secret : Nat, addr : Nat]] /\ PlainListed'
  BY <1>1, <1>3, <1>7 DEF VaultInv, RowsOK, PlainListed
<1>8. VaultTypes'
  <2>1. vaRow' \in [Rows -> VaultRow] /\ vaMeant' \in [Rows -> [secret : Nat, addr : Nat]]
    BY <1>6, <1>7
  <2>2. vaSeals' \in Nat \ {0}
    BY <1>1, <1>3
  <2> HIDE DEF taken
  <2> QED BY <1>3, <1>5, <2>1, <2>2 DEF VaultInv, VaultTypes
<1>9. RevealsMatch' /\ OnlyAtOnce'
  <2>1. RevealsMatch'
    BY <1>3 DEF VaultInv, RevealsMatch
  <2>2. Len(vaWrites') = Len(vaWrites)
    BY <1>1, <1>3
  <2>3. ASSUME NEW k \in 1..Len(vaWrites), vaWrites'[k].kind = "only" PROVE vaWrites'[k].at = "ended"
    <3>1. k # i => vaWrites'[k] = vaWrites[k]
      BY <1>1, <1>3
    <3>2. vaWrites'[i] = [vaWrites[i] EXCEPT !.at = "ended"]
      BY <1>1, <1>2, <1>3
    <3>3. vaWrites'[i].at = "ended"
      BY <1>2, <3>2 DEF w, Writes
    <3> QED BY <2>3, <3>1, <3>3 DEF VaultInv, OnlyAtOnce
  <2> QED BY <2>1, <2>2, <2>3 DEF OnlyAtOnce
<1> QED BY <1>6, <1>7, <1>8, <1>9 DEF VaultInv

(* A save without a password: the old one stays, or goes.                   *)
LEMMA SaveOnlyStep ==
  ASSUME VaultInv, NEW r \in Rows, NEW a \in Addresses, NEW keep \in BOOLEAN, SaveOnly(r, a, keep)
  PROVE  VaultInv'
<1> DEFINE w == [vaRow[r] EXCEPT !.addr = a, !.plain = IF keep THEN @ ELSE 0, !.sealed = IF keep THEN @ ELSE NoSeal]
           m == IF keep THEN vaMeant[r] ELSE [secret |-> 0, addr |-> a]
           e == [kind |-> "only", row |-> r, addr |-> a, at |-> "ended"]
<1>1. /\ vaRow[r] \in VaultRow /\ RowOK(vaRow[r], vaMeant[r], vaScrubbed) /\ a \in Nat
      /\ vaMeant \in [Rows -> [secret : Nat, addr : Nat]] /\ vaRow \in [Rows -> VaultRow]
      /\ vaWrites \in Seq(Writes)
  BY VaultAssumption DEF VaultInv, VaultTypes, RowsOK, VaultAssumption
<1>2. /\ vaRow[r].there /\ MayMove(r, a, keep) /\ vaWrites' = Append(vaWrites, e)
      /\ UNCHANGED <<vaCanEncrypt, vaMigrate, vaScrubbed, vaReveals, vaSeals>>
  BY DEF SaveOnly
<1>3. vaRow' = [vaRow EXCEPT ![r] = w]
  <2>1. vaRow' = [vaRow EXCEPT ![r].addr = a, ![r].plain = IF keep THEN @ ELSE 0,
                            ![r].sealed = IF keep THEN @ ELSE NoSeal]
    BY DEF SaveOnly
  <2> QED BY <1>1, <2>1 DEF VaultRow
<1>4. vaMeant' = [vaMeant EXCEPT ![r] = m]
  BY <1>1 DEF SaveOnly
<1>5. w \in VaultRow /\ m \in [secret : Nat, addr : Nat] /\ w.plain \in {0, vaRow[r].plain}
  BY <1>1, NoSealFacts DEF VaultRow
<1>6. RowOK(w, m, vaScrubbed)
  <2>1. CASE keep
    <3>1. w = [vaRow[r] EXCEPT !.addr = a] /\ m = vaMeant[r]
      BY <1>1, <2>1 DEF VaultRow
    <3> HIDE DEF w, m
    <3> QED BY <1>1, <1>2, <2>1, <3>1 DEF MayMove, RowOK, HasPassword, PasswordOf, VaultRow
  <2>2. CASE ~keep
    <3>1. w = [vaRow[r] EXCEPT !.addr = a, !.plain = 0, !.sealed = NoSeal] /\ m = [secret |-> 0, addr |-> a]
      BY <1>1, <2>2 DEF VaultRow
    <3> HIDE DEF w, m
    <3> QED BY <1>1, <1>2, <2>2, <3>1 DEF RowOK, HasPassword, PasswordOf, VaultRow
  <2> QED BY <2>1, <2>2
<1> HIDE DEF w, m
<1>7. e \in Writes /\ (e.kind = "only" => e.at = "ended")
  BY <1>1 DEF Writes
<1> HIDE DEF e
<1>8. vaWrites' \in Seq(Writes) /\ OnlyAtOnce'
  <2>1. /\ Append(vaWrites, e) \in Seq(Writes)
        /\ Len(Append(vaWrites, e)) = Len(vaWrites) + 1 /\ Len(vaWrites) \in Nat
        /\ \A i \in 1..Len(vaWrites) : Append(vaWrites, e)[i] = vaWrites[i]
        /\ Append(vaWrites, e)[Len(vaWrites) + 1] = e
    BY <1>1, <1>7, AppendProperties, LenProperties
  <2> QED BY <1>2, <1>7, <2>1 DEF VaultInv, OnlyAtOnce
<1>9. /\ RowsOK' /\ PlainListed' /\ vaRow' \in [Rows -> VaultRow]
      /\ vaMeant' \in [Rows -> [secret : Nat, addr : Nat]]
  BY <1>2, <1>3, <1>4, <1>5, <1>6, RowStep
<1>10. VaultTypes' /\ RevealsMatch'
  BY <1>2, <1>8, <1>9 DEF VaultInv, VaultTypes, RevealsMatch
<1> QED BY <1>8, <1>9, <1>10 DEF VaultInv

LEMMA DeleteServerStep ==
  ASSUME VaultInv, NEW r \in Rows, DeleteServer(r)
  PROVE  VaultInv'
<1> DEFINE w == [there |-> FALSE, addr |-> 0, plain |-> 0, sealed |-> NoSeal]
           m == [secret |-> 0, addr |-> 0]
<1>1. w \in VaultRow /\ m \in [secret : Nat, addr : Nat] /\ w.plain = 0 /\ RowOK(w, m, vaScrubbed)
  BY NoSealFacts DEF VaultRow, RowOK, PasswordOf, HasPassword
<1>2. /\ vaRow' = [vaRow EXCEPT ![r] = w] /\ vaMeant' = [vaMeant EXCEPT ![r] = m]
      /\ UNCHANGED <<vaCanEncrypt, vaMigrate, vaScrubbed, vaWrites, vaReveals, vaSeals>>
  BY DEF DeleteServer
<1> HIDE DEF w, m
<1>3. /\ RowsOK' /\ PlainListed' /\ vaRow' \in [Rows -> VaultRow]
      /\ vaMeant' \in [Rows -> [secret : Nat, addr : Nat]]
  BY <1>1, <1>2, RowStep
<1> QED BY <1>2, <1>3 DEF VaultInv, VaultTypes, OnlyAtOnce, RevealsMatch

(* A password is read, and its seal replaced if it was an old one.          *)
LEMMA RevealStep ==
  ASSUME VaultInv, NEW r \in Rows, Reveal(r)
  PROVE  VaultInv'
<1> DEFINE e == [row |-> r, read |-> vaRow[r].sealed, result |-> PasswordOf(vaRow[r]),
                 at |-> IF vaRow[r].sealed = NoSeal THEN "ended" ELSE "decrypt"]
<1>1. vaReveals' = Append(vaReveals, e) /\ vaReveals \in Seq(Revelations)
  BY DEF Reveal, VaultInv, VaultTypes
<1>2. UNCHANGED <<vaCanEncrypt, vaRow, vaMeant, vaMigrate, vaScrubbed, vaWrites, vaSeals>>
  BY DEF Reveal
<1>3. e \in Revelations /\ (e.at = "decrypt" => e.read # NoSeal /\ e.result = e.read[1])
  BY NoSealFacts DEF Revelations, VaultInv, VaultTypes, VaultRow, PasswordOf
<1> HIDE DEF e
<1>4. vaReveals' \in Seq(Revelations) /\ RevealsMatch'
  <2>1. /\ Append(vaReveals, e) \in Seq(Revelations)
        /\ Len(Append(vaReveals, e)) = Len(vaReveals) + 1 /\ Len(vaReveals) \in Nat
        /\ \A i \in 1..Len(vaReveals) : Append(vaReveals, e)[i] = vaReveals[i]
        /\ Append(vaReveals, e)[Len(vaReveals) + 1] = e
    BY <1>1, <1>3, AppendProperties, LenProperties
  <2> QED BY <1>1, <1>3, <2>1 DEF VaultInv, RevealsMatch
<1> QED BY <1>2, <1>4 DEF VaultInv, VaultTypes, RowsOK, OnlyAtOnce, PlainListed

LEMMA RevealedStep ==
  ASSUME VaultInv, NEW i \in DOMAIN vaReveals, Revealed(i)
  PROVE  VaultInv'
<1> DEFINE v == vaReveals[i]
           q == v.row
           w == [vaRow[q] EXCEPT !.sealed = <<v.result, vaSeals>>]
<1>1. /\ vaReveals \in Seq(Revelations) /\ vaRow \in [Rows -> VaultRow] /\ vaSeals \in Nat \ {0}
      /\ vaMeant \in [Rows -> [secret : Nat, addr : Nat]]
  BY DEF VaultInv, VaultTypes
<1>2. i \in 1..Len(vaReveals) /\ v \in Revelations /\ v.at = "decrypt"
  BY <1>1, ElementOfSeq, LenProperties DEF Revealed
<1>3. /\ vaReveals' = [vaReveals EXCEPT ![i].at = "ended"]
      /\ UNCHANGED <<vaCanEncrypt, vaMeant, vaMigrate, vaScrubbed, vaWrites>>
  BY DEF Revealed
<1>4. \/ UNCHANGED <<vaRow, vaSeals>>
      \/ /\ vaSeals' = vaSeals + 1
         /\ vaRow' = IF SameSeal(v) THEN [vaRow EXCEPT ![q].sealed = <<v.result, vaSeals>>] ELSE vaRow
  BY DEF Revealed
<1>5. v.read # NoSeal /\ v.result = v.read[1] /\ v.result # 0
  BY <1>2, NoSealFacts DEF VaultInv, RevealsMatch, Revelations
<1>6. vaReveals' \in Seq(Revelations)
  <2>1. [v EXCEPT !.at = "ended"] \in Revelations
    BY <1>2 DEF Revelations
  <2>2. vaReveals' = [vaReveals EXCEPT ![i] = [v EXCEPT !.at = "ended"]]
    BY <1>3
  <2> HIDE DEF v
  <2> QED BY <1>1, <1>2, <2>1, <2>2, ExceptSeq
<1>7. RevealsMatch'
  BY <1>1, <1>2, <1>3 DEF VaultInv, RevealsMatch, Revelations
<1> HIDE DEF v
<1>8. /\ RowsOK' /\ PlainListed' /\ vaRow' \in [Rows -> VaultRow]
  <2>1. CASE UNCHANGED vaRow
    BY <1>1, <1>3, <2>1 DEF VaultInv, RowsOK, PlainListed
  <2>2. CASE SameSeal(v) /\ vaRow' = [vaRow EXCEPT ![q].sealed = <<v.result, vaSeals>>]
    <3>1. /\ q \in Rows /\ vaRow[q] \in VaultRow /\ RowOK(vaRow[q], vaMeant[q], vaScrubbed)
          /\ v.result \in Nat /\ vaMeant[q] \in [secret : Nat, addr : Nat]
      BY <1>1, <1>2 DEF VaultInv, RowsOK, Revelations
    <3>2. <<v.result, vaSeals>> \in Seals /\ <<v.result, vaSeals>> # NoSeal
          /\ <<v.result, vaSeals>>[1] = v.result
      BY <1>1, <1>5, <3>1, SealFacts
    <3>3. w \in VaultRow /\ w.plain = vaRow[q].plain /\ RowOK(w, vaMeant[q], vaScrubbed)
      BY <1>5, <2>2, <3>1, <3>2 DEF VaultRow, RowOK, SameSeal, HasPassword, PasswordOf
    <3>4. vaRow' = [vaRow EXCEPT ![q] = w] /\ vaMeant' = [vaMeant EXCEPT ![q] = vaMeant[q]]
      BY <1>1, <1>3, <2>2, <3>1
    <3> HIDE DEF q, w
    <3> QED BY <1>3, <3>1, <3>3, <3>4, RowStep
  <2> QED BY <1>4, <2>1, <2>2
<1>9. VaultTypes'
  <2>1. vaSeals' \in Nat \ {0}
    BY <1>1, <1>4
  <2> QED BY <1>3, <1>6, <1>8, <2>1 DEF VaultInv, VaultTypes
<1> QED BY <1>3, <1>7, <1>8, <1>9 DEF VaultInv, OnlyAtOnce

LEMMA VaultStart == VaultInit => VaultInv
<1> SUFFICES ASSUME VaultInit PROVE VaultInv
  OBVIOUS
<1>1. PICK kinds \in [Rows -> {"none", "plain", "sealed"}] : vaRow = [r \in Rows |-> OldRow(r, kinds[r])]
  BY DEF VaultInit
<1>2. (CHOOSE a \in Addresses : TRUE) \in Nat
  BY VaultAssumption DEF VaultAssumption
<1>3. \A r \in Rows : /\ vaRow[r] \in VaultRow /\ vaRow[r].there
                      /\ vaRow[r].plain = 0 \/ vaRow[r].sealed = NoSeal
                      /\ PasswordOf(vaRow[r]) \in Nat
  <2> TAKE r \in Rows
  <2>1. Legacy(r) \in Nat \ {0} /\ <<Legacy(r), 0>> # NoSeal
    BY VaultAssumption DEF VaultAssumption, Legacy, NoSeal
  <2>2. <<Legacy(r), 0>> \in Seals /\ NoSeal \in Seals
    BY <2>1, SealFacts, NoSealFacts
  <2>3. kinds[r] \in {"none", "plain", "sealed"} /\ vaRow[r] = OldRow(r, kinds[r])
    BY <1>1
  <2>4. OldRow(r, kinds[r]) \in VaultRow
    BY <1>2, <2>1, <2>2 DEF OldRow, VaultRow
  <2> QED BY <2>1, <2>2, <2>3, <2>4 DEF OldRow, VaultRow, PasswordOf
<1>4. vaMeant = [r \in Rows |-> [secret |-> PasswordOf(vaRow[r]), addr |-> vaRow[r].addr]]
  BY Zenon DEF VaultInit
<1>5. /\ vaCanEncrypt \in BOOLEAN /\ vaMigrate = [at |-> "start", todo |-> <<>>, failed |-> FALSE]
      /\ vaScrubbed = FALSE /\ vaWrites = <<>> /\ vaReveals = <<>> /\ vaSeals = 1
  BY Zenon DEF VaultInit
<1>6. vaRow \in [Rows -> VaultRow]
  <2>1. DOMAIN vaRow = Rows /\ vaRow = [r \in DOMAIN vaRow |-> vaRow[r]]
    BY <1>1, Zenon
  <2> QED BY <1>3, <2>1
<1> HIDE DEF VaultInit
<1>7. vaMeant \in [Rows -> [secret : Nat, addr : Nat]]
  <2>1. \A r \in Rows : [secret |-> PasswordOf(vaRow[r]), addr |-> vaRow[r].addr] \in [secret : Nat, addr : Nat]
    BY <1>3 DEF VaultRow
  <2> QED BY <1>4, <2>1
<1>8. RowsOK
  <2> SUFFICES ASSUME NEW r \in Rows PROVE RowOK(vaRow[r], vaMeant[r], vaScrubbed)
    BY DEF RowsOK
  <2>1. vaMeant[r].secret = PasswordOf(vaRow[r]) /\ vaMeant[r].addr = vaRow[r].addr
    BY <1>4
  <2> QED BY <1>3, <1>5, <2>1 DEF RowOK
<1>9. VaultTypes
  <2>1. vaWrites \in Seq(Writes) /\ vaReveals \in Seq(Revelations) /\ <<>> \in Seq(Listing)
    BY <1>5, EmptySeq
  <2>2. vaMigrate \in [at : {"start", "rows", "over"}, failed : BOOLEAN, todo : Seq(Listing)]
    BY <1>5, <2>1
  <2>3. vaScrubbed \in BOOLEAN /\ vaCanEncrypt \in BOOLEAN
    BY <1>5, Zenon
  <2>4. vaSeals \in Nat \ {0}
    <3>1. vaSeals = 1
      BY <1>5, Zenon
    <3> QED BY <3>1
  <2> QED BY <1>6, <1>7, <2>1, <2>2, <2>3, <2>4, Zenon DEF VaultTypes
<1>10. OnlyAtOnce /\ RevealsMatch /\ PlainListed
  BY <1>5 DEF OnlyAtOnce, RevealsMatch, PlainListed
<1> QED BY <1>8, <1>9, <1>10 DEF VaultInv

LEMMA VaultStepKeeps == VaultInv /\ [VaultNext]_vaultVars => VaultInv'
<1> SUFFICES ASSUME VaultInv, [VaultNext]_vaultVars PROVE VaultInv'
  OBVIOUS
<1>1. CASE UNCHANGED vaultVars
  BY <1>1 DEF vaultVars, VaultInv, VaultTypes, RowsOK, OnlyAtOnce, RevealsMatch, PlainListed
<1> QED BY <1>1, ListPlainStep, EncryptNextStep, ScrubStep, BeginWriteStep, SaveOnlyStep, DeleteServerStep,
           RevealStep, EndWriteStep, RevealedStep DEF VaultNext

(* However the migration meets what users do to their servers between two   *)
(* of its steps, no older password and no deleted one comes back, none goes *)
(* to another address, and none is plain once the file was rewritten        *)
(* (passwordVault.ts, migrate(); servers.ts, replacePlainPassword()).       *)
THEOREM VaultIsSafe == VaultSpec => []VaultSafe
<1>1. VaultInv => VaultSafe
  BY DEF VaultInv, RowsOK, RowOK, VaultSafe, AsTheUserWrote, OneForm
<1> QED BY <1>1, VaultStart, VaultStepKeeps, PTL DEF VaultSpec

-----------------------------------------------------------------------------
(* What agents do.  A call, its job and what the user stopped are related   *)
(* call by call; the sign counts calls and watched jobs.                    *)

(* What a job can be.                                                       *)
JobStates == {"none", "gone"} \cup Running \cup Finished

(* Types; the last conjunct is who can still be told of a job.              *)
AgentTypes ==
  /\ agKind \in [AgentCalls -> {"transfer", "delete"}]
  /\ agCall \in [AgentCalls -> {"none", "planning", "waiting", "ended"}]
  /\ agJob \in [AgentCalls -> JobStates]
  /\ agRemoved \in [AgentCalls -> 0..DeleteItems] /\ agTries \in [AgentCalls -> 0..MaxAgentRetries]
  /\ agAnswer \in [AgentCalls -> {"none", "running", "done"}]
  /\ agBusy \subseteq Operations /\ agCancelled \subseteq Operations
  /\ agTracked \subseteq AgentCalls /\ agStopped \subseteq agTracked \cap Transfers
  /\ agDirty \subseteq AgentCalls /\ agBefore \subseteq AgentCalls
  /\ agCalls \subseteq AgentCalls /\ agHalted \subseteq AgentCalls

(* A call is in progress until it ended or the user stopped it; it has no   *)
(* job before its planning is over, and waits for a delete only.            *)
CallOK(c) ==
  /\ c \in agCalls => agCall[c] \in {"planning", "waiting"} /\ c \notin agHalted
  /\ agCall[c] \in {"planning", "waiting"} => c \in agCalls \cup agHalted
  /\ agCall[c] \in {"none", "planning"} => agJob[c] = "none"
  /\ agCall[c] = "waiting" => c \in Operations /\ agJob[c] # "none"
  /\ c \in agHalted => agCall[c] # "none"
  /\ c \in agBefore => c \in agHalted \/ agCall[c] = "ended"

(* A transfer that has begun was never stopped in its planning; how an      *)
(* operation ended is known; what runs counts unless it was told to stop.   *)
JobOK(c) ==
  /\ c \in Transfers /\ agJob[c] # "none" => c \notin agHalted
  /\ c \in Operations => agJob[c] \notin {"pending", "main"}
  /\ c \in Operations /\ agJob[c] \in Finished \cup {"gone"} => c \in agKnown
  /\ c \in agBusy => agJob[c] = "active" /\ agRemoved[c] < DeleteItems
  /\ agJob[c] \in Running => DeleteCancelled(c) \/ c \in agTracked

(* What had begun at the last Stop and still runs: a transfer on the main   *)
(* connection is watched, one that waits again has not been reported yet.   *)
StopOK(c) ==
  c \in agBefore =>
    /\ agJob[c] = "active" => DeleteCancelled(c)
    /\ agJob[c] = "main" => c \in agStopped
    /\ agJob[c] = "pending" => c \in agDirty \cap agStopped /\ agTries[c] > 0

(* The sign of the latest state counts calls and watched jobs.              *)
Sign == agLatest.active <=> agCalls \cup agTracked # {}

(* The inductive invariant, call by call.                                   *)
AgentInv == AgentTypes /\ Sign /\ \A c \in AgentCalls : CallOK(c) /\ JobOK(c) /\ StopOK(c)

(* Reports of the queue: stopped transfers that wait again are cancelled.   *)
LEMMA RecheckFacts ==
  ASSUME AgentInv, NEW job \in [AgentCalls -> JobStates]
  PROVE  /\ Rechecked(job) \in [AgentCalls -> JobStates]
         /\ \A c \in AgentCalls :
              Rechecked(job)[c] = IF c \in agStopped /\ job[c] = "pending" THEN "cancelled" ELSE job[c]
         /\ KeptTracked(job) = {c \in agTracked : Rechecked(job)[c] \in Running}
         /\ KeptTracked(job) \subseteq agTracked
         /\ Returned(job) \subseteq AgentCalls
         /\ \A c \in Returned(job) : c \in agStopped /\ job[c] = "pending"
BY DEF AgentInv, AgentTypes, Rechecked, Returned, KeptTracked, StillRunning, JobStates, Finished, Running

(* Every publication sets the sign.                                         *)
LEMMA SignFacts ==
  ASSUME NEW calls, NEW tracked, NEW stopped, Publish(calls, tracked, stopped)
  PROVE  agLatest'.active <=> calls \cup tracked # {}
BY DEF Publish, AgentState

(* The end of a call, and what stays watched.                               *)
LEMMA CallEndsFacts ==
  ASSUME AgentInv, NEW c \in AgentCalls, NEW tracked \in SUBSET AgentCalls, NEW job, CallEnds(c, tracked, job),
         tracked = agTracked \/ c \in agCalls
  PROVE  /\ agCall' = [agCall EXCEPT ![c] = "ended"] /\ agCalls' = agCalls \ {c}
         /\ c \in agCalls => /\ agTracked' = {d \in tracked : job[d] \in Running}
                             /\ agStopped' = agStopped \cap agTracked'
         /\ c \notin agCalls => agTracked' = tracked /\ agStopped' = agStopped
         /\ agTracked' \subseteq tracked /\ agStopped' \subseteq agStopped /\ agStopped' \subseteq agTracked' \cap Transfers
         /\ agLatest'.active <=> agCalls' \cup agTracked' # {}
<1>1. CASE c \in agCalls
  <2>1. Publish(agCalls \ {c}, StillRunning(tracked, job), agStopped \cap StillRunning(tracked, job))
    BY <1>1 DEF CallEnds
  <2>2. agLatest'.active <=> (agCalls \ {c}) \cup StillRunning(tracked, job) # {}
    BY <2>1, SignFacts
  <2> QED BY <1>1, <2>2 DEF CallEnds, StillRunning, AgentInv, AgentTypes
<1>2. CASE c \notin agCalls
  BY <1>2 DEF CallEnds, AgentInv, AgentTypes, Sign
<1> QED BY <1>1, <1>2

(* What a step has to keep for a call.                                     *)
CallKept(c) == CallOK(c)' /\ JobOK(c)' /\ StopOK(c)'

LEMMA AgentKeeps ==
  ASSUME AgentTypes', Sign', \A c \in AgentCalls : CallKept(c)
  PROVE  AgentInv'
BY DEF AgentInv, CallKept

(* Each step keeps the invariant: an agent calls ...                        *)
LEMMA Begins == ASSUME AgentInv, NEW c \in AgentCalls, Begin(c) PROVE AgentInv'
<1> USE DEF AgentInv, Begin
<1>1. AgentTypes'
  BY DEF AgentTypes, Operations, Transfers
<1>2. Sign'
  BY SignFacts DEF Sign
<1>3. ASSUME NEW d \in AgentCalls PROVE CallKept(d)
  <2>1. CallOK(d)'
    BY DEF AgentTypes, CallOK, Operations, Transfers
  <2>2. JobOK(d)' /\ StopOK(d)'
    BY DEF AgentTypes, JobOK, StopOK, Operations, Transfers, DeleteCancelled
  <2> QED BY <2>1, <2>2 DEF CallKept
<1> QED BY <1>1, <1>2, <1>3, AgentKeeps

(* ... plans nothing that runs ...                                          *)
LEMMA PlanFailsStep == ASSUME AgentInv, NEW c \in AgentCalls, PlanFails(c) PROVE AgentInv'
<1>0. /\ agCall[c] = "planning" /\ CallEnds(c, agTracked, agJob)
      /\ UNCHANGED <<agKind, agHalted, agJob, agRemoved, agBusy, agTries, agCancelled, agDirty, agKnown, agAnswer, agStops, agBefore>>
  BY DEF PlanFails
<1>a. agTracked \in SUBSET AgentCalls
  BY DEF AgentInv, AgentTypes
<1>b. /\ agCall' = [agCall EXCEPT ![c] = "ended"] /\ agCalls' = agCalls \ {c}
      /\ c \in agCalls => /\ agTracked' = {d \in agTracked : agJob[d] \in Running}
                          /\ agStopped' = agStopped \cap agTracked'
      /\ c \notin agCalls => agTracked' = agTracked /\ agStopped' = agStopped
      /\ agTracked' \subseteq agTracked /\ agStopped' \subseteq agStopped /\ agStopped' \subseteq agTracked' \cap Transfers
      /\ agLatest'.active <=> agCalls' \cup agTracked' # {}
  BY <1>0, <1>a, CallEndsFacts
<1>1. AgentTypes'
  BY <1>0, <1>b DEF AgentInv, AgentTypes, Operations, Transfers
<1>2. Sign'
  BY <1>b DEF Sign
<1>3. ASSUME NEW d \in AgentCalls PROVE CallKept(d)
  <2>1. CallOK(d)'
    BY <1>0, <1>b DEF AgentInv, AgentTypes, CallOK, Operations, Transfers
  <2>2. JobOK(d)'
    BY <1>0, <1>b DEF AgentInv, AgentTypes, JobOK, Operations, Transfers, DeleteCancelled
  <2>3. StopOK(d)'
    BY <1>0, <1>b DEF AgentInv, AgentTypes, StopOK, Operations, Transfers, DeleteCancelled, Running
  <2> QED BY <2>1, <2>2, <2>3 DEF CallKept
<1> QED BY <1>1, <1>2, <1>3, AgentKeeps

(* ... or has its transfer queued, or its delete begun, which it may wait   *)
(* for.                                                                     *)
LEMMA StartTransferStep == ASSUME AgentInv, NEW c \in AgentCalls, StartTransfer(c) PROVE AgentInv'
<1> DEFINE job == [agJob EXCEPT ![c] = "pending"]
<1>0. /\ agCall[c] = "planning" /\ c \in Transfers /\ c \notin agHalted
      /\ agJob' = job /\ agDirty' = agDirty \cup {c}
      /\ CallEnds(c, agTracked \cup {c}, job)
      /\ UNCHANGED <<agKind, agHalted, agRemoved, agBusy, agTries, agCancelled, agKnown, agAnswer, agStops, agBefore>>
  <2>1. agJob' = job /\ CallEnds(c, agTracked \cup {c}, agJob')
    BY DEF StartTransfer
  <2>2. CallEnds(c, agTracked \cup {c}, job)
    BY <2>1, Zenon
  <2> QED BY <2>1, <2>2 DEF StartTransfer, NotStopped
<1>a. agTracked \cup {c} \in SUBSET AgentCalls /\ c \in agCalls
  BY <1>0 DEF AgentInv, AgentTypes, CallOK
<1>b. /\ agCall' = [agCall EXCEPT ![c] = "ended"] /\ agCalls' = agCalls \ {c}
      /\ c \in agCalls => /\ agTracked' = {d \in agTracked \cup {c} : job[d] \in Running}
                          /\ agStopped' = agStopped \cap agTracked'
      /\ c \notin agCalls => agTracked' = (agTracked \cup {c}) /\ agStopped' = agStopped
      /\ agTracked' \subseteq (agTracked \cup {c}) /\ agStopped' \subseteq agStopped /\ agStopped' \subseteq agTracked' \cap Transfers
      /\ agLatest'.active <=> agCalls' \cup agTracked' # {}
  BY <1>0, <1>a, CallEndsFacts
<1>c. agJob' \in [AgentCalls -> JobStates] /\ c \notin agBefore
  BY <1>0, <1>a DEF AgentInv, AgentTypes, JobStates, Running, CallOK
<1>1. AgentTypes'
  BY <1>0, <1>a, <1>b, <1>c DEF AgentInv, AgentTypes, Operations, Transfers
<1>2. Sign'
  BY <1>0, <1>a, <1>b, <1>c DEF AgentInv, Sign
<1>3. ASSUME NEW d \in AgentCalls PROVE CallKept(d)
  <2>1. CallOK(d)'
    BY <1>0, <1>a, <1>b, <1>c DEF AgentInv, AgentTypes, CallOK, Operations, Transfers
  <2>2. JobOK(d)'
    BY <1>0, <1>a, <1>b, <1>c DEF AgentInv, AgentTypes, JobOK, CallOK, Operations, Transfers, DeleteCancelled, Running, Finished
  <2>3. StopOK(d)'
    BY <1>0, <1>a, <1>b, <1>c DEF AgentInv, AgentTypes, StopOK, JobOK, CallOK, Operations, Transfers, DeleteCancelled, Running, Finished
  <2> QED BY <2>1, <2>2, <2>3 DEF CallKept
<1> QED BY <1>1, <1>2, <1>3, AgentKeeps

LEMMA WaitEndsStep == ASSUME AgentInv, NEW c \in AgentCalls, WaitEnds(c) PROVE AgentInv'
<1>0. /\ agCall[c] = "waiting" /\ CallEnds(c, agTracked, agJob)
      /\ agAnswer' = [agAnswer EXCEPT ![c] = Snapshot(c, agJob)]
      /\ UNCHANGED <<agKind, agHalted, agJob, agRemoved, agBusy, agTries, agCancelled, agDirty, agKnown, agStops, agBefore>>
  BY DEF WaitEnds
<1>a. agTracked \in SUBSET AgentCalls
  BY DEF AgentInv, AgentTypes
<1>b. /\ agCall' = [agCall EXCEPT ![c] = "ended"] /\ agCalls' = agCalls \ {c}
      /\ c \in agCalls => /\ agTracked' = {d \in agTracked : agJob[d] \in Running}
                          /\ agStopped' = agStopped \cap agTracked'
      /\ c \notin agCalls => agTracked' = agTracked /\ agStopped' = agStopped
      /\ agTracked' \subseteq agTracked /\ agStopped' \subseteq agStopped /\ agStopped' \subseteq agTracked' \cap Transfers
      /\ agLatest'.active <=> agCalls' \cup agTracked' # {}
  BY <1>0, <1>a, CallEndsFacts
<1>c. Snapshot(c, agJob) \in {"running", "done"}
  BY <1>0 DEF AgentInv, AgentTypes, CallOK, JobOK, Snapshot
<1>1. AgentTypes'
  BY <1>0, <1>b, <1>c DEF AgentInv, AgentTypes, Operations, Transfers
<1>2. Sign'
  BY <1>0, <1>b, <1>c DEF AgentInv, Sign
<1>3. ASSUME NEW d \in AgentCalls PROVE CallKept(d)
  <2>1. CallOK(d)'
    BY <1>0, <1>b, <1>c DEF AgentInv, AgentTypes, CallOK, Operations, Transfers
  <2>2. JobOK(d)'
    BY <1>0, <1>b, <1>c DEF AgentInv, AgentTypes, JobOK, CallOK, Operations, Transfers, DeleteCancelled, Running, Finished
  <2>3. StopOK(d)'
    BY <1>0, <1>b, <1>c DEF AgentInv, AgentTypes, StopOK, JobOK, CallOK, Operations, Transfers, DeleteCancelled, Running, Finished
  <2> QED BY <2>1, <2>2, <2>3 DEF CallKept
<1> QED BY <1>1, <1>2, <1>3, AgentKeeps

(* The queue starts, ends and retries transfers, and reports it.            *)
LEMMA TransferStartsStep == ASSUME AgentInv, NEW c \in AgentCalls, TransferStarts(c) PROVE AgentInv'
<1>0. PICK how \in {"active", "main"} : agJob' = [agJob EXCEPT ![c] = how]
  BY DEF TransferStarts
<1>a. /\ agJob[c] = "pending" /\ (agTries[c] > 0 => c \notin agDirty) /\ agDirty' = agDirty \cup {c}
      /\ UNCHANGED <<agKind, agCall, agCalls, agHalted, agRemoved, agBusy, agTries, agCancelled, agTracked,
                     agStopped, agLatest, agKnown, agAnswer, agStops, agBefore>>
  BY DEF TransferStarts
<1>b. agJob' \in [AgentCalls -> JobStates] /\ c \notin agBefore /\ c \in Transfers
  BY <1>0, <1>a DEF AgentInv, AgentTypes, JobStates, Running, JobOK, StopOK, Operations
<1>1. AgentTypes'
  BY <1>0, <1>a, <1>b DEF AgentInv, AgentTypes, Operations, Transfers
<1>2. Sign'
  BY <1>0, <1>a, <1>b DEF AgentInv, Sign
<1>3. ASSUME NEW d \in AgentCalls PROVE CallKept(d)
  <2>1. CallOK(d)'
    BY <1>0, <1>a, <1>b DEF AgentInv, AgentTypes, CallOK, Operations, Transfers
  <2>2. JobOK(d)'
    BY <1>0, <1>a, <1>b DEF AgentInv, AgentTypes, JobOK, CallOK, Operations, Transfers, DeleteCancelled, Running, Finished
  <2>3. StopOK(d)'
    BY <1>0, <1>a, <1>b DEF AgentInv, AgentTypes, StopOK, JobOK, CallOK, Operations, Transfers, DeleteCancelled, Running, Finished
  <2> QED BY <2>1, <2>2, <2>3 DEF CallKept
<1> QED BY <1>1, <1>2, <1>3, AgentKeeps

LEMMA TransferEndsStep == ASSUME AgentInv, NEW c \in AgentCalls, TransferEnds(c) PROVE AgentInv'
<1>0. PICK how \in {"completed", "failed", "pending"} :
        /\ how = "pending" => agTries[c] < MaxAgentRetries
        /\ agTries' = [agTries EXCEPT ![c] = IF how = "pending" THEN @ + 1 ELSE @]
        /\ agJob' = [agJob EXCEPT ![c] = how]
  BY DEF TransferEnds
<1>a. /\ c \in Transfers /\ agJob[c] \in {"active", "main"} /\ agDirty' = agDirty \cup {c}
      /\ UNCHANGED <<agKind, agCall, agCalls, agHalted, agRemoved, agBusy, agCancelled, agTracked,
                     agStopped, agLatest, agKnown, agAnswer, agStops, agBefore>>
  BY DEF TransferEnds
<1>b. agJob' \in [AgentCalls -> JobStates] /\ c \notin agHalted /\ (c \in agBefore => agJob[c] = "main")
  BY <1>0, <1>a DEF AgentInv, AgentTypes, JobStates, Running, Finished, JobOK, StopOK, Operations, DeleteCancelled
<1>c. agTries' \in [AgentCalls -> 0..MaxAgentRetries] /\ (how = "pending" => agTries'[c] > 0)
      /\ \A d \in AgentCalls \ {c} : agTries'[d] = agTries[d]
  BY <1>0, AgentAssumption DEF AgentInv, AgentTypes, AgentAssumption
<1>1. AgentTypes'
  BY <1>0, <1>a, <1>b, <1>c DEF AgentInv, AgentTypes, Operations, Transfers
<1>2. Sign'
  BY <1>0, <1>a, <1>b, <1>c DEF AgentInv, Sign
<1>3. ASSUME NEW d \in AgentCalls PROVE CallKept(d)
  <2>1. CallOK(d)'
    BY <1>0, <1>a, <1>b, <1>c DEF AgentInv, AgentTypes, CallOK, Operations, Transfers
  <2>2. JobOK(d)'
    BY <1>0, <1>a, <1>b, <1>c DEF AgentInv, AgentTypes, JobOK, CallOK, Operations, Transfers, DeleteCancelled, Running, Finished
  <2>3. StopOK(d)'
    BY <1>0, <1>a, <1>b, <1>c DEF AgentInv, AgentTypes, StopOK, JobOK, CallOK, Operations, Transfers, DeleteCancelled, Running, Finished
  <2> QED BY <2>1, <2>2, <2>3 DEF CallKept
<1> QED BY <1>1, <1>2, <1>3, AgentKeeps

LEMMA QueueReportsStep == AgentInv /\ QueueReports => AgentInv'
<1> SUFFICES ASSUME AgentInv, QueueReports PROVE AgentInv'
  OBVIOUS
<1>0. /\ agJob' = Rechecked(agJob) /\ agTracked' = KeptTracked(agJob) /\ agStopped' = agStopped \cap KeptTracked(agJob)
      /\ Publish(agCalls, KeptTracked(agJob), agStopped \cap KeptTracked(agJob))
      /\ agDirty' = Returned(agJob) /\ agKnown \subseteq agKnown'
      /\ UNCHANGED <<agKind, agCall, agCalls, agHalted, agRemoved, agBusy, agTries, agCancelled, agAnswer, agStops, agBefore>>
  BY DEF QueueReports, Recheck
<1>a. agJob \in [AgentCalls -> JobStates]
  BY DEF AgentInv, AgentTypes
<1>b. /\ agJob' \in [AgentCalls -> JobStates]
      /\ \A c \in AgentCalls :
           agJob'[c] = IF c \in agStopped /\ agJob[c] = "pending" THEN "cancelled" ELSE agJob[c]
      /\ agTracked' = {c \in agTracked : agJob'[c] \in Running}
      /\ agDirty' \subseteq AgentCalls
      /\ agLatest'.active <=> agCalls \cup agTracked' # {}
  BY <1>0, <1>a, RecheckFacts, SignFacts
<1>1. AgentTypes'
  BY <1>0, <1>b DEF AgentInv, AgentTypes, Operations, Transfers
<1>2. Sign'
  BY <1>0, <1>b DEF AgentInv, Sign
<1>3. ASSUME NEW d \in AgentCalls PROVE CallKept(d)
  <2>1. CallOK(d)'
    BY <1>0, <1>b DEF AgentInv, AgentTypes, CallOK, Operations, Transfers
  <2>2. JobOK(d)'
    BY <1>0, <1>b DEF AgentInv, AgentTypes, JobOK, CallOK, Operations, Transfers, DeleteCancelled, Running, Finished
  <2>3. StopOK(d)'
    BY <1>0, <1>b DEF AgentInv, AgentTypes, StopOK, JobOK, CallOK, Operations, Transfers, DeleteCancelled, Running, Finished
  <2> QED BY <2>1, <2>2, <2>3 DEF CallKept
<1> QED BY <1>1, <1>2, <1>3, AgentKeeps

(* The user clears the list of ended transfers.                             *)
LEMMA TransfersClearedStep == AgentInv /\ TransfersCleared => AgentInv'
<1> SUFFICES ASSUME AgentInv, TransfersCleared PROVE AgentInv'
  OBVIOUS
<1>0. /\ agJob' = [c \in AgentCalls |-> IF c \in Transfers /\ agJob[c] \in Finished THEN "gone" ELSE agJob[c]]
      /\ agDirty' = agDirty \cup {c \in Transfers : agJob[c] \in Finished}
      /\ UNCHANGED <<agKind, agCall, agCalls, agHalted, agRemoved, agBusy, agTries, agCancelled, agTracked,
                     agStopped, agLatest, agKnown, agAnswer, agStops, agBefore>>
  BY DEF TransfersCleared
<1>b. agJob' \in [AgentCalls -> JobStates]
  BY <1>0 DEF AgentInv, AgentTypes, JobStates
<1>1. AgentTypes'
  BY <1>0, <1>b DEF AgentInv, AgentTypes, Operations, Transfers
<1>2. Sign'
  BY <1>0, <1>b DEF AgentInv, Sign
<1>3. ASSUME NEW d \in AgentCalls PROVE CallKept(d)
  <2>1. CallOK(d)'
    BY <1>0, <1>b DEF AgentInv, AgentTypes, CallOK, Operations, Transfers, Finished
  <2>2. JobOK(d)'
    BY <1>0, <1>b DEF AgentInv, AgentTypes, JobOK, CallOK, Operations, Transfers, DeleteCancelled, Running, Finished
  <2>3. StopOK(d)'
    BY <1>0, <1>b DEF AgentInv, AgentTypes, StopOK, JobOK, CallOK, Operations, Transfers, DeleteCancelled, Running, Finished
  <2> QED BY <2>1, <2>2, <2>3 DEF CallKept
<1> QED BY <1>1, <1>2, <1>3, AgentKeeps

(* A delete, command by command, until it is cancelled.                     *)
LEMMA DeleteCommandStep == ASSUME AgentInv, NEW c \in AgentCalls, DeleteCommand(c) PROVE AgentInv'
<1>0. /\ agJob[c] = "active" /\ c \in Operations /\ agBusy' = agBusy \cup {c} /\ agRemoved[c] < DeleteItems
      /\ UNCHANGED <<agKind, agCall, agCalls, agHalted, agJob, agRemoved, agTries, agCancelled, agTracked,
                     agStopped, agDirty, agLatest, agKnown, agAnswer, agStops, agBefore>>
  BY DEF DeleteCommand
<1>1. AgentTypes'
  BY <1>0 DEF AgentInv, AgentTypes, Operations, Transfers
<1>2. Sign'
  BY <1>0 DEF AgentInv, Sign
<1>3. ASSUME NEW d \in AgentCalls PROVE CallKept(d)
  <2>1. CallOK(d)'
    BY <1>0 DEF AgentInv, AgentTypes, CallOK, Operations, Transfers
  <2>2. JobOK(d)'
    BY <1>0 DEF AgentInv, AgentTypes, JobOK, CallOK, Operations, Transfers, DeleteCancelled, Running, Finished
  <2>3. StopOK(d)'
    BY <1>0 DEF AgentInv, AgentTypes, StopOK, JobOK, CallOK, Operations, Transfers, DeleteCancelled, Running, Finished
  <2> QED BY <2>1, <2>2, <2>3 DEF CallKept
<1> QED BY <1>1, <1>2, <1>3, AgentKeeps

LEMMA OperationCancelStep == ASSUME AgentInv, NEW c \in AgentCalls, OperationCancel(c) PROVE AgentInv'
<1>0. /\ c \in Operations /\ agCancelled' = agCancelled \cup {c}
      /\ UNCHANGED <<agKind, agCall, agCalls, agHalted, agJob, agRemoved, agBusy, agTries, agTracked, agStopped,
                     agDirty, agLatest, agKnown, agAnswer, agStops, agBefore>>
  BY DEF OperationCancel
<1>1. AgentTypes'
  BY <1>0 DEF AgentInv, AgentTypes, Operations, Transfers
<1>2. Sign'
  BY <1>0 DEF AgentInv, Sign
<1>3. ASSUME NEW d \in AgentCalls PROVE CallKept(d)
  <2>1. CallOK(d)'
    BY <1>0 DEF AgentInv, AgentTypes, CallOK, Operations, Transfers
  <2>2. JobOK(d)'
    BY <1>0 DEF AgentInv, AgentTypes, JobOK, CallOK, Operations, Transfers, DeleteCancelled, Running, Finished
  <2>3. StopOK(d)'
    BY <1>0 DEF AgentInv, AgentTypes, StopOK, JobOK, CallOK, Operations, Transfers, DeleteCancelled, Running, Finished
  <2> QED BY <2>1, <2>2, <2>3 DEF CallKept
<1> QED BY <1>1, <1>2, <1>3, AgentKeeps

(* A change of an operation is reported at once.                            *)
LEMMA OperationReportsFacts ==
  ASSUME AgentInv, NEW job \in [AgentCalls -> JobStates], OperationReports(job)
  PROVE  /\ agJob' \in [AgentCalls -> JobStates]
         /\ \A c \in AgentCalls :
              agJob'[c] = IF c \in agStopped /\ job[c] = "pending" THEN "cancelled" ELSE job[c]
         /\ agTracked' = {c \in agTracked : agJob'[c] \in Running}
         /\ agStopped' = agStopped \cap agTracked'
         /\ agDirty \subseteq agDirty' /\ agDirty' \subseteq AgentCalls
         /\ agKnown' = agKnown \cup {c \in Operations : job[c] \in Finished}
         /\ agLatest'.active <=> agCalls \cup agTracked' # {}
<1>1. /\ agJob' = Rechecked(job) /\ agTracked' = KeptTracked(job) /\ agStopped' = agStopped \cap KeptTracked(job)
      /\ Publish(agCalls, KeptTracked(job), agStopped \cap KeptTracked(job))
      /\ agDirty' = agDirty \cup Returned(job) /\ agKnown' = agKnown \cup {c \in Operations : job[c] \in Finished}
  BY DEF OperationReports, Recheck
<1>2. agLatest'.active <=> agCalls \cup KeptTracked(job) # {}
  BY <1>1, SignFacts
<1> QED BY <1>1, <1>2, RecheckFacts DEF AgentInv, AgentTypes

LEMMA DeleteReplyStep == ASSUME AgentInv, NEW c \in AgentCalls, DeleteReply(c) PROVE AgentInv'
<1> DEFINE job == [agJob EXCEPT ![c] = "failed"]
<1>0. /\ c \in agBusy /\ agBusy' = agBusy \ {c}
      /\ UNCHANGED <<agKind, agCall, agCalls, agHalted, agTries, agCancelled, agAnswer, agStops, agBefore>>
  BY DEF DeleteReply
<1>a. c \in Operations /\ agJob[c] = "active" /\ job \in [AgentCalls -> JobStates] /\ agRemoved[c] \in 0..(DeleteItems - 1)
      /\ DeleteItems \in Nat
  BY <1>0, AgentAssumption DEF AgentAssumption, AgentInv, AgentTypes, JobOK, JobStates, Finished
<1>b. CASE /\ agRemoved' = [agRemoved EXCEPT ![c] = @ + 1]
           /\ UNCHANGED <<agJob, agTracked, agStopped, agLatest, agKnown, agDirty>>
  <2>1. AgentTypes'
    BY <1>0, <1>a, <1>b DEF AgentInv, AgentTypes, Operations, Transfers
  <2>2. Sign'
    BY <1>0, <1>a, <1>b DEF AgentInv, Sign
  <2>3. ASSUME NEW d \in AgentCalls PROVE CallKept(d)
    <3>1. CallOK(d)'
      BY <1>0, <1>a, <1>b DEF AgentInv, AgentTypes, CallOK, Operations, Transfers, Finished
    <3>2. JobOK(d)'
      BY <1>0, <1>a, <1>b DEF AgentInv, AgentTypes, JobOK, CallOK, Operations, Transfers, DeleteCancelled, Running, Finished
    <3>3. StopOK(d)'
      BY <1>0, <1>a, <1>b DEF AgentInv, AgentTypes, StopOK, JobOK, CallOK, Operations, Transfers, DeleteCancelled, Running, Finished
    <3> QED BY <3>1, <3>2, <3>3 DEF CallKept
  <2> QED BY <2>1, <2>2, <2>3, AgentKeeps
<1>c. CASE OperationReports(job) /\ UNCHANGED agRemoved
  <2>0. /\ agJob' \in [AgentCalls -> JobStates]
        /\ \A e \in AgentCalls :
             agJob'[e] = IF e \in agStopped /\ job[e] = "pending" THEN "cancelled" ELSE job[e]
        /\ agTracked' = {e \in agTracked : agJob'[e] \in Running}
        /\ agStopped' = agStopped \cap agTracked'
        /\ agDirty \subseteq agDirty' /\ agDirty' \subseteq AgentCalls
        /\ agKnown' = agKnown \cup {e \in Operations : job[e] \in Finished}
        /\ agLatest'.active <=> agCalls \cup agTracked' # {}
    BY <1>a, <1>c, OperationReportsFacts
  <2>1. AgentTypes'
    BY <1>0, <1>a, <1>c, <2>0 DEF AgentInv, AgentTypes, Operations, Transfers
  <2>2. Sign'
    BY <1>0, <1>a, <1>c, <2>0 DEF AgentInv, Sign
  <2>3. ASSUME NEW d \in AgentCalls PROVE CallKept(d)
    <3>1. CallOK(d)'
      BY <1>0, <1>a, <1>c, <2>0 DEF AgentInv, AgentTypes, CallOK, Operations, Transfers, Finished
    <3>2. JobOK(d)'
      BY <1>0, <1>a, <1>c, <2>0 DEF AgentInv, AgentTypes, JobOK, CallOK, Operations, Transfers, DeleteCancelled, Running, Finished
    <3>3. StopOK(d)'
      BY <1>0, <1>a, <1>c, <2>0 DEF AgentInv, AgentTypes, StopOK, JobOK, CallOK, Operations, Transfers, DeleteCancelled, Running, Finished
    <3> QED BY <3>1, <3>2, <3>3 DEF CallKept
  <2> QED BY <2>1, <2>2, <2>3, AgentKeeps
<1> QED BY <1>b, <1>c DEF DeleteReply

LEMMA DeleteEndsStep == ASSUME AgentInv, NEW c \in AgentCalls, DeleteEnds(c) PROVE AgentInv'
<1> DEFINE job == [agJob EXCEPT ![c] = IF DeleteCancelled(c) THEN "cancelled" ELSE "completed"]
<1>0. /\ c \in Operations \ agBusy /\ agJob[c] = "active" /\ agCancelled' \subseteq agCancelled
      /\ agCancelled \ agCancelled' \subseteq {c} /\ OperationReports(job)
      /\ UNCHANGED <<agKind, agCall, agCalls, agHalted, agRemoved, agBusy, agTries, agAnswer, agStops, agBefore>>
  BY DEF DeleteEnds
<1>a. job \in [AgentCalls -> JobStates]
  BY DEF AgentInv, AgentTypes, JobStates, Finished
<1>b. /\ agJob' \in [AgentCalls -> JobStates]
      /\ \A e \in AgentCalls :
           agJob'[e] = IF e \in agStopped /\ job[e] = "pending" THEN "cancelled" ELSE job[e]
      /\ agTracked' = {e \in agTracked : agJob'[e] \in Running}
      /\ agStopped' = agStopped \cap agTracked'
      /\ agDirty \subseteq agDirty' /\ agDirty' \subseteq AgentCalls
      /\ agKnown' = agKnown \cup {e \in Operations : job[e] \in Finished}
      /\ agLatest'.active <=> agCalls \cup agTracked' # {}
  BY <1>0, <1>a, OperationReportsFacts
<1>c. job[c] \in Finished /\ \A d \in AgentCalls \ {c} : job[d] = agJob[d]
  BY DEF AgentInv, AgentTypes, Finished
<1> HIDE DEF job
<1>1. AgentTypes'
  BY <1>0, <1>a, <1>b, <1>c DEF AgentInv, AgentTypes, Operations, Transfers
<1>2. Sign'
  BY <1>0, <1>a, <1>b, <1>c DEF AgentInv, Sign
<1>3. ASSUME NEW d \in AgentCalls PROVE CallKept(d)
  <2>1. CallOK(d)'
    BY <1>0, <1>a, <1>b, <1>c DEF AgentInv, AgentTypes, CallOK, Operations, Transfers, Finished
  <2>2. JobOK(d)'
    BY <1>0, <1>a, <1>b, <1>c DEF AgentInv, AgentTypes, JobOK, CallOK, Operations, Transfers, DeleteCancelled, Running, Finished
  <2>3. StopOK(d)'
    BY <1>0, <1>a, <1>b, <1>c DEF AgentInv, AgentTypes, StopOK, JobOK, CallOK, Operations, Transfers, DeleteCancelled, Running, Finished
  <2> QED BY <2>1, <2>2, <2>3 DEF CallKept
<1> QED BY <1>1, <1>2, <1>3, AgentKeeps

(* The manager forgets an operation some time after its end.                *)
LEMMA OperationForgottenStep == AgentInv /\ OperationForgotten => AgentInv'
<1> SUFFICES ASSUME AgentInv, OperationForgotten PROVE AgentInv'
  OBVIOUS
<1>0. UNCHANGED <<agKind, agCall, agCalls, agHalted, agRemoved, agBusy, agTries, agCancelled, agAnswer, agStops, agBefore>>
  BY DEF OperationForgotten
<1>z. PICK old \in SUBSET {c \in Operations : agJob[c] \in Finished} :
        OperationReports([c \in AgentCalls |-> IF c \in old THEN "gone" ELSE agJob[c]])
  BY DEF OperationForgotten
<1> DEFINE job == [c \in AgentCalls |-> IF c \in old THEN "gone" ELSE agJob[c]]
<1>a. job \in [AgentCalls -> JobStates]
  BY DEF AgentInv, AgentTypes, JobStates
<1>b. /\ agJob' \in [AgentCalls -> JobStates]
      /\ \A c \in AgentCalls :
           agJob'[c] = IF c \in agStopped /\ job[c] = "pending" THEN "cancelled" ELSE job[c]
      /\ agTracked' = {c \in agTracked : agJob'[c] \in Running}
      /\ agStopped' = agStopped \cap agTracked'
      /\ agDirty \subseteq agDirty' /\ agDirty' \subseteq AgentCalls
      /\ agKnown' = agKnown \cup {c \in Operations : job[c] \in Finished}
      /\ agLatest'.active <=> agCalls \cup agTracked' # {}
  BY <1>z, <1>a, OperationReportsFacts
<1>c. \A d \in AgentCalls : /\ d \in old => d \in Operations /\ agJob[d] \in Finished /\ job[d] = "gone"
                            /\ d \notin old => job[d] = agJob[d]
  OBVIOUS
<1> HIDE DEF job
<1>1. AgentTypes'
  BY <1>0, <1>a, <1>b, <1>c DEF AgentInv, AgentTypes, Operations, Transfers
<1>2. Sign'
  BY <1>0, <1>a, <1>b, <1>c DEF AgentInv, Sign
<1>3. ASSUME NEW d \in AgentCalls PROVE CallKept(d)
  <2>1. CallOK(d)'
    BY <1>0, <1>a, <1>b, <1>c DEF AgentInv, AgentTypes, CallOK, Operations, Transfers, Finished
  <2>2. JobOK(d)'
    BY <1>0, <1>a, <1>b, <1>c DEF AgentInv, AgentTypes, JobOK, CallOK, Operations, Transfers, DeleteCancelled, Running, Finished
  <2>3. StopOK(d)'
    BY <1>0, <1>a, <1>b, <1>c DEF AgentInv, AgentTypes, StopOK, JobOK, CallOK, Operations, Transfers, DeleteCancelled, Running, Finished
  <2> QED BY <2>1, <2>2, <2>3 DEF CallKept
<1> QED BY <1>1, <1>2, <1>3, AgentKeeps

LEMMA StartDeleteStep == ASSUME AgentInv, NEW c \in AgentCalls, StartDelete(c) PROVE AgentInv'
<1> DEFINE job == [agJob EXCEPT ![c] = "active"]
<1>0. /\ agCall[c] = "planning" /\ c \in Operations /\ c \notin agHalted
      /\ agCall' = [agCall EXCEPT ![c] = "waiting"] /\ agJob' = Rechecked(job)
      /\ agDirty' = agDirty \cup Returned(job) /\ agTracked' = KeptTracked(job) \cup {c}
      /\ agStopped' = agStopped \cap KeptTracked(job)
      /\ Publish(agCalls, KeptTracked(job), agStopped \cap KeptTracked(job))
      /\ UNCHANGED <<agKind, agCalls, agHalted, agRemoved, agBusy, agTries, agCancelled, agKnown, agAnswer,
                     agStops, agBefore>>
  BY DEF StartDelete, NotStopped
<1>a. job \in [AgentCalls -> JobStates] /\ c \in agCalls /\ c \notin agBefore /\ c \notin agStopped
  BY <1>0 DEF AgentInv, AgentTypes, JobStates, Running, CallOK, Operations
<1>b. /\ agJob' \in [AgentCalls -> JobStates]
      /\ \A d \in AgentCalls :
           agJob'[d] = IF d \in agStopped /\ job[d] = "pending" THEN "cancelled" ELSE job[d]
      /\ agTracked' = {d \in agTracked : agJob'[d] \in Running} \cup {c}
      /\ agStopped' = agStopped \cap agTracked'
      /\ agDirty \subseteq agDirty' /\ agDirty' \subseteq AgentCalls
      /\ agLatest'.active
  <2>1. agLatest'.active <=> agCalls \cup KeptTracked(job) # {}
    BY <1>0, SignFacts
  <2>2. /\ Rechecked(job) \in [AgentCalls -> JobStates]
        /\ \A d \in AgentCalls :
             Rechecked(job)[d] = IF d \in agStopped /\ job[d] = "pending" THEN "cancelled" ELSE job[d]
        /\ KeptTracked(job) = {d \in agTracked : Rechecked(job)[d] \in Running}
        /\ Returned(job) \subseteq AgentCalls
    <3> HIDE DEF job
    <3> QED BY <1>a, RecheckFacts
  <2> HIDE DEF job
  <2>3. agLatest'.active
    BY <1>a, <2>1
  <2> QED BY <1>0, <1>a, <2>2, <2>3 DEF AgentInv, AgentTypes
<1>c. job[c] = "active" /\ \A d \in AgentCalls \ {c} : job[d] = agJob[d]
  BY DEF AgentInv, AgentTypes
<1> HIDE DEF job
<1>1. AgentTypes'
  BY <1>0, <1>a, <1>b, <1>c DEF AgentInv, AgentTypes, Operations, Transfers
<1>2. Sign'
  BY <1>0, <1>a, <1>b, <1>c DEF AgentInv, Sign
<1>3. ASSUME NEW d \in AgentCalls PROVE CallKept(d)
  <2>1. CallOK(d)'
    BY <1>0, <1>a, <1>b, <1>c DEF AgentInv, AgentTypes, CallOK, Operations, Transfers, Finished
  <2>2. JobOK(d)'
    BY <1>0, <1>a, <1>b, <1>c DEF AgentInv, AgentTypes, JobOK, CallOK, Operations, Transfers, DeleteCancelled, Running, Finished
  <2>3. StopOK(d)'
    BY <1>0, <1>a, <1>b, <1>c DEF AgentInv, AgentTypes, StopOK, JobOK, CallOK, Operations, Transfers, DeleteCancelled, Running, Finished
  <2> QED BY <2>1, <2>2, <2>3 DEF CallKept
<1> QED BY <1>1, <1>2, <1>3, AgentKeeps

(* Stop: what runs is cancelled or remembered.                              *)
LEMMA UserStopsStep == AgentInv /\ UserStops => AgentInv'
<1> SUFFICES ASSUME AgentInv, UserStops PROVE AgentInv'
  OBVIOUS
<1> DEFINE running == {c \in agTracked : agJob[c] \in Running}
           job == CancelTransfers(running)
           left == {c \in running \ Operations : job[c] \in Running}
<1>0. /\ agJob' = job /\ agDirty' = agDirty \cup {c \in AgentCalls : job[c] # agJob[c]}
      /\ agCancelled' = agCancelled \cup (running \cap Operations)
      /\ agTracked' = left /\ agStopped' = (agStopped \cup (running \cap Transfers)) \cap left
      /\ agHalted' = agHalted \cup agCalls /\ agCalls' = {}
      /\ agBefore' = {c \in AgentCalls : agCall[c] # "none"}
      /\ Publish({}, left, (agStopped \cup (running \cap Transfers)) \cap left)
      /\ UNCHANGED <<agKind, agCall, agRemoved, agBusy, agTries, agKnown, agAnswer>>
  BY DEF UserStops, StillRunning, StopRemembers
<1>a. /\ job \in [AgentCalls -> JobStates]
      /\ \A c \in AgentCalls : job[c] = IF c \in running \cap Transfers /\ agJob[c] \in {"pending", "active"}
                                         THEN "cancelled" ELSE agJob[c]
  BY DEF AgentInv, AgentTypes, CancelTransfers, JobStates, Finished
<1>b. agLatest'.active <=> left # {}
  <2>1. agLatest'.active <=> {} \cup left # {}
    <3> HIDE DEF left
    <3> QED BY <1>0, SignFacts
  <2> QED BY <2>1
<1> HIDE DEF job
<1>1. AgentTypes'
  BY <1>0, <1>a, <1>b DEF AgentInv, AgentTypes, Operations, Transfers
<1>2. Sign'
  BY <1>0, <1>a, <1>b DEF AgentInv, Sign
<1>3. ASSUME NEW d \in AgentCalls PROVE CallKept(d)
  <2>1. CallOK(d)'
    BY <1>0, <1>a, <1>b DEF AgentInv, AgentTypes, CallOK, Operations, Transfers, Finished
  <2>2. JobOK(d)'
    BY <1>0, <1>a, <1>b DEF AgentInv, AgentTypes, JobOK, CallOK, Operations, Transfers, DeleteCancelled, Running, Finished
  <2>3. StopOK(d)'
    BY <1>0, <1>a, <1>b DEF AgentInv, AgentTypes, StopOK, JobOK, CallOK, Operations, Transfers, DeleteCancelled, Running, Finished
  <2> QED BY <2>1, <2>2, <2>3 DEF CallKept
<1> QED BY <1>1, <1>2, <1>3, AgentKeeps

LEMMA AgentStart == AgentInit => AgentInv
<1> SUFFICES ASSUME AgentInit PROVE AgentInv
  OBVIOUS
<1>1. 0 \in 0..DeleteItems /\ 0 \in 0..MaxAgentRetries
  BY AgentAssumption DEF AgentAssumption
<1>2. AgentTypes
  BY <1>1 DEF AgentInit, AgentTypes, JobStates
<1>3. Sign
  BY DEF AgentInit, Sign
<1>4. ASSUME NEW c \in AgentCalls PROVE CallOK(c) /\ JobOK(c) /\ StopOK(c)
  BY DEF AgentInit, CallOK, JobOK, StopOK, Running, Finished
<1> QED BY <1>2, <1>3, <1>4 DEF AgentInv

LEMMA AgentStepKeeps == AgentInv /\ [AgentNext]_agentVars => AgentInv'
<1> SUFFICES ASSUME AgentInv, [AgentNext]_agentVars PROVE AgentInv'
  OBVIOUS
<1>1. CASE UNCHANGED agentVars
  BY <1>1 DEF agentVars, AgentInv, AgentTypes, Sign, CallOK, JobOK, StopOK, Operations, Transfers, DeleteCancelled
<1> QED BY <1>1, Begins, PlanFailsStep, StartTransferStep, StartDeleteStep, WaitEndsStep, UserStopsStep,
           TransferStartsStep, TransferEndsStep, QueueReportsStep, TransfersClearedStep, DeleteCommandStep,
           DeleteReplyStep, DeleteEndsStep, OperationCancelStep, OperationForgottenStep
        DEF AgentNext, AgentProgress

(* The invariant gives the property.                                        *)
LEMMA AgentInvGives == AgentInv => AgentSafe
<1> SUFFICES ASSUME AgentInv PROVE AgentSafe
  OBVIOUS
<1>1. AgentTypeOK
  BY DEF AgentInv, AgentTypes, AgentTypeOK, CallOK, JobOK, Operations
<1>2. StopReaches
  BY DEF AgentInv, AgentTypes, StopReaches, StopOK
<1>3. ActivityHonest /\ SignGoes
  BY DEF AgentInv, AgentTypes, Sign, JobOK, ActivityHonest, SignGoes
<1>4. AnswerKnown
  BY DEF AgentInv, AgentTypes, AnswerKnown
<1> QED BY <1>1, <1>2, <1>3, <1>4 DEF AgentSafe

(* Nothing that an agent had begun when the user stopped it goes on behind  *)
(* his back, and the sign says what runs (agentActivity.ts, agentOps.ts),   *)
(* for any number of calls, reports, stops and retries.                     *)
THEOREM AgentIsSafe == AgentSpec => []AgentSafe
BY AgentStart, AgentStepKeeps, AgentInvGives, PTL DEF AgentSpec

-----------------------------------------------------------------------------
(* Thumbnails.  Each item of work belongs to a generation, and the clients  *)
(* of the pool are the idle ones and those of this generation's downloads.  *)

(* An item of work, and the parts of the work that use or await a client.   *)
WorkItem(g) == [key : ThumbKeys, gen : 0..g, at : {"login", "download", "main", "render"}]
WithClient(w, g) == {x \in w : x.at = "download" /\ x.gen = g}
LoggingIn(w) == {x \in w : x.at = "login"}

(* The work w of generation g and before, with the queue q, the marks p and *)
(* the keys due; pool clients, of which a are idle.                        *)
WorkFits(g, q, w, p, due) ==
  /\ q \subseteq ThumbKeys /\ p \subseteq ThumbKeys /\ due \subseteq q \cup p
  /\ w \subseteq WorkItem(g) /\ p = {x.key : x \in {y \in w : y.gen = g}} /\ p \cap q = {}
  /\ \A x, y \in w : x.key = y.key /\ x.gen = y.gen => x = y

(* The clients of the pool are the idle ones and those of this generation's *)
(* downloads, and no login under way leaves the slots.                      *)
ClientsFit(g, w, pool, a) ==
  /\ IsFiniteSet(w) /\ Cardinality(w) <= ThumbSlots /\ a \in Nat
  /\ pool = a + Cardinality(WithClient(w, g))
  /\ pool + Cardinality(LoggingIn(w)) <= ThumbSlots

(* The inductive invariant.                                                 *)
ThumbInv ==
  /\ generation \in Nat /\ secondaryFailed \in BOOLEAN /\ thumbCache \subseteq ThumbKeys
  /\ batches \in [ThumbViewers -> SUBSET ThumbKeys]
  /\ WorkFits(generation, thumbQueue, thumbWork, processing, thumbDue)
  /\ ClientsFit(generation, thumbWork, thumbPool, thumbAvail)

(* Parts of the work are finite, and none is more than the whole.           *)
LEMMA PartsFinite ==
  ASSUME NEW g, NEW w, IsFiniteSet(w)
  PROVE  /\ Cardinality(w) \in Nat
         /\ IsFiniteSet(WithClient(w, g)) /\ Cardinality(WithClient(w, g)) \in Nat
         /\ IsFiniteSet(LoggingIn(w)) /\ Cardinality(LoggingIn(w)) \in Nat
         /\ Cardinality(LoggingIn(w)) <= Cardinality(w)
<1>1. WithClient(w, g) \in SUBSET w /\ LoggingIn(w) \in SUBSET w
  BY DEF WithClient, LoggingIn
<1>2. /\ IsFiniteSet(WithClient(w, g)) /\ IsFiniteSet(LoggingIn(w))
      /\ Cardinality(LoggingIn(w)) <= Cardinality(w)
  BY <1>1, FS_Subset
<1> QED BY <1>2, FS_CardinalityType

LEMMA SlotsNat == ThumbSlots \in Nat \ {0}
BY ThumbAssumption DEF ThumbAssumption

(* One item leaves.                                                        *)
LEMMA ItemLeaves ==
  ASSUME NEW g, NEW w, IsFiniteSet(w), NEW x \in w
  PROVE  LET rest == w \ {x} IN
         /\ IsFiniteSet(rest) /\ Cardinality(rest) = Cardinality(w) - 1
         /\ Cardinality(WithClient(rest, g)) = IF x.at = "download" /\ x.gen = g
                                               THEN Cardinality(WithClient(w, g)) - 1
                                               ELSE Cardinality(WithClient(w, g))
         /\ Cardinality(LoggingIn(rest)) = IF x.at = "login" THEN Cardinality(LoggingIn(w)) - 1
                                           ELSE Cardinality(LoggingIn(w))
<1> DEFINE rest == w \ {x}
<1>1. IsFiniteSet(rest) /\ Cardinality(rest) = Cardinality(w) - 1
  BY FS_RemoveElement
<1>2. WithClient(rest, g) = WithClient(w, g) \ {x} /\ LoggingIn(rest) = LoggingIn(w) \ {x}
  BY DEF WithClient, LoggingIn
<1>3. x \in WithClient(w, g) <=> x.at = "download" /\ x.gen = g
  BY DEF WithClient
<1>4. x \in LoggingIn(w) <=> x.at = "login"
  BY DEF LoggingIn
<1>5. IsFiniteSet(WithClient(w, g)) /\ IsFiniteSet(LoggingIn(w))
  BY PartsFinite
<1> HIDE DEF rest
<1>6. Cardinality(WithClient(w, g) \ {x}) = IF x \in WithClient(w, g) THEN Cardinality(WithClient(w, g)) - 1
                                            ELSE Cardinality(WithClient(w, g))
  BY <1>5, FS_RemoveElement
<1>7. Cardinality(LoggingIn(w) \ {x}) = IF x \in LoggingIn(w) THEN Cardinality(LoggingIn(w)) - 1
                                        ELSE Cardinality(LoggingIn(w))
  BY <1>5, FS_RemoveElement
<1> QED BY <1>1, <1>2, <1>3, <1>4, <1>6, <1>7 DEF rest

(* Disjoint items come.                                                    *)
LEMMA ItemsCome ==
  ASSUME NEW g, NEW w, IsFiniteSet(w), NEW n, IsFiniteSet(n), w \cap n = {}
  PROVE  /\ IsFiniteSet(w \cup n) /\ Cardinality(w \cup n) = Cardinality(w) + Cardinality(n)
         /\ Cardinality(WithClient(w \cup n, g)) = Cardinality(WithClient(w, g)) + Cardinality(WithClient(n, g))
         /\ Cardinality(LoggingIn(w \cup n)) = Cardinality(LoggingIn(w)) + Cardinality(LoggingIn(n))
<1>1. /\ WithClient(w \cup n, g) = WithClient(w, g) \cup WithClient(n, g)
      /\ LoggingIn(w \cup n) = LoggingIn(w) \cup LoggingIn(n)
      /\ WithClient(w, g) \cap WithClient(n, g) = {} /\ LoggingIn(w) \cap LoggingIn(n) = {}
  BY DEF WithClient, LoggingIn
<1>2. ASSUME NEW S, NEW T, IsFiniteSet(S), IsFiniteSet(T), S \cap T = {}
      PROVE  IsFiniteSet(S \cup T) /\ Cardinality(S \cup T) = Cardinality(S) + Cardinality(T)
  <2>1. Cardinality(S) \in Nat /\ Cardinality(T) \in Nat
    BY <1>2, FS_CardinalityType
  <2>2. IsFiniteSet(S \cup T) /\ Cardinality(S \cup T) = Cardinality(S) + Cardinality(T) - Cardinality(S \cap T)
    BY <1>2, FS_Union
  <2>3. Cardinality(S \cap T) = 0
    BY <1>2, FS_EmptySet
  <2> QED BY <2>1, <2>2, <2>3
<1>3. /\ IsFiniteSet(WithClient(w, g)) /\ IsFiniteSet(WithClient(n, g))
      /\ IsFiniteSet(LoggingIn(w)) /\ IsFiniteSet(LoggingIn(n))
  BY PartsFinite
<1> QED BY <1>1, <1>2, <1>3

(* The items of the keys S, each at the place at[k].                       *)
StartedItems(S, g, at) == {[key |-> k, gen |-> g, at |-> at[k]] : k \in S}

(* As many items are started as keys are taken.                             *)
LEMMA ItemCount ==
  ASSUME NEW S, IsFiniteSet(S), NEW g, NEW at
  PROVE  IsFiniteSet(StartedItems(S, g, at)) /\ Cardinality(StartedItems(S, g, at)) = Cardinality(S)
<1> DEFINE f == [k \in S |-> [key |-> k, gen |-> g, at |-> at[k]]]
<1>1. \A k \in S : f[k].key = k /\ f[k] \in StartedItems(S, g, at)
  BY DEF StartedItems
<1>2. \A y \in StartedItems(S, g, at) : \E k \in S : f[k] = y
  BY DEF StartedItems
<1>3. f \in [S -> StartedItems(S, g, at)]
  BY <1>1
<1> HIDE DEF f
<1>4. f \in Bijection(S, StartedItems(S, g, at))
  BY <1>1, <1>2, <1>3 DEF Bijection, Injection, Surjection, IsInjective
<1> QED BY <1>4, FS_Bijection DEF ExistsBijection

(* Where the items that pump() starts go: to an idle client, to a login, or *)
(* to the main client when there is no other.                               *)
Where(failed, reuse, start) ==
  [k \in start |-> IF failed THEN "main" ELSE IF k \in reuse THEN "download" ELSE "login"]
Reused(failed, a, n) == IF failed THEN 0 ELSE IF a < n THEN a ELSE n

(* processNext() keeps everything, whatever it starts.                     *)
LEMMA StartsFit ==
  ASSUME NEW g \in Nat, NEW q, NEW w, NEW p, NEW due, NEW pool, NEW a,
         WorkFits(g, q, w, p, due), ClientsFit(g, w, pool, a),
         NEW failed \in BOOLEAN, NEW hit \in SUBSET q, NEW start \in SUBSET (q \ hit),
         NEW reuse \in SUBSET start, IsFiniteSet(start),
         Cardinality(start) = 0 \/ Cardinality(w) + Cardinality(start) <= ThumbSlots,
         Cardinality(reuse) = Reused(failed, a, Cardinality(start))
  PROVE  LET w1 == w \cup StartedItems(start, g, Where(failed, reuse, start)) IN
         /\ WorkFits(g, q \ (hit \cup start), w1, p \cup start, due \ hit)
         /\ ClientsFit(g, w1, pool, a - Cardinality(reuse))
<1> DEFINE at == Where(failed, reuse, start)
           n == StartedItems(start, g, at)
           w1 == w \cup n
<1>1. \A x \in n : x.key \in start /\ x.gen = g /\ x.at = at[x.key] /\ x = [key |-> x.key, gen |-> g, at |-> at[x.key]]
  BY DEF StartedItems
<1>2. \A k \in start : /\ [key |-> k, gen |-> g, at |-> at[k]] \in n
                       /\ at[k] = IF failed THEN "main" ELSE IF k \in reuse THEN "download" ELSE "login"
  BY DEF StartedItems, Where
<1>3. IsFiniteSet(n) /\ Cardinality(n) = Cardinality(start)
  BY ItemCount
<1>4. start \subseteq ThumbKeys /\ start \cap p = {}
  BY DEF WorkFits
<1>5. w \cap n = {}
  <2>1. \A x \in n \cap w : x.key \in p
    BY <1>1 DEF WorkFits
  <2> QED BY <1>1, <1>4, <2>1
<1> HIDE DEF n, at
<1>6. WorkFits(g, q \ (hit \cup start), w1, p \cup start, due \ hit)
  <2>1. n \subseteq WorkItem(g)
    BY <1>1, <1>2, <1>4 DEF WorkItem
  <2>2. w1 \subseteq WorkItem(g)
    BY <2>1 DEF WorkFits
  <2>3. p \cup start = {x.key : x \in {y \in w1 : y.gen = g}}
    <3>1. \A k \in start : \E x \in n : x.key = k /\ x.gen = g
      BY <1>2
    <3> QED BY <1>1, <3>1 DEF WorkFits
  <2>4. ASSUME NEW x \in w1, NEW y \in w1, x.key = y.key, x.gen = y.gen PROVE x = y
    <3>1. CASE x \in w /\ y \in w
      BY <2>4, <3>1 DEF WorkFits
    <3>2. CASE x \in n /\ y \in n
      BY <1>1, <2>4, <3>2
    <3>3. CASE (x \in w /\ y \in n) \/ (x \in n /\ y \in w)
      <4>1. ASSUME NEW u \in w, NEW v \in n, u.key = v.key, u.gen = v.gen PROVE FALSE
        BY <1>1, <1>4, <4>1 DEF WorkFits
      <4> QED BY <2>4, <3>3, <4>1
    <3> QED BY <3>1, <3>2, <3>3
  <2> HIDE DEF w1
  <2>5. (p \cup start) \cap (q \ (hit \cup start)) = {} /\ due \ hit \subseteq (q \ (hit \cup start)) \cup (p \cup start)
    BY DEF WorkFits
  <2> QED BY <1>4, <2>2, <2>3, <2>4, <2>5 DEF WorkFits
<1>7. ClientsFit(g, w1, pool, a - Cardinality(reuse))
  <2>1. IsFiniteSet(reuse) /\ Cardinality(reuse) \in Nat /\ Cardinality(start) \in Nat
    BY FS_Subset, FS_CardinalityType
  <2>2. IsFiniteSet(w) /\ Cardinality(w) \in Nat /\ a \in Nat /\ Cardinality(w) <= ThumbSlots
    BY PartsFinite DEF ClientsFit
  <2>3. /\ IsFiniteSet(w1) /\ Cardinality(w1) = Cardinality(w) + Cardinality(start)
        /\ Cardinality(WithClient(w1, g)) = Cardinality(WithClient(w, g)) + Cardinality(WithClient(n, g))
        /\ Cardinality(LoggingIn(w1)) = Cardinality(LoggingIn(w)) + Cardinality(LoggingIn(n))
    BY <1>3, <1>5, <2>2, ItemsCome
  <2>4. /\ Cardinality(WithClient(w, g)) \in Nat /\ Cardinality(LoggingIn(w)) \in Nat
        /\ pool = a + Cardinality(WithClient(w, g)) /\ pool + Cardinality(LoggingIn(w)) <= ThumbSlots
    BY <2>2, PartsFinite DEF ClientsFit
  <2>5. CASE failed
    <3>1. WithClient(n, g) = {} /\ LoggingIn(n) = {}
      BY <1>1, <1>2, <2>5 DEF WithClient, LoggingIn
    <3>2. Cardinality(WithClient(n, g)) = 0 /\ Cardinality(LoggingIn(n)) = 0
      BY <3>1, FS_EmptySet
    <3>3. Cardinality(reuse) = 0
      BY <2>5 DEF Reused
    <3>4. Cardinality(w1) <= ThumbSlots
      BY <2>1, <2>2, <2>3, SlotsNat
    <3> HIDE DEF w1
    <3> QED BY <2>1, <2>2, <2>3, <2>4, <3>2, <3>3, <3>4 DEF ClientsFit
  <2>6. CASE ~failed
    <3>1. WithClient(n, g) = StartedItems(reuse, g, at) /\ LoggingIn(n) = StartedItems(start \ reuse, g, at)
      <4>1. \A x \in n : x.at = IF x.key \in reuse THEN "download" ELSE "login"
        BY <1>1, <1>2, <2>6
      <4>2. \A x \in n : x.at = "download" <=> x.key \in reuse
        BY <4>1
      <4>3. \A x \in n : x.at = "login" <=> x.key \in start \ reuse
        BY <1>1, <4>1
      <4>4. \A x : x \in n <=> \E k \in start : x = [key |-> k, gen |-> g, at |-> at[k]]
        BY DEF n, StartedItems
      <4>5. WithClient(n, g) = StartedItems(reuse, g, at)
        BY <1>1, <4>2, <4>4 DEF WithClient, StartedItems
      <4>6. LoggingIn(n) = StartedItems(start \ reuse, g, at)
        BY <1>1, <4>3, <4>4 DEF LoggingIn, StartedItems
      <4> QED BY <4>5, <4>6
    <3>2. IsFiniteSet(start \ reuse) /\ Cardinality(start \ reuse) = Cardinality(start) - Cardinality(reuse)
      <4>1. IsFiniteSet(start \ reuse)
        BY FS_Subset
      <4>2. Cardinality(start \ reuse) \in Nat
        BY <4>1, FS_CardinalityType
      <4>3. Cardinality((start \ reuse) \cup reuse) = Cardinality(start \ reuse) + Cardinality(reuse) - Cardinality((start \ reuse) \cap reuse)
        BY <2>1, <4>1, FS_Union
      <4>4. (start \ reuse) \cup reuse = start /\ (start \ reuse) \cap reuse = {}
        OBVIOUS
      <4>5. Cardinality((start \ reuse) \cap reuse) = 0
        BY <4>4, FS_EmptySet
      <4>6. Cardinality(start) = Cardinality(start \ reuse) + Cardinality(reuse) - 0
        BY <4>3, <4>4, <4>5, Zenon
      <4> DEFINE i == Cardinality(start)
                 j == Cardinality(start \ reuse)
                 k == Cardinality(reuse)
      <4>7. i = j + k - 0 /\ i \in Nat /\ j \in Nat /\ k \in Nat
        BY <2>1, <4>2, <4>6, Zenon
      <4> HIDE DEF i, j, k
      <4>8. j = i - k
        BY <4>7
      <4> QED BY <4>1, <4>8, Zenon DEF i, j, k
    <3>3. /\ Cardinality(WithClient(n, g)) = Cardinality(reuse)
          /\ Cardinality(LoggingIn(n)) = Cardinality(start) - Cardinality(reuse)
      BY <2>1, <3>1, <3>2, ItemCount
    <3>4. Cardinality(w1) <= ThumbSlots
      BY <2>1, <2>2, <2>3, SlotsNat
    <3>5. Cardinality(reuse) = IF a < Cardinality(start) THEN a ELSE Cardinality(start)
      BY <2>6 DEF Reused
    <3>6. Cardinality(WithClient(w, g)) + Cardinality(LoggingIn(w)) <= Cardinality(w)
      <4>1. WithClient(w, g) \cup LoggingIn(w) \in SUBSET w /\ WithClient(w, g) \cap LoggingIn(w) = {}
        BY DEF WithClient, LoggingIn
      <4>2. IsFiniteSet(WithClient(w, g)) /\ IsFiniteSet(LoggingIn(w))
        BY <2>2, PartsFinite
      <4>3. Cardinality(WithClient(w, g) \cap LoggingIn(w)) = 0
        BY <4>1, FS_EmptySet
      <4>4. Cardinality(WithClient(w, g) \cup LoggingIn(w)) =
              Cardinality(WithClient(w, g)) + Cardinality(LoggingIn(w)) - Cardinality(WithClient(w, g) \cap LoggingIn(w))
        BY <4>2, FS_Union
      <4>5. Cardinality(WithClient(w, g) \cup LoggingIn(w)) <= Cardinality(w)
        BY <2>2, <4>1, FS_Subset
      <4> QED BY <2>4, <4>3, <4>4, <4>5
    <3> HIDE DEF w1
    <3>7. pool = a - Cardinality(reuse) + Cardinality(WithClient(w1, g)) /\ a - Cardinality(reuse) \in Nat
      BY <2>1, <2>2, <2>3, <2>4, <3>3, <3>5
    <3>8. pool + Cardinality(LoggingIn(w1)) <= ThumbSlots
      BY <2>1, <2>2, <2>3, <2>4, <3>3, <3>4, <3>5, <3>6, SlotsNat
    <3> QED BY <2>3, <3>4, <3>7, <3>8 DEF ClientsFit
  <2> QED BY <2>5, <2>6
<1> QED BY <1>6, <1>7 DEF n, at

(* ProcessNext as a step: it keeps what is there and of this generation.   *)
LEMMA ProcessNextFits ==
  ASSUME NEW q, NEW w, NEW p, NEW due, NEW pool, NEW a, NEW failed \in BOOLEAN, NEW cache,
         generation \in Nat, WorkFits(generation, q, w, p, due), ClientsFit(generation, w, pool, a),
         ProcessNext(q, w, p, a, failed, cache, due)
  PROVE  /\ WorkFits(generation, thumbQueue', thumbWork', processing', thumbDue')
         /\ ClientsFit(generation, thumbWork', pool, thumbAvail')
<1> DEFINE room == MaxConcurrent(failed) - Cardinality(w)
<1>1. PICK hit \in SUBSET (q \cap cache), start \in SUBSET (q \ cache) :
        /\ Cardinality(start) <= IF room > 0 THEN room ELSE 0
        /\ \E reuse \in SUBSET start :
             /\ Cardinality(reuse) =
                  IF failed THEN 0
                  ELSE IF a < Cardinality(start) THEN a ELSE Cardinality(start)
             /\ thumbAvail' = a - Cardinality(reuse)
             /\ thumbWork' = w \cup {[key |-> k, gen |-> generation,
                                      at |-> IF failed THEN "main"
                                             ELSE IF k \in reuse THEN "download" ELSE "login"] :
                                     k \in start}
        /\ thumbQueue' = q \ (hit \cup start)
        /\ processing' = p \cup start
        /\ thumbDue' = due \ hit
  BY DEF ProcessNext
<1>2. PICK reuse \in SUBSET start :
             /\ Cardinality(reuse) = Reused(failed, a, Cardinality(start))
             /\ thumbAvail' = a - Cardinality(reuse)
             /\ thumbWork' = w \cup {[key |-> k, gen |-> generation,
                                      at |-> IF failed THEN "main"
                                             ELSE IF k \in reuse THEN "download" ELSE "login"] :
                                     k \in start}
  BY <1>1, Zenon DEF Reused
<1>3. thumbWork' = w \cup StartedItems(start, generation, Where(failed, reuse, start))
  <2>1. {[key |-> k, gen |-> generation, at |-> IF failed THEN "main" ELSE IF k \in reuse THEN "download" ELSE "login"] :
            k \in start} = StartedItems(start, generation, Where(failed, reuse, start))
    BY DEF StartedItems, Where
  <2> QED BY <1>2, <2>1
<1>4. IsFiniteSet(start) /\ Cardinality(start) \in Nat /\ Cardinality(w) \in Nat
  <2>1. q \subseteq ThumbKeys /\ IsFiniteSet(ThumbKeys)
    BY ThumbAssumption DEF WorkFits, ThumbAssumption
  <2>2. IsFiniteSet(start)
    BY <2>1, FS_Subset
  <2> QED BY <2>2, FS_CardinalityType DEF ClientsFit
<1>5. Cardinality(start) = 0 \/ Cardinality(w) + Cardinality(start) <= ThumbSlots
  <2>1. MaxConcurrent(failed) \in Nat /\ MaxConcurrent(failed) <= ThumbSlots
    BY SlotsNat DEF MaxConcurrent
  <2>2. Cardinality(start) <= IF room > 0 THEN room ELSE 0
    BY <1>1
  <2> QED BY <1>4, <2>1, <2>2, SlotsNat
<1>6. start \in SUBSET (q \ hit) /\ hit \in SUBSET q
  OBVIOUS
<1> HIDE DEF room
<1> DEFINE w1 == w \cup StartedItems(start, generation, Where(failed, reuse, start))
<1>7. /\ WorkFits(generation, q \ (hit \cup start), w1, p \cup start, due \ hit)
      /\ ClientsFit(generation, w1, pool, a - Cardinality(reuse))
  BY <1>2, <1>4, <1>5, <1>6, StartsFit
<1>8. thumbQueue' = q \ (hit \cup start) /\ processing' = p \cup start /\ thumbDue' = due \ hit
  BY <1>1
<1>9. thumbWork' = w1 /\ thumbAvail' = a - Cardinality(reuse)
  BY <1>2, <1>3
<1> HIDE DEF w1
<1> QED BY <1>7, <1>8, <1>9

(* The end of an item.                                                     *)
LEMMA WorkEndsFits ==
  ASSUME ThumbInv, NEW x \in thumbWork, NEW avail \in Nat, NEW pool, NEW failed \in BOOLEAN, NEW cache,
         NEW said \in BOOLEAN, Current(x) => said, WorkEnds(x, avail, failed, cache, said),
         pool - avail = thumbPool - thumbAvail - (IF x.at = "download" /\ Current(x) THEN 1 ELSE 0),
         pool \in Int, pool <= thumbPool, UNCHANGED generation
  PROVE  /\ WorkFits(generation', thumbQueue', thumbWork', processing', thumbDue')
         /\ ClientsFit(generation', thumbWork', pool, thumbAvail')
<1> DEFINE g == generation
           w == thumbWork \ {x}
           due == IF said THEN thumbDue \ {x.key} ELSE thumbDue
<1>1. g \in Nat /\ WorkFits(g, thumbQueue, thumbWork, processing, thumbDue) /\ ClientsFit(g, thumbWork, thumbPool, thumbAvail)
  BY DEF ThumbInv
<1>2. WorkFits(g, thumbQueue, w, MarksLeft(x), due)
  <2>1. CASE x.gen = g
    <3>1. MarksLeft(x) = processing \ {x.key} /\ due = thumbDue \ {x.key}
      BY <2>1 DEF MarksLeft, Current
    <3>2. processing \ {x.key} = {y.key : y \in {z \in w : z.gen = g}}
      BY <1>1, <2>1 DEF WorkFits
    <3> HIDE DEF due
    <3> QED BY <1>1, <3>1, <3>2 DEF WorkFits
  <2>2. CASE x.gen # g
    <3>1. MarksLeft(x) = processing /\ due \subseteq thumbDue
      BY <2>2 DEF MarksLeft, Current
    <3>2. processing = {y.key : y \in {z \in w : z.gen = g}}
      BY <1>1, <2>2 DEF WorkFits
    <3> HIDE DEF due
    <3> QED BY <1>1, <3>1, <3>2 DEF WorkFits
  <2> QED BY <2>1, <2>2
<1>3. ClientsFit(g, w, pool, avail)
  <2>1. IsFiniteSet(thumbWork) /\ Cardinality(thumbWork) <= ThumbSlots /\ thumbAvail \in Nat
    BY <1>1 DEF ClientsFit
  <2>2. /\ thumbPool = thumbAvail + Cardinality(WithClient(thumbWork, g))
        /\ thumbPool + Cardinality(LoggingIn(thumbWork)) <= ThumbSlots
    BY <1>1 DEF ClientsFit
  <2>3. /\ Cardinality(thumbWork) \in Nat /\ Cardinality(WithClient(thumbWork, g)) \in Nat
        /\ Cardinality(LoggingIn(thumbWork)) \in Nat
    BY <2>1, PartsFinite
  <2>4. /\ IsFiniteSet(w) /\ Cardinality(w) = Cardinality(thumbWork) - 1
        /\ Cardinality(WithClient(w, g)) = IF x.at = "download" /\ x.gen = g
                                           THEN Cardinality(WithClient(thumbWork, g)) - 1
                                           ELSE Cardinality(WithClient(thumbWork, g))
        /\ Cardinality(LoggingIn(w)) = IF x.at = "login" THEN Cardinality(LoggingIn(thumbWork)) - 1
                                       ELSE Cardinality(LoggingIn(thumbWork))
    BY <2>1, ItemLeaves
  <2>5. pool = avail + Cardinality(WithClient(w, g))
    BY <2>1, <2>2, <2>3, <2>4 DEF Current
  <2>6. pool + Cardinality(LoggingIn(w)) <= ThumbSlots /\ Cardinality(w) <= ThumbSlots
    BY <2>1, <2>2, <2>3, <2>4, SlotsNat
  <2> QED BY <2>4, <2>5, <2>6 DEF ClientsFit
<1>4. ProcessNext(thumbQueue, w, MarksLeft(x), avail, failed, cache, due)
  BY DEF WorkEnds
<1> HIDE DEF w, due
<1> QED BY <1>1, <1>2, <1>3, <1>4, ProcessNextFits

(* An item goes on to the next place.                                      *)
LEMMA GoesOnFits ==
  ASSUME ThumbInv, NEW x \in thumbWork, NEW at \in {"download", "main", "render"}, GoesOn(x, at),
         NEW pool, NEW avail \in Nat, UNCHANGED generation,
         x.at = "login" /\ at = "download" /\ x.gen = generation => pool = thumbPool + 1 /\ avail = thumbAvail,
         x.at = "login" /\ at = "main" => pool = thumbPool /\ avail = thumbAvail,
         x.at = "download" /\ x.gen = generation => at = "render" /\ pool = thumbPool /\ avail = thumbAvail + 1,
         x.at = "main" => at = "render" /\ pool = thumbPool /\ avail = thumbAvail,
         x.at # "render" /\ x.gen = generation /\ (x.at = "login" => at # "render")
  PROVE  /\ WorkFits(generation', thumbQueue', thumbWork', processing', thumbDue')
         /\ ClientsFit(generation', thumbWork', pool, avail)
<1> DEFINE g == generation
           y == [x EXCEPT !.at = at]
           w == thumbWork \ {x}
           w1 == w \cup {y}
<1>1. g \in Nat /\ WorkFits(g, thumbQueue, thumbWork, processing, thumbDue) /\ ClientsFit(g, thumbWork, thumbPool, thumbAvail)
  BY DEF ThumbInv
<1>2. thumbWork' = w1 /\ UNCHANGED <<thumbQueue, processing, thumbDue>>
  BY DEF GoesOn
<1>3. x \in WorkItem(g) /\ y \in WorkItem(g) /\ y.key = x.key /\ y.gen = x.gen /\ y.at = at
  BY <1>1 DEF WorkFits, WorkItem
<1>4. y \notin w
  BY <1>1, <1>3 DEF WorkFits
<1> HIDE DEF y
<1>5. WorkFits(g, thumbQueue, w1, processing, thumbDue)
  <2>1. w1 \subseteq WorkItem(g)
    BY <1>1, <1>3 DEF WorkFits
  <2>2. processing = {u.key : u \in {v \in w1 : v.gen = g}}
    <3>1. \A k : (\E u \in thumbWork : u.gen = g /\ u.key = k) <=> (\E u \in w1 : u.gen = g /\ u.key = k)
      BY <1>3
    <3> HIDE DEF w1
    <3> QED BY SMTT(30), <1>1, <3>1 DEF WorkFits
  <2>3. \A u, v \in w1 : u.key = v.key /\ u.gen = v.gen => u = v
    BY <1>1, <1>3 DEF WorkFits
  <2> HIDE DEF w1
  <2> QED BY <1>1, <2>1, <2>2, <2>3 DEF WorkFits
<1>6. ClientsFit(g, w1, pool, avail)
  <2>1. IsFiniteSet(thumbWork) /\ Cardinality(thumbWork) <= ThumbSlots /\ thumbAvail \in Nat
    BY <1>1 DEF ClientsFit
  <2>2. /\ thumbPool = thumbAvail + Cardinality(WithClient(thumbWork, g))
        /\ thumbPool + Cardinality(LoggingIn(thumbWork)) <= ThumbSlots
    BY <1>1 DEF ClientsFit
  <2>3. /\ Cardinality(thumbWork) \in Nat /\ Cardinality(WithClient(thumbWork, g)) \in Nat
        /\ Cardinality(LoggingIn(thumbWork)) \in Nat
    BY <2>1, PartsFinite
  <2>4. /\ IsFiniteSet(w) /\ Cardinality(w) = Cardinality(thumbWork) - 1
        /\ Cardinality(WithClient(w, g)) = IF x.at = "download" /\ x.gen = g
                                           THEN Cardinality(WithClient(thumbWork, g)) - 1
                                           ELSE Cardinality(WithClient(thumbWork, g))
        /\ Cardinality(LoggingIn(w)) = IF x.at = "login" THEN Cardinality(LoggingIn(thumbWork)) - 1
                                       ELSE Cardinality(LoggingIn(thumbWork))
    BY <2>1, ItemLeaves
  <2>5. w1 \ {y} = w /\ y \in w1 /\ IsFiniteSet(w1)
    BY <1>4, <2>4, FS_AddElement
  <2> HIDE DEF w1, w
  <2>6. /\ Cardinality(w) = Cardinality(w1) - 1 /\ Cardinality(w1) \in Nat
        /\ Cardinality(WithClient(w1, g)) \in Nat /\ Cardinality(LoggingIn(w1)) \in Nat
        /\ Cardinality(WithClient(w, g)) = IF at = "download" THEN Cardinality(WithClient(w1, g)) - 1
                                           ELSE Cardinality(WithClient(w1, g))
        /\ Cardinality(LoggingIn(w)) = Cardinality(LoggingIn(w1))
    BY <1>3, <2>5, ItemLeaves, PartsFinite
  <2>7. x.at \in {"login", "download", "main"}
    BY <1>3 DEF WorkItem
  <2>8. pool = avail + Cardinality(WithClient(w1, g))
    <3>1. CASE x.at = "login"
      BY <2>1, <2>2, <2>3, <2>4, <2>6, <3>1
    <3>2. CASE x.at = "download"
      BY <2>1, <2>2, <2>3, <2>4, <2>6, <3>2
    <3>3. CASE x.at = "main"
      BY <2>1, <2>2, <2>3, <2>4, <2>6, <3>3
    <3> QED BY <2>7, <3>1, <3>2, <3>3
  <2>9. pool + Cardinality(LoggingIn(w1)) <= ThumbSlots
    <3>1. CASE x.at = "login"
      BY <2>1, <2>2, <2>3, <2>4, <2>6, <3>1, SlotsNat
    <3>2. CASE x.at \in {"download", "main"}
      BY <2>1, <2>2, <2>3, <2>4, <2>6, <3>2, SlotsNat
    <3> QED BY <2>7, <3>1, <3>2
  <2>10. Cardinality(w1) <= ThumbSlots
    BY <2>1, <2>3, <2>4, <2>6
  <2> QED BY <2>5, <2>8, <2>9, <2>10 DEF ClientsFit
<1> HIDE DEF w1
<1> QED BY <1>2, <1>5, <1>6

(* Each step keeps the invariant: an item goes on, or ends and the next     *)
(* start.                                                                   *)
LEMMA WorkStep ==
  ASSUME ThumbInv, NEW x \in thumbWork, NEW ok \in BOOLEAN, UNCHANGED <<batches, generation, thumbRequests>>,
         SecondaryLogin(x, ok) \/ Downloaded(x, ok) \/ DownloadedOnMain(x, ok) \/ Rendered(x, ok)
  PROVE  ThumbInv'
<1> DEFINE Kept == /\ WorkFits(generation', thumbQueue', thumbWork', processing', thumbDue')
                   /\ ClientsFit(generation', thumbWork', thumbPool', thumbAvail')
<1>1. /\ generation \in Nat /\ secondaryFailed \in BOOLEAN /\ thumbCache \subseteq ThumbKeys
      /\ thumbAvail \in Nat /\ thumbPool \in Nat /\ x \in WorkItem(generation)
  <2>1. Cardinality(WithClient(thumbWork, generation)) \in Nat
    BY PartsFinite DEF ThumbInv, ClientsFit
  <2> QED BY <2>1 DEF ThumbInv, ClientsFit, WorkFits
<1>2. CASE SecondaryLogin(x, ok)
  <2>1. CASE Current(x)
    <3> DEFINE at == IF ok THEN "download" ELSE "main"
               pool == IF ok THEN thumbPool + 1 ELSE thumbPool
    <3>1. GoesOn(x, at) /\ thumbPool' = pool /\ thumbAvail' = thumbAvail /\ x.at = "login" /\ x.gen = generation
      BY <1>2, <2>1 DEF SecondaryLogin, Current
    <3>2. /\ WorkFits(generation', thumbQueue', thumbWork', processing', thumbDue')
          /\ ClientsFit(generation', thumbWork', pool, thumbAvail)
      <4>1. at \in {"download", "main", "render"} /\ (at = "download" => pool = thumbPool + 1)
            /\ (at = "main" => pool = thumbPool)
        BY DEF at, pool
      <4>2. at # "render" /\ x.at = "login" /\ thumbAvail \in Nat /\ generation' = generation
        BY <1>1, <3>1
      <4>3. /\ x.at = "login" /\ at = "download" /\ x.gen = generation => pool = thumbPool + 1 /\ thumbAvail = thumbAvail
            /\ x.at = "login" /\ at = "main" => pool = thumbPool /\ thumbAvail = thumbAvail
            /\ x.at # "render" /\ x.at # "main" /\ x.at # "download" /\ x.gen = generation
        BY <3>1, <4>1
      <4> HIDE DEF at, pool
      <4> QED BY <3>1, <4>1, <4>2, <4>3, GoesOnFits
    <3>3. Kept
      BY <3>1, <3>2
    <3> HIDE DEF Kept
    <3>4. secondaryFailed' \in BOOLEAN /\ thumbCache' = thumbCache
      BY <1>1, <1>2 DEF SecondaryLogin
    <3> QED BY <1>1, <3>3, <3>4 DEF ThumbInv, Kept
  <2>2. CASE ~Current(x)
    <3> DEFINE failed == secondaryFailed \/ ~ok
    <3>1. /\ WorkEnds(x, thumbAvail, failed, thumbCache, FALSE) /\ thumbPool' = thumbPool
          /\ secondaryFailed' = failed /\ thumbCache' = thumbCache
      <4>1. secondaryFailed' = failed /\ WorkEnds(x, thumbAvail, secondaryFailed', thumbCache, FALSE)
        BY <1>2, <2>2 DEF SecondaryLogin
      <4>2. WorkEnds(x, thumbAvail, failed, thumbCache, FALSE)
        <5> HIDE DEF failed
        <5> QED BY <4>1, Zenon
      <4> QED BY <1>2, <2>2, <4>1, <4>2 DEF SecondaryLogin
    <3>2. failed \in BOOLEAN
      OBVIOUS
    <3>4. /\ thumbPool - thumbAvail = thumbPool - thumbAvail - (IF x.at = "download" /\ Current(x) THEN 1 ELSE 0)
          /\ thumbPool \in Int /\ thumbPool <= thumbPool /\ generation' = generation
      BY <1>1, <2>2
    <3>5. ~Current(x) /\ FALSE \in BOOLEAN
      BY <2>2
    <3> HIDE DEF failed
    <3>3. /\ WorkFits(generation', thumbQueue', thumbWork', processing', thumbDue')
          /\ ClientsFit(generation', thumbWork', thumbPool, thumbAvail')
      BY <1>1, <3>1, <3>2, <3>4, <3>5, WorkEndsFits
    <3> QED BY <1>1, <3>1, <3>2, <3>3 DEF ThumbInv
  <2> QED BY <2>1, <2>2
<1>3. CASE Downloaded(x, ok)
  <2>0. x.at = "download" /\ UNCHANGED <<secondaryFailed, thumbCache>>
    BY <1>3 DEF Downloaded
  <2>1. CASE ok /\ Current(x)
    <3>1. GoesOn(x, "render") /\ thumbAvail' = thumbAvail + 1 /\ thumbPool' = thumbPool /\ x.gen = generation
      BY <1>3, <2>1 DEF Downloaded, Released, Current
    <3>2. /\ WorkFits(generation', thumbQueue', thumbWork', processing', thumbDue')
          /\ ClientsFit(generation', thumbWork', thumbPool, thumbAvail + 1)
      BY <1>1, <2>0, <3>1, GoesOnFits
    <3> QED BY <1>1, <2>0, <3>1, <3>2 DEF ThumbInv
  <2>2. CASE ~(ok /\ Current(x))
    <3> DEFINE pool == IF ~ok /\ Current(x) THEN thumbPool - 1 ELSE thumbPool
               avail == IF ok THEN Released(x) ELSE thumbAvail
               said == Current(x)
    <3>1. WorkEnds(x, avail, secondaryFailed, thumbCache, said) /\ thumbPool' = pool
      BY <1>3, <2>2 DEF Downloaded
    <3>2. avail = thumbAvail /\ said \in BOOLEAN
      BY <2>2 DEF Released, Current
    <3>3. /\ pool - avail = thumbPool - thumbAvail - (IF Current(x) THEN 1 ELSE 0)
          /\ pool \in Int /\ pool <= thumbPool
      BY <1>1, <2>2, <3>2
    <3>4. (Current(x) => said) /\ avail \in Nat
      BY <1>1, <3>2
    <3> HIDE DEF pool, avail, said
    <3>5. /\ WorkFits(generation', thumbQueue', thumbWork', processing', thumbDue')
          /\ ClientsFit(generation', thumbWork', pool, thumbAvail')
      BY <1>1, <2>0, <3>1, <3>2, <3>3, <3>4, WorkEndsFits
    <3> QED BY <1>1, <2>0, <3>1, <3>5 DEF ThumbInv
  <2> QED BY <2>1, <2>2
<1>4. CASE DownloadedOnMain(x, ok)
  <2>0. x.at = "main" /\ UNCHANGED <<secondaryFailed, thumbCache, thumbPool>>
    BY <1>4 DEF DownloadedOnMain
  <2>1. CASE ok /\ Current(x)
    <3>1. GoesOn(x, "render") /\ thumbAvail' = thumbAvail /\ x.gen = generation
      BY <1>4, <2>1 DEF DownloadedOnMain, Current
    <3>2. /\ WorkFits(generation', thumbQueue', thumbWork', processing', thumbDue')
          /\ ClientsFit(generation', thumbWork', thumbPool, thumbAvail)
      BY <1>1, <2>0, <3>1, GoesOnFits
    <3> QED BY <1>1, <2>0, <3>1, <3>2 DEF ThumbInv
  <2>2. CASE ~(ok /\ Current(x))
    <3> DEFINE said == Current(x)
    <3>1. WorkEnds(x, thumbAvail, secondaryFailed, thumbCache, said)
      BY <1>4, <2>2 DEF DownloadedOnMain
    <3>2. said \in BOOLEAN /\ (Current(x) => said)
      BY DEF Current
    <3>4. /\ thumbPool - thumbAvail = thumbPool - thumbAvail - (IF x.at = "download" /\ Current(x) THEN 1 ELSE 0)
          /\ thumbPool \in Int /\ thumbPool <= thumbPool /\ generation' = generation
      BY <1>1, <2>0
    <3> HIDE DEF said
    <3>3. /\ WorkFits(generation', thumbQueue', thumbWork', processing', thumbDue')
          /\ ClientsFit(generation', thumbWork', thumbPool, thumbAvail')
      BY <1>1, <3>1, <3>2, <3>4, WorkEndsFits
    <3> QED BY <1>1, <2>0, <3>3 DEF ThumbInv
  <2> QED BY <2>1, <2>2
<1>5. CASE Rendered(x, ok)
  <2> DEFINE cache == IF ok THEN thumbCache \cup {x.key} ELSE thumbCache
             said == ok \/ Current(x)
  <2>0. x.at = "render" /\ UNCHANGED <<secondaryFailed, thumbPool>> /\ thumbCache' = cache
    BY <1>5 DEF Rendered
  <2>1. WorkEnds(x, thumbAvail, secondaryFailed, cache, said)
    <3>1. WorkEnds(x, thumbAvail, secondaryFailed, thumbCache', said)
      BY <1>5 DEF Rendered
    <3> HIDE DEF cache, said
    <3> QED BY <2>0, <3>1, Zenon
  <2>2. said \in BOOLEAN /\ (Current(x) => said) /\ cache \subseteq ThumbKeys
    BY <1>1 DEF Current, WorkItem
  <2>4. /\ thumbPool - thumbAvail = thumbPool - thumbAvail - (IF x.at = "download" /\ Current(x) THEN 1 ELSE 0)
        /\ thumbPool \in Int /\ thumbPool <= thumbPool /\ generation' = generation
    BY <1>1, <2>0
  <2> HIDE DEF said, cache
  <2>3. /\ WorkFits(generation', thumbQueue', thumbWork', processing', thumbDue')
        /\ ClientsFit(generation', thumbWork', thumbPool, thumbAvail')
    BY <1>1, <2>1, <2>2, <2>4, WorkEndsFits
  <2> QED BY <1>1, <2>0, <2>2, <2>3 DEF ThumbInv
<1> QED BY <1>2, <1>3, <1>4, <1>5

(* A viewer asks for what it shows, instead of what it showed.              *)
LEMMA RequestBatchStep ==
  ASSUME ThumbInv, NEW v \in ThumbViewers, NEW keys \in SUBSET ThumbKeys, RequestBatch(v, keys)
  PROVE  ThumbInv'
<1> DEFINE b == [batches EXCEPT ![v] = keys]
           left == DropUnwanted(batches[v], b)
           new == keys \ (processing \cup left)
           q == left \cup (new \ thumbCache)
           due == ((thumbDue \cup keys) \cap Wanted(b)) \ (new \cap thumbCache)
<1>1. /\ batches' = b /\ UNCHANGED <<thumbPool, secondaryFailed, generation, thumbCache>>
      /\ ProcessNext(q, thumbWork, processing, thumbAvail, secondaryFailed, thumbCache, due)
  <2>1. batches' = b /\ UNCHANGED <<thumbPool, secondaryFailed, generation, thumbCache>>
    BY DEF RequestBatch
  <2>2. ProcessNext(DropUnwanted(batches[v], batches') \cup ((keys \ (processing \cup DropUnwanted(batches[v], batches'))) \ thumbCache),
                    thumbWork, processing, thumbAvail, secondaryFailed, thumbCache,
                    ((thumbDue \cup keys) \cap Wanted(batches')) \ ((keys \ (processing \cup DropUnwanted(batches[v], batches'))) \cap thumbCache))
    BY DEF RequestBatch
  <2> HIDE DEF b
  <2> QED BY <2>1, <2>2, Zenon
<1>2. b \in [ThumbViewers -> SUBSET ThumbKeys] /\ Wanted(b) \subseteq ThumbKeys
  BY DEF ThumbInv, Wanted
<1> HIDE DEF b
<1>3. /\ WorkFits(generation, thumbQueue, thumbWork, processing, thumbDue)
      /\ ClientsFit(generation, thumbWork, thumbPool, thumbAvail) /\ generation \in Nat
      /\ secondaryFailed \in BOOLEAN /\ thumbCache \subseteq ThumbKeys
  BY DEF ThumbInv
<1>4. left \subseteq thumbQueue /\ thumbQueue \cap Wanted(b) \subseteq left
  BY DEF DropUnwanted
<1> HIDE DEF left
<1>5. WorkFits(generation, q, thumbWork, processing, due)
  BY <1>3, <1>4 DEF WorkFits
<1> HIDE DEF q, due
<1>6. /\ WorkFits(generation, thumbQueue', thumbWork', processing', thumbDue')
      /\ ClientsFit(generation, thumbWork', thumbPool, thumbAvail')
  BY <1>1, <1>3, <1>5, ProcessNextFits
<1> QED BY <1>1, <1>2, <1>3, <1>6 DEF ThumbInv

LEMMA RequestStep ==
  ASSUME ThumbInv, NEW k \in ThumbKeys, Request(k)
  PROVE  ThumbInv'
<1> DEFINE q == thumbQueue \cup {k}
<1>1. /\ UNCHANGED <<batches, thumbPool, secondaryFailed, generation, thumbCache>> /\ k \notin processing
      /\ ProcessNext(q, thumbWork, processing, thumbAvail, secondaryFailed, thumbCache, thumbDue)
  BY DEF Request
<1>2. /\ ClientsFit(generation, thumbWork, thumbPool, thumbAvail) /\ generation \in Nat
      /\ secondaryFailed \in BOOLEAN /\ thumbCache \subseteq ThumbKeys
      /\ batches \in [ThumbViewers -> SUBSET ThumbKeys]
  BY DEF ThumbInv
<1>3. WorkFits(generation, q, thumbWork, processing, thumbDue)
  BY <1>1 DEF ThumbInv, WorkFits
<1> HIDE DEF q
<1>4. /\ WorkFits(generation, thumbQueue', thumbWork', processing', thumbDue')
      /\ ClientsFit(generation, thumbWork', thumbPool, thumbAvail')
  BY <1>1, <1>2, <1>3, ProcessNextFits
<1> QED BY <1>1, <1>2, <1>4 DEF ThumbInv

(* A new generation: the queue is empty and the clients are gone.           *)
LEMMA EndGenerationStep == ThumbInv /\ EndGeneration => ThumbInv'
<1> SUFFICES ASSUME ThumbInv, EndGeneration PROVE ThumbInv'
  OBVIOUS
<1> DEFINE g == generation
<1>1. /\ batches' = [v \in ThumbViewers |-> {}] /\ thumbQueue' = {} /\ processing' = {} /\ thumbDue' = {}
      /\ generation' = g + 1 /\ thumbPool' = 0 /\ thumbAvail' = 0 /\ secondaryFailed' = FALSE
      /\ UNCHANGED <<thumbWork, thumbCache>>
  BY DEF EndGeneration
<1>2. /\ WorkFits(g, thumbQueue, thumbWork, processing, thumbDue) /\ g \in Nat
      /\ IsFiniteSet(thumbWork) /\ Cardinality(thumbWork) <= ThumbSlots /\ thumbCache \subseteq ThumbKeys
  BY DEF ThumbInv, ClientsFit
<1>3. thumbWork \subseteq WorkItem(g + 1) /\ \A x \in thumbWork : x.gen # g + 1
  BY <1>2 DEF WorkFits, WorkItem
<1>4. WithClient(thumbWork, g + 1) = {}
  BY <1>3 DEF WithClient
<1>5. ClientsFit(g + 1, thumbWork, 0, 0)
  <2>1. Cardinality(WithClient(thumbWork, g + 1)) = 0
    BY <1>4, FS_EmptySet
  <2>2. /\ Cardinality(LoggingIn(thumbWork)) <= Cardinality(thumbWork) /\ Cardinality(thumbWork) \in Nat
        /\ Cardinality(LoggingIn(thumbWork)) \in Nat
    BY <1>2, PartsFinite
  <2>3. 0 + Cardinality(LoggingIn(thumbWork)) <= ThumbSlots
    BY <1>2, <2>2, SlotsNat
  <2> QED BY <1>2, <2>1, <2>3 DEF ClientsFit
<1>6. WorkFits(g + 1, {}, thumbWork, {}, {})
  BY <1>2, <1>3 DEF WorkFits
<1>7. g + 1 \in Nat
  BY <1>2
<1> HIDE DEF g
<1> QED BY <1>1, <1>2, <1>5, <1>6, <1>7 DEF ThumbInv

LEMMA LeaveViewerStep ==
  ASSUME ThumbInv, NEW v \in ThumbViewers, LeaveViewer(v)
  PROVE  ThumbInv'
<1> DEFINE b == [batches EXCEPT ![v] = {}]
           left == DropUnwanted(batches[v], b)
<1>1. /\ batches' = b /\ thumbQueue' = left /\ thumbDue' = thumbDue \cap Wanted(b)
      /\ UNCHANGED <<thumbWork, processing, thumbPool, thumbAvail, secondaryFailed, generation, thumbCache>>
  <2>1. batches' = b /\ thumbQueue' = DropUnwanted(batches[v], batches') /\ thumbDue' = thumbDue \cap Wanted(batches')
    BY DEF LeaveViewer
  <2>2. UNCHANGED <<thumbWork, processing, thumbPool, thumbAvail, secondaryFailed, generation, thumbCache>>
    BY DEF LeaveViewer
  <2> HIDE DEF b
  <2> QED BY <2>1, <2>2
<1>2. b \in [ThumbViewers -> SUBSET ThumbKeys]
  BY DEF ThumbInv
<1> HIDE DEF b
<1>3. left \subseteq thumbQueue /\ thumbQueue \cap Wanted(b) \subseteq left
  BY DEF DropUnwanted
<1> HIDE DEF left
<1>4. WorkFits(generation, left, thumbWork, processing, thumbDue \cap Wanted(b))
  BY <1>3 DEF ThumbInv, WorkFits
<1> QED BY <1>1, <1>2, <1>4 DEF ThumbInv

LEMMA ThumbStart == ThumbInit => ThumbInv
<1> SUFFICES ASSUME ThumbInit PROVE ThumbInv
  OBVIOUS
<1>1. WithClient({}, 0) = {} /\ LoggingIn({}) = {} /\ IsFiniteSet({}) /\ Cardinality({}) = 0
  BY FS_EmptySet DEF WithClient, LoggingIn
<1>2. ClientsFit(0, {}, 0, 0)
  BY <1>1, SlotsNat DEF ClientsFit
<1>3. WorkFits(0, {}, {}, {}, {})
  BY DEF WorkFits
<1> QED BY <1>2, <1>3 DEF ThumbInit, ThumbInv

LEMMA ThumbStepKeeps == ThumbInv /\ [ThumbNext]_thumbVars => ThumbInv'
<1> SUFFICES ASSUME ThumbInv, [ThumbNext]_thumbVars PROVE ThumbInv'
  OBVIOUS
<1>1. CASE UNCHANGED thumbVars
  BY <1>1 DEF thumbVars, ThumbInv
<1> QED BY <1>1, WorkStep, RequestBatchStep, RequestStep, EndGenerationStep, LeaveViewerStep
        DEF ThumbNext, ThumbProgress, CancelAll

(* The invariant gives the property.                                        *)
LEMMA ThumbInvGives == ThumbInv => ThumbSafe
<1> SUFFICES ASSUME ThumbInv PROVE ThumbSafe
  OBVIOUS
<1>1. /\ WorkFits(generation, thumbQueue, thumbWork, processing, thumbDue)
      /\ ClientsFit(generation, thumbWork, thumbPool, thumbAvail)
  BY DEF ThumbInv
<1>2. /\ Cardinality(WithClient(thumbWork, generation)) \in Nat /\ Cardinality(LoggingIn(thumbWork)) \in Nat
  BY <1>1, PartsFinite DEF ClientsFit
<1>3. WithClient(thumbWork, generation) = {x \in thumbWork : x.at = "download" /\ Current(x)}
  BY DEF WithClient, Current
<1>4. ThumbTypeOK
  <2>1. thumbPool \in 0..ThumbSlots /\ thumbAvail \in 0..thumbPool
    BY <1>1, <1>2, SlotsNat DEF ClientsFit
  <2>2. UNION {thumbQueue, processing, thumbCache, thumbDue} \subseteq ThumbKeys
    BY <1>1 DEF WorkFits, ThumbInv
  <2>3. \A x \in thumbWork : x.key \in ThumbKeys /\ x.gen \in 0..generation
                               /\ x.at \in {"login", "download", "main", "render"}
    BY <1>1 DEF WorkFits, WorkItem
  <2> QED BY <2>1, <2>2, <2>3 DEF ThumbInv, ThumbTypeOK
<1>5. OnceAGeneration /\ WantedServed
  BY <1>1 DEF OnceAGeneration, WantedServed, WorkFits, Current
<1>6. ThumbClients
  BY <1>1, <1>3 DEF ThumbClients, ClientsFit, LoggingIn
<1> QED BY <1>4, <1>5, <1>6 DEF ThumbSafe

(* The late ends of cancelled downloads neither open more clients than      *)
(* there are slots nor take the marks of the generation that runs, and no   *)
(* wanted thumbnail is forgotten (ThumbnailQueue.ts, cancelAll()).          *)
THEOREM ThumbIsSafe == ThumbSpec => []ThumbSafe
BY ThumbStart, ThumbStepKeeps, ThumbInvGives, PTL DEF ThumbSpec

-----------------------------------------------------------------------------
(* Previews of folders.                                                     *)

(* Where an item is; those that use a client, and those that wait for one.  *)
ItemPlaces == {"none", "queued", "login", "list", "listed"}
Active(at) == {f \in Folders : at[f] \in {"list", "listed"}}
AtLogin(at) == {f \in Folders : at[f] = "login"}

(* The clients of the items at the places at, of which those of closed are  *)
(* closed; pool clients, of which idle are idle.                           *)
SlotsFit(at, closed, pool, idle) ==
  /\ closed \subseteq Active(at) /\ idle \in Nat
  /\ pool = idle + Cardinality(Active(at) \ closed)
  /\ pool + Cardinality(AtLogin(at)) <= GallerySlots
  /\ Cardinality(Busy(at)) <= GallerySlots

(* The queue q of the items at the places at, their owners and who waits.   *)
ItemsFit(q, at, own, ask) ==
  /\ q \in Seq(Folders) /\ Once(q)
  /\ at \in [Folders -> ItemPlaces]
  /\ own \in [Folders -> SUBSET GalleryViewers] /\ ask \in [Folders -> SUBSET GalleryViewers]
  /\ \A f \in Folders : /\ ask[f] \subseteq own[f] /\ (own[f] # {} => at[f] # "none")
                        /\ at[f] = "queued" <=> f \in InSeq(q)
                        /\ f \in InSeq(q) => own[f] # {}

(* The parts that a step changes together.                                  *)
GalleryFits ==
  /\ ItemsFit(galleryQueue, itemAt, owners, asked)
  /\ SlotsFit(itemAt, clientClosed, galleryPool, galleryAvail)
  /\ GalleryNoStall

(* The inductive invariant.                                                 *)
GalleryInv == GalleryFits /\ secondaryUnavailable \in BOOLEAN

(* Sets of folders are finite, and counted.                                 *)
LEMMA GalleryFinite ==
  ASSUME NEW S \in SUBSET Folders
  PROVE  IsFiniteSet(S) /\ Cardinality(S) \in Nat
BY GalleryAssumption, FS_Subset, FS_CardinalityType DEF GalleryAssumption

LEMMA SlotsNumber == GallerySlots \in Nat \ {0}
BY GalleryAssumption DEF GalleryAssumption

(* One more, and one less.                                                  *)
LEMMA OneIn ==
  ASSUME NEW S \in SUBSET Folders, NEW f \in Folders
  PROVE  Cardinality(S \cup {f}) = IF f \in S THEN Cardinality(S) ELSE Cardinality(S) + 1
BY GalleryFinite, FS_AddElement

LEMMA OneOut ==
  ASSUME NEW S \in SUBSET Folders, NEW f \in Folders
  PROVE  Cardinality(S \ {f}) = IF f \in S THEN Cardinality(S) - 1 ELSE Cardinality(S)
BY GalleryFinite, FS_RemoveElement

(* One item goes to another place.                                         *)
LEMMA MoveFacts ==
  ASSUME NEW at \in [Folders -> ItemPlaces], NEW f \in Folders, NEW p \in ItemPlaces
  PROVE  LET n == [at EXCEPT ![f] = p] IN
         /\ n \in [Folders -> ItemPlaces]
         /\ n[f] = p /\ \A g \in Folders \ {f} : n[g] = at[g]
         /\ Active(n) = IF p \in {"list", "listed"} THEN Active(at) \cup {f} ELSE Active(at) \ {f}
         /\ AtLogin(n) = IF p = "login" THEN AtLogin(at) \cup {f} ELSE AtLogin(at) \ {f}
         /\ Busy(n) = IF p \in {"login", "list", "listed"} THEN Busy(at) \cup {f} ELSE Busy(at) \ {f}
<1> DEFINE n == [at EXCEPT ![f] = p]
<1>1. n \in [Folders -> ItemPlaces] /\ n[f] = p /\ \A g \in Folders \ {f} : n[g] = at[g]
  OBVIOUS
<1> HIDE DEF n
<1>2. Active(n) = IF p \in {"list", "listed"} THEN Active(at) \cup {f} ELSE Active(at) \ {f}
  BY <1>1 DEF Active
<1>3. AtLogin(n) = IF p = "login" THEN AtLogin(at) \cup {f} ELSE AtLogin(at) \ {f}
  BY <1>1 DEF AtLogin
<1>4. Busy(n) = IF p \in {"login", "list", "listed"} THEN Busy(at) \cup {f} ELSE Busy(at) \ {f}
  BY <1>1 DEF Busy
<1> QED BY <1>1, <1>2, <1>3, <1>4 DEF n

(* Who is busy logs in or has a client.                                    *)
LEMMA BusyCount ==
  ASSUME NEW at
  PROVE  /\ Busy(at) = Active(at) \cup AtLogin(at)
         /\ Cardinality(Busy(at)) = Cardinality(Active(at)) + Cardinality(AtLogin(at))
         /\ Active(at) \in SUBSET Folders /\ AtLogin(at) \in SUBSET Folders /\ Busy(at) \in SUBSET Folders
<1>1. /\ Busy(at) = Active(at) \cup AtLogin(at) /\ Active(at) \cap AtLogin(at) = {}
      /\ Active(at) \in SUBSET Folders /\ AtLogin(at) \in SUBSET Folders /\ Busy(at) \in SUBSET Folders
  BY DEF Busy, Active, AtLogin
<1>2. Cardinality(Active(at) \cup AtLogin(at)) =
        Cardinality(Active(at)) + Cardinality(AtLogin(at)) - Cardinality(Active(at) \cap AtLogin(at))
  BY <1>1, GalleryFinite, FS_Union
<1>3. Cardinality(Active(at) \cap AtLogin(at)) = 0
  BY <1>1, FS_EmptySet
<1>4. Cardinality(Active(at)) \in Nat /\ Cardinality(AtLogin(at)) \in Nat
  BY <1>1, GalleryFinite
<1> QED BY <1>1, <1>2, <1>3, <1>4

(* An item begins: on an idle client, or with the login of another.         *)
LEMMA StartFits ==
  ASSUME NEW at \in [Folders -> ItemPlaces], NEW closed, NEW pool, NEW idle,
         SlotsFit(at, closed, pool, idle), NEW f \in Folders, f \notin Busy(at), Cardinality(Busy(at)) < GallerySlots
  PROVE  SlotsFit([at EXCEPT ![f] = IF idle > 0 THEN "list" ELSE "login"], closed, pool,
                  IF idle > 0 THEN idle - 1 ELSE idle)
<1> DEFINE p == IF idle > 0 THEN "list" ELSE "login"
           n == [at EXCEPT ![f] = p]
<1>1. p \in ItemPlaces /\ (p = "list" <=> idle > 0) /\ (p = "login" <=> ~(idle > 0))
  BY DEF ItemPlaces
<1> HIDE DEF p
<1>2. /\ Active(n) = IF idle > 0 THEN Active(at) \cup {f} ELSE Active(at) \ {f}
      /\ AtLogin(n) = IF idle > 0 THEN AtLogin(at) \ {f} ELSE AtLogin(at) \cup {f}
      /\ Busy(n) = Busy(at) \cup {f}
  BY <1>1, MoveFacts
<1> HIDE DEF n
<1>3. f \notin Active(at) /\ f \notin AtLogin(at) /\ f \notin closed
  BY BusyCount DEF SlotsFit
<1>4. /\ closed \subseteq Active(n)
      /\ Active(n) \ closed = IF idle > 0 THEN (Active(at) \ closed) \cup {f} ELSE Active(at) \ closed
      /\ AtLogin(n) = IF idle > 0 THEN AtLogin(at) ELSE AtLogin(at) \cup {f}
  BY <1>2, <1>3 DEF SlotsFit
<1>5. /\ Active(at) \ closed \in SUBSET Folders /\ AtLogin(at) \in SUBSET Folders /\ Busy(at) \in SUBSET Folders
      /\ Cardinality(Active(at) \ closed) \in Nat /\ Cardinality(AtLogin(at)) \in Nat
      /\ Cardinality(Busy(at)) \in Nat /\ Cardinality(Active(at)) \in Nat
      /\ Cardinality(Active(at) \ closed) <= Cardinality(Active(at))
  <2>1. Active(at) \ closed \in SUBSET Folders /\ AtLogin(at) \in SUBSET Folders /\ Active(at) \in SUBSET Folders
        /\ Busy(at) \in SUBSET Folders
    BY BusyCount
  <2>2. Cardinality(Active(at) \ closed) <= Cardinality(Active(at))
    BY <2>1, GalleryFinite, FS_Subset
  <2> QED BY <2>1, <2>2, GalleryFinite
<1>6. /\ Cardinality((Active(at) \ closed) \cup {f}) = Cardinality(Active(at) \ closed) + 1
      /\ Cardinality(AtLogin(at) \cup {f}) = Cardinality(AtLogin(at)) + 1
      /\ Cardinality(Busy(at) \cup {f}) = Cardinality(Busy(at)) + 1
  BY <1>3, <1>5, OneIn
<1>7. Cardinality(Busy(at)) = Cardinality(Active(at)) + Cardinality(AtLogin(at))
  BY BusyCount
<1>8. CASE idle > 0
  <2>1. /\ Cardinality(Active(n) \ closed) = Cardinality(Active(at) \ closed) + 1
        /\ Cardinality(AtLogin(n)) = Cardinality(AtLogin(at)) /\ Cardinality(Busy(n)) = Cardinality(Busy(at)) + 1
    BY <1>2, <1>4, <1>6, <1>8
  <2>2. SlotsFit(n, closed, pool, idle - 1)
    BY <1>4, <1>5, <1>8, <2>1, SlotsNumber DEF SlotsFit
  <2> QED BY <1>8, <2>2 DEF n, p
<1>9. CASE ~(idle > 0)
  <2>1. /\ Cardinality(Active(n) \ closed) = Cardinality(Active(at) \ closed)
        /\ Cardinality(AtLogin(n)) = Cardinality(AtLogin(at)) + 1 /\ Cardinality(Busy(n)) = Cardinality(Busy(at)) + 1
    BY <1>2, <1>4, <1>6, <1>9
  <2>2. SlotsFit(n, closed, pool, idle)
    BY <1>4, <1>5, <1>7, <1>9, <2>1, SlotsNumber DEF SlotsFit
  <2> QED BY <1>9, <2>2 DEF n, p
<1> QED BY <1>8, <1>9

(* An item ends, and its client is given back, closed or was never had.     *)
LEMMA StopFits ==
  ASSUME NEW at \in [Folders -> ItemPlaces], NEW closed, NEW pool, NEW idle,
         SlotsFit(at, closed, pool, idle), NEW f \in Folders, f \in Busy(at)
  PROVE  LET n == [at EXCEPT ![f] = "none"] IN
         /\ Cardinality(Busy(n)) = Cardinality(Busy(at)) - 1
         /\ at[f] = "login" => SlotsFit(n, closed, pool, idle)
         /\ at[f] # "login" =>
              /\ SlotsFit(n, closed \ {f}, pool, IF f \in closed THEN idle ELSE idle + 1)
              /\ SlotsFit(n, closed \ {f}, IF f \in closed THEN pool ELSE pool - 1, idle)
<1> DEFINE n == [at EXCEPT ![f] = "none"]
<1>1. "none" \in ItemPlaces
  BY DEF ItemPlaces
<1>2. Active(n) = Active(at) \ {f} /\ AtLogin(n) = AtLogin(at) \ {f} /\ Busy(n) = Busy(at) \ {f}
  <2>1. /\ Active(n) = IF "none" \in {"list", "listed"} THEN Active(at) \cup {f} ELSE Active(at) \ {f}
        /\ AtLogin(n) = IF "none" = "login" THEN AtLogin(at) \cup {f} ELSE AtLogin(at) \ {f}
        /\ Busy(n) = IF "none" \in {"login", "list", "listed"} THEN Busy(at) \cup {f} ELSE Busy(at) \ {f}
    BY <1>1, MoveFacts, ZenonT(60)
  <2> HIDE DEF n
  <2> QED BY <2>1
<1>3. (at[f] = "login" <=> f \in AtLogin(at)) /\ (at[f] # "login" <=> f \in Active(at))
      /\ (f \in AtLogin(at) => f \notin Active(at))
  BY DEF AtLogin, Active, Busy
<1> HIDE DEF n
<1>4. /\ Active(at) \ closed \in SUBSET Folders /\ AtLogin(at) \in SUBSET Folders /\ Busy(at) \in SUBSET Folders
      /\ Cardinality(Active(at) \ closed) \in Nat /\ Cardinality(AtLogin(at)) \in Nat
      /\ Cardinality(Busy(at)) \in Nat
  <2>1. Active(at) \ closed \in SUBSET Folders /\ AtLogin(at) \in SUBSET Folders /\ Busy(at) \in SUBSET Folders
    BY BusyCount
  <2> QED BY <2>1, GalleryFinite
<1>5. Cardinality(Busy(n)) = Cardinality(Busy(at)) - 1
  BY <1>2, <1>4, OneOut
<1>6. CASE at[f] = "login"
  <2>1. Active(n) = Active(at) /\ Cardinality(AtLogin(n)) = Cardinality(AtLogin(at)) - 1
    BY <1>2, <1>3, <1>4, <1>6, OneOut
  <2>2. SlotsFit(n, closed, pool, idle)
    BY <1>4, <1>5, <2>1, SlotsNumber DEF SlotsFit
  <2> QED BY <1>5, <1>6, <2>2 DEF n
<1>7. CASE at[f] # "login"
  <2>1. AtLogin(n) = AtLogin(at) /\ closed \ {f} \subseteq Active(n)
    BY <1>2, <1>3, <1>7 DEF SlotsFit
  <2>2. CASE f \in closed
    <3>1. Active(n) \ (closed \ {f}) = Active(at) \ closed
      BY <1>2, <2>2
    <3>2. Cardinality(Active(n) \ (closed \ {f})) = Cardinality(Active(at) \ closed)
      BY <3>1
    <3>3. SlotsFit(n, closed \ {f}, pool, idle)
      BY <1>4, <1>5, <2>1, <3>2, SlotsNumber DEF SlotsFit
    <3> QED BY <1>5, <1>7, <2>2, <3>3 DEF n
  <2>3. CASE f \notin closed
    <3>1. Active(n) \ (closed \ {f}) = (Active(at) \ closed) \ {f} /\ f \in Active(at) \ closed
      BY <1>2, <1>3, <1>7, <2>3
    <3>2. Cardinality(Active(n) \ (closed \ {f})) = Cardinality(Active(at) \ closed) - 1
      BY <1>4, <3>1, OneOut
    <3>3. SlotsFit(n, closed \ {f}, pool, idle + 1)
      BY <1>4, <1>5, <2>1, <3>2, SlotsNumber DEF SlotsFit
    <3>4. SlotsFit(n, closed \ {f}, pool - 1, idle)
      BY <1>4, <1>5, <2>1, <3>2, SlotsNumber DEF SlotsFit
    <3> QED BY <1>5, <1>7, <2>3, <3>3, <3>4 DEF n
  <2> QED BY <2>2, <2>3
<1> QED BY <1>6, <1>7

(* An item that is not queued leaves with its owners, or another goes on.   *)
LEMMA ItemEnds ==
  ASSUME GalleryFits, NEW f \in Folders, itemAt[f] # "queued"
  PROVE  ItemsFit(galleryQueue, Gone(f), Left(f), [g \in Folders |-> asked[g] \cap Left(f)[g]])
<1> DEFINE told == [g \in Folders |-> asked[g] \cap Left(f)[g]]
<1>1. /\ Gone(f) \in [Folders -> ItemPlaces] /\ Gone(f)[f] = "none"
      /\ \A g \in Folders \ {f} : Gone(f)[g] = itemAt[g]
  BY MoveFacts DEF GalleryFits, ItemsFit, ItemPlaces, Gone
<1>2. /\ Left(f) \in [Folders -> SUBSET GalleryViewers] /\ Left(f)[f] = {}
      /\ \A g \in Folders \ {f} : Left(f)[g] = owners[g]
  BY DEF GalleryFits, ItemsFit, Left
<1>3. told \in [Folders -> SUBSET GalleryViewers] /\ \A g \in Folders : told[g] \subseteq Left(f)[g]
  BY <1>2 DEF GalleryFits, ItemsFit
<1> HIDE DEF told
<1>4. \A g \in Folders : /\ told[g] \subseteq Left(f)[g] /\ (Left(f)[g] # {} => Gone(f)[g] # "none")
                         /\ Gone(f)[g] = "queued" <=> g \in InSeq(galleryQueue)
                         /\ g \in InSeq(galleryQueue) => Left(f)[g] # {}
  BY <1>1, <1>2, <1>3 DEF GalleryFits, ItemsFit
<1>5. galleryQueue \in Seq(Folders) /\ Once(galleryQueue)
  BY DEF GalleryFits, ItemsFit
<1>6. ItemsFit(galleryQueue, Gone(f), Left(f), told)
  BY <1>1, <1>2, <1>3, <1>4, <1>5, Zenon DEF ItemsFit
<1> QED BY <1>6 DEF told

(* The first item of the queue begins.                                     *)
LEMMA HeadStarts ==
  ASSUME NEW q, NEW at, NEW own, NEW ask, ItemsFit(q, at, own, ask), q # <<>>, NEW p \in {"list", "login"}
  PROVE  /\ Head(q) \in Folders /\ at[Head(q)] = "queued"
         /\ ItemsFit(Tail(q), [at EXCEPT ![Head(q)] = p], own, ask)
<1> DEFINE f == Head(q)
           n == [at EXCEPT ![f] = p]
<1>1. /\ f \in InSeq(q) /\ f \in Folders /\ Tail(q) \in Seq(Folders) /\ Once(Tail(q))
      /\ InSeq(Tail(q)) = InSeq(q) \ {f}
  BY TailFacts, InSeqFacts DEF ItemsFit
<1> HIDE DEF f
<1>2. n \in [Folders -> ItemPlaces] /\ n[f] = p /\ \A g \in Folders \ {f} : n[g] = at[g]
  BY <1>1, MoveFacts DEF ItemsFit, ItemPlaces
<1> HIDE DEF n
<1>3. \A g \in Folders : /\ ask[g] \subseteq own[g] /\ (own[g] # {} => n[g] # "none")
                         /\ n[g] = "queued" <=> g \in InSeq(Tail(q))
                         /\ g \in InSeq(Tail(q)) => own[g] # {}
  BY <1>1, <1>2 DEF ItemsFit
<1>4. ItemsFit(Tail(q), n, own, ask)
  BY <1>1, <1>2, <1>3, Zenon DEF ItemsFit
<1> QED BY <1>1, <1>4 DEF ItemsFit, n, f

(* processNext() keeps everything, with one slot free for a queued item.    *)
LEMMA TakeFits ==
  ASSUME NEW q, NEW at, NEW idle, NEW down \in BOOLEAN, NEW left,
         ItemsFit(q, at, left, [g \in Folders |-> asked[g] \cap left[g]]),
         SlotsFit(at, clientClosed', galleryPool', idle),
         q # <<>> => Cardinality(Busy(at)) >= GallerySlots - 1,
         Take(q, at, idle, down, left)
  PROVE  GalleryFits'
<1> DEFINE told == [g \in Folders |-> asked[g] \cap left[g]]
<1>0. Cardinality(Busy(at)) \in Nat /\ GallerySlots \in Nat \ {0} /\ Cardinality(Busy(at)) <= GallerySlots
  BY BusyCount, GalleryFinite, SlotsNumber DEF SlotsFit
<1>1. CASE down
  <2>1. q \in Seq(Folders) /\ at \in [Folders -> ItemPlaces] /\ left \in [Folders -> SUBSET GalleryViewers]
        /\ \A f \in Folders : (Contains(q, f) <=> f \in InSeq(q)) /\ told[f] \subseteq left[f]
    BY DEF ItemsFit, Contains, InSeq
  <2>2. /\ galleryQueue' = <<>> /\ galleryAvail' = idle
        /\ itemAt' = [f \in Folders |-> IF Contains(q, f) THEN "none" ELSE at[f]]
        /\ owners' = [f \in Folders |-> IF Contains(q, f) THEN {} ELSE left[f]]
        /\ asked' = [f \in Folders |-> IF Contains(q, f) THEN {} ELSE told[f]]
    BY <1>1 DEF Take
  <2> HIDE DEF told
  <2>3. \A f \in Folders : /\ at[f] = "queued" <=> f \in InSeq(q)
                           /\ left[f] # {} => at[f] # "none"
    BY DEF ItemsFit
  <2>4. /\ itemAt' \in [Folders -> ItemPlaces]
        /\ \A f \in Folders : itemAt'[f] = IF f \in InSeq(q) THEN "none" ELSE at[f]
    BY <2>1, <2>2 DEF ItemPlaces
  <2>5. /\ owners' \in [Folders -> SUBSET GalleryViewers] /\ asked' \in [Folders -> SUBSET GalleryViewers]
        /\ \A f \in Folders : owners'[f] = (IF f \in InSeq(q) THEN {} ELSE left[f]) /\ asked'[f] \subseteq owners'[f]
    BY <2>1, <2>2
  <2>6. galleryQueue' \in Seq(Folders) /\ Once(galleryQueue') /\ InSeq(galleryQueue') = {}
    BY <2>2 DEF Once, InSeq
  <2>7. ItemsFit(galleryQueue', itemAt', owners', asked')
    BY <2>3, <2>4, <2>5, <2>6 DEF ItemsFit
  <2>8. Active(itemAt') = Active(at) /\ AtLogin(itemAt') = AtLogin(at) /\ Busy(itemAt') = Busy(at)
    BY <2>3, <2>4 DEF Active, AtLogin, Busy
  <2>9. SlotsFit(itemAt', clientClosed', galleryPool', galleryAvail')
    BY <2>2, <2>8 DEF SlotsFit
  <2> QED BY <2>2, <2>7, <2>9 DEF GalleryFits, GalleryNoStall
<1>2. CASE ~down /\ (q = <<>> \/ Cardinality(Busy(at)) >= GallerySlots)
  <2>1. /\ galleryQueue' = q /\ itemAt' = at /\ galleryAvail' = idle /\ owners' = left /\ asked' = told
    BY <1>2 DEF Take
  <2> HIDE DEF told
  <2>2. ItemsFit(galleryQueue', itemAt', owners', asked')
    BY <2>1 DEF told
  <2>3. SlotsFit(itemAt', clientClosed', galleryPool', galleryAvail') /\ GalleryNoStall'
    BY <1>0, <1>2, <2>1 DEF GalleryNoStall, SlotsFit
  <2> QED BY <2>2, <2>3 DEF GalleryFits
<1>3. CASE ~down /\ q # <<>> /\ ~(Cardinality(Busy(at)) >= GallerySlots)
  <2> DEFINE p == IF idle > 0 THEN "list" ELSE "login"
             n == [at EXCEPT ![Head(q)] = p]
  <2>1. /\ galleryQueue' = Tail(q) /\ itemAt' = n /\ owners' = left /\ asked' = told
        /\ galleryAvail' = IF idle > 0 THEN idle - 1 ELSE idle
    BY <1>3 DEF Take
  <2>2. Head(q) \in Folders /\ at[Head(q)] = "queued" /\ ItemsFit(Tail(q), n, left, told)
    <3>1. p \in {"list", "login"}
      OBVIOUS
    <3> HIDE DEF p, told
    <3> QED BY <1>3, <3>1, HeadStarts DEF told
  <2>3. Head(q) \notin Busy(at) /\ Cardinality(Busy(at)) < GallerySlots /\ at \in [Folders -> ItemPlaces]
    BY <1>0, <1>3, <2>2 DEF Busy, ItemsFit
  <2>4. SlotsFit(n, clientClosed', galleryPool', IF idle > 0 THEN idle - 1 ELSE idle)
    BY <2>2, <2>3, StartFits
  <2>5. Cardinality(Busy(n)) = Cardinality(Busy(at)) + 1
    <3>1. p \in {"login", "list", "listed"} /\ p \in ItemPlaces
      BY DEF ItemPlaces
    <3> HIDE DEF p
    <3>2. Busy(n) = Busy(at) \cup {Head(q)}
      BY <2>2, <2>3, <3>1, MoveFacts
    <3> QED BY <2>2, <2>3, <3>2, BusyCount, OneIn
  <2>6. Cardinality(Busy(n)) = GallerySlots
    BY <1>0, <1>3, <2>5
  <2> HIDE DEF n, told
  <2>7. GalleryNoStall'
    BY <2>1, <2>6 DEF GalleryNoStall
  <2>8. ItemsFit(galleryQueue', itemAt', owners', asked')
    BY <2>1, <2>2
  <2> QED BY <2>1, <2>4, <2>7, <2>8 DEF GalleryFits
<1> QED BY <1>0, <1>1, <1>2, <1>3

(* Each step keeps it: a request ...                                        *)
LEMMA RequestFits ==
  ASSUME GalleryFits, NEW f \in Folders, NEW v \in GalleryViewers, RequestPreview(f, v)
  PROVE  GalleryFits'
<1>0. /\ UNCHANGED <<clientClosed, galleryPool, secondaryUnavailable>>
      /\ itemAt \in [Folders -> ItemPlaces] /\ galleryQueue \in Seq(Folders) /\ Once(galleryQueue)
      /\ owners \in [Folders -> SUBSET GalleryViewers] /\ asked \in [Folders -> SUBSET GalleryViewers]
  BY DEF RequestPreview, GalleryFits, ItemsFit
<1>1. CASE Joins(f, v)
  <2>1. /\ galleryQueue' = galleryQueue /\ itemAt' = itemAt /\ galleryAvail' = galleryAvail /\ itemAt[f] # "none"
        /\ owners' = [owners EXCEPT ![f] = @ \cup {v}] /\ asked' = [asked EXCEPT ![f] = @ \cup {v}]
    BY <1>1 DEF Joins
  <2>2. ItemsFit(galleryQueue', itemAt', owners', asked')
    BY <1>0, <2>1 DEF GalleryFits, ItemsFit
  <2> QED BY <1>0, <2>1, <2>2 DEF GalleryFits, GalleryNoStall
<1>2. CASE NewItem(f, v)
  <2> DEFINE at == [itemAt EXCEPT ![f] = "queued"]
             p == IF galleryAvail > 0 THEN "list" ELSE "login"
             own == [owners EXCEPT ![f] = {v}]
             ask == [asked EXCEPT ![f] = {v}]
  <2>1. itemAt[f] = "none" /\ f \notin Busy(itemAt) /\ f \notin InSeq(galleryQueue)
    BY <1>2 DEF NewItem, Busy, GalleryFits, ItemsFit
  <2>2. /\ at \in [Folders -> ItemPlaces] /\ Busy(at) = Busy(itemAt)
        /\ \A x \in ItemPlaces : [at EXCEPT ![f] = x] = [itemAt EXCEPT ![f] = x]
    <3>1. "queued" \in ItemPlaces
      BY DEF ItemPlaces
    <3>2. at \in [Folders -> ItemPlaces] /\ Busy(at) = Busy(itemAt) \ {f}
      BY ZenonT(60), <1>0, <3>1, MoveFacts
    <3> QED BY <1>0, <2>1, <3>2
  <2>3. /\ own \in [Folders -> SUBSET GalleryViewers] /\ ask \in [Folders -> SUBSET GalleryViewers]
        /\ own[f] = {v} /\ ask[f] = {v} /\ \A g \in Folders \ {f} : own[g] = owners[g] /\ ask[g] = asked[g]
    BY <1>0
  <2>4. galleryAvail \in Nat /\ Cardinality(Busy(itemAt)) \in Nat /\ GallerySlots \in Nat
        /\ SlotsFit(itemAt, clientClosed, galleryPool, galleryAvail)
    BY BusyCount, GalleryFinite, SlotsNumber DEF GalleryFits, SlotsFit
  <2>5. \A g \in Folders : /\ asked[g] \subseteq owners[g] /\ (owners[g] # {} => itemAt[g] # "none")
                           /\ itemAt[g] = "queued" <=> g \in InSeq(galleryQueue)
                           /\ g \in InSeq(galleryQueue) => owners[g] # {}
    BY DEF GalleryFits, ItemsFit
  <2>6. CASE secondaryUnavailable /\ Cardinality(Busy(at)) < GallerySlots
    <3>1. UNCHANGED <<galleryQueue, itemAt, owners, asked, galleryAvail>>
      BY <1>2, <2>6 DEF NewItem
    <3> QED BY <1>0, <3>1 DEF GalleryFits, GalleryNoStall
  <2>7. CASE ~secondaryUnavailable /\ Cardinality(Busy(at)) < GallerySlots
    <3> DEFINE n == [itemAt EXCEPT ![f] = p]
    <3>1. /\ owners' = own /\ asked' = ask /\ galleryQueue' = galleryQueue /\ itemAt' = [at EXCEPT ![f] = p]
          /\ galleryAvail' = IF galleryAvail > 0 THEN galleryAvail - 1 ELSE 0
      BY <1>2, <2>7 DEF NewItem
    <3>2. itemAt' = n /\ galleryAvail' = IF galleryAvail > 0 THEN galleryAvail - 1 ELSE galleryAvail
      BY <2>2, <2>4, <3>1 DEF ItemPlaces
    <3>3. SlotsFit(n, clientClosed, galleryPool, IF galleryAvail > 0 THEN galleryAvail - 1 ELSE galleryAvail)
      BY <1>0, <2>1, <2>2, <2>4, <2>7, StartFits
    <3>4. galleryQueue = <<>>
      BY <2>2, <2>4, <2>7 DEF GalleryFits, GalleryNoStall
    <3>5. n \in [Folders -> ItemPlaces] /\ n[f] \in {"list", "login"} /\ \A g \in Folders \ {f} : n[g] = itemAt[g]
      BY <1>0 DEF ItemPlaces
    <3> HIDE DEF n, own, ask, at, p
    <3>6. \A g \in Folders : /\ ask[g] \subseteq own[g] /\ (own[g] # {} => n[g] # "none")
                             /\ n[g] = "queued" <=> g \in InSeq(galleryQueue)
                             /\ g \in InSeq(galleryQueue) => own[g] # {}
      BY <2>1, <2>3, <2>5, <3>5
    <3>7. ItemsFit(galleryQueue, n, own, ask)
      BY <1>0, <2>3, <3>5, <3>6, Zenon DEF ItemsFit
    <3> QED BY <1>0, <3>1, <3>2, <3>3, <3>4, <3>7 DEF GalleryFits, GalleryNoStall
  <2>8. CASE ~(Cardinality(Busy(at)) < GallerySlots)
    <3> DEFINE q == Append(galleryQueue, f)
    <3>1. /\ owners' = own /\ asked' = ask /\ galleryQueue' = q /\ itemAt' = at /\ galleryAvail' = galleryAvail
      BY <1>2, <2>8 DEF NewItem
    <3>2. q \in Seq(Folders) /\ Once(q) /\ InSeq(q) = InSeq(galleryQueue) \cup {f}
      BY <1>0, <2>1, AppendFacts
    <3>3. at[f] = "queued" /\ \A g \in Folders \ {f} : at[g] = itemAt[g]
      BY <1>0
    <3>4. Active(at) = Active(itemAt) /\ AtLogin(at) = AtLogin(itemAt)
      BY <2>1, <3>3 DEF Active, AtLogin
    <3> HIDE DEF q, own, ask, at
    <3>5. \A g \in Folders : /\ ask[g] \subseteq own[g] /\ (own[g] # {} => at[g] # "none")
                             /\ at[g] = "queued" <=> g \in InSeq(q)
                             /\ g \in InSeq(q) => own[g] # {}
      BY <2>3, <2>5, <3>2, <3>3
    <3>6. ItemsFit(q, at, own, ask)
      BY <2>2, <2>3, <3>2, <3>5, Zenon DEF ItemsFit
    <3>7. SlotsFit(at, clientClosed, galleryPool, galleryAvail)
      BY <2>2, <2>4, <3>4 DEF SlotsFit
    <3>8. Cardinality(Busy(at)) = GallerySlots
      BY <2>2, <2>4, <2>8 DEF SlotsFit
    <3> QED BY <1>0, <3>1, <3>6, <3>7, <3>8 DEF GalleryFits, GalleryNoStall
  <2> QED BY <2>6, <2>7, <2>8
<1> QED BY <1>1, <1>2 DEF RequestPreview

(* ... a viewer that leaves, the last one with the clients ...              *)
LEMMA CancelFits ==
  ASSUME GalleryFits, NEW v \in GalleryViewers, CancelViewer(v)
  PROVE  GalleryFits'
<1> DEFINE kept == {f \in Folders : owners[f] # {v}}
<1>1. /\ itemAt \in [Folders -> ItemPlaces] /\ galleryQueue \in Seq(Folders) /\ Once(galleryQueue)
      /\ owners \in [Folders -> SUBSET GalleryViewers] /\ asked \in [Folders -> SUBSET GalleryViewers]
      /\ \A f \in Folders : /\ asked[f] \subseteq owners[f] /\ (owners[f] # {} => itemAt[f] # "none")
                            /\ itemAt[f] = "queued" <=> f \in InSeq(galleryQueue)
                            /\ f \in InSeq(galleryQueue) => owners[f] # {}
  BY DEF GalleryFits, ItemsFit
<1>2. /\ owners' = [f \in Folders |-> owners[f] \ {v}] /\ asked' = [f \in Folders |-> asked[f] \ {v}]
      /\ galleryQueue' = Only(galleryQueue, kept)
      /\ itemAt' = [f \in Folders |->
                      IF itemAt[f] = "queued" /\ owners[f] = {v} THEN "none" ELSE itemAt[f]]
  BY DEF CancelViewer
<1>3. /\ galleryQueue' \in Seq(Folders) /\ Once(galleryQueue')
      /\ InSeq(galleryQueue') = {f \in InSeq(galleryQueue) : owners[f] # {v}}
  <2>1. InSeq(galleryQueue) \subseteq Folders
    BY <1>1, InSeqFacts
  <2> QED BY <1>1, <1>2, <2>1, OnlyFacts
<1>4. /\ itemAt' \in [Folders -> ItemPlaces]
      /\ \A f \in Folders : itemAt'[f] = IF itemAt[f] = "queued" /\ owners[f] = {v} THEN "none" ELSE itemAt[f]
      /\ owners' \in [Folders -> SUBSET GalleryViewers] /\ asked' \in [Folders -> SUBSET GalleryViewers]
      /\ \A f \in Folders : owners'[f] = owners[f] \ {v} /\ asked'[f] = asked[f] \ {v}
  BY <1>1, <1>2 DEF ItemPlaces
<1>5. ItemsFit(galleryQueue', itemAt', owners', asked')
  BY <1>1, <1>3, <1>4 DEF ItemsFit
<1>6. Active(itemAt') = Active(itemAt) /\ AtLogin(itemAt') = AtLogin(itemAt) /\ Busy(itemAt') = Busy(itemAt)
  BY <1>4 DEF Active, AtLogin, Busy
<1>7. GalleryNoStall'
  <2>1. galleryQueue' # <<>> => galleryQueue # <<>>
    BY <1>1, <1>3, InSeqFacts
  <2> QED BY <1>6, <2>1 DEF GalleryFits, GalleryNoStall
<1>8. SlotsFit(itemAt', clientClosed', galleryPool', galleryAvail')
  <2>1. SlotsFit(itemAt, clientClosed, galleryPool, galleryAvail)
    BY DEF GalleryFits
  <2>2. CASE NobodyLeft(v)
    <3>1. galleryPool' = 0 /\ galleryAvail' = 0 /\ clientClosed' = Active(itemAt)
      BY <2>2 DEF CancelViewer, Active
    <3>2. Cardinality(Active(itemAt') \ clientClosed') = 0
      <4>1. Active(itemAt') \ clientClosed' = {}
        BY <1>6, <3>1
      <4> QED BY <4>1, FS_EmptySet
    <3>3. Cardinality(AtLogin(itemAt)) <= GallerySlots
      <4>1. Cardinality(Active(itemAt)) \in Nat /\ Cardinality(AtLogin(itemAt)) \in Nat
        BY BusyCount, GalleryFinite
      <4> QED BY <2>1, <4>1, BusyCount, SlotsNumber DEF SlotsFit
    <3>4. Cardinality(AtLogin(itemAt)) \in Nat
      BY BusyCount, GalleryFinite
    <3> QED BY <1>6, <2>1, <3>1, <3>2, <3>3, <3>4, SlotsNumber DEF SlotsFit
  <2>3. CASE ~NobodyLeft(v)
    <3>1. UNCHANGED <<galleryPool, galleryAvail, clientClosed>>
      BY <2>3 DEF CancelViewer
    <3> QED BY <1>6, <2>1, <3>1 DEF SlotsFit
  <2> QED BY <2>2, <2>3
<1> QED BY <1>5, <1>7, <1>8 DEF GalleryFits

(* The item of f is over: with what it leaves, the next of the queue begins. *)
LEMMA EndFits ==
  ASSUME GalleryFits, NEW f \in Folders, f \in Busy(itemAt), NEW idle, NEW down \in BOOLEAN,
         SlotsFit(Gone(f), clientClosed', galleryPool', idle),
         Take(galleryQueue, Gone(f), idle, down, Left(f))
  PROVE  GalleryFits'
<1>1. itemAt \in [Folders -> ItemPlaces] /\ itemAt[f] # "queued"
  BY DEF GalleryFits, ItemsFit, Busy
<1>2. ItemsFit(galleryQueue, Gone(f), Left(f), [g \in Folders |-> asked[g] \cap Left(f)[g]])
  BY <1>1, ItemEnds
<1>3. galleryQueue # <<>> => Cardinality(Busy(Gone(f))) >= GallerySlots - 1
  <2>1. Cardinality(Busy(Gone(f))) = Cardinality(Busy(itemAt)) - 1
    BY <1>1, StopFits DEF Gone, GalleryFits
  <2>2. Cardinality(Busy(itemAt)) \in Nat
    BY BusyCount, GalleryFinite
  <2> QED BY <2>1, <2>2, SlotsNumber DEF GalleryFits, GalleryNoStall
<1> QED BY <1>2, <1>3, TakeFits

(* ... the login of a client ...                                            *)
LEMMA ClientLoginFits ==
  ASSUME GalleryFits, NEW f \in Folders, NEW ok \in BOOLEAN, ClientLogin(f, ok)
  PROVE  GalleryFits'
<1>1. /\ itemAt \in [Folders -> ItemPlaces] /\ itemAt[f] = "login" /\ f \in Busy(itemAt)
      /\ SlotsFit(itemAt, clientClosed, galleryPool, galleryAvail) /\ UNCHANGED clientClosed
  BY DEF GalleryFits, ItemsFit, Busy, ClientLogin
<1>2. CASE ~ok
  <2>1. SlotsFit(Gone(f), clientClosed, galleryPool, galleryAvail)
    BY <1>1, StopFits DEF Gone
  <2>2. UNCHANGED galleryPool /\ Take(galleryQueue, Gone(f), galleryAvail, TRUE, Left(f))
    BY <1>2 DEF ClientLogin
  <2> QED BY <1>1, <2>1, <2>2, EndFits
<1>3. CASE ok
  <2> DEFINE n == [itemAt EXCEPT ![f] = "list"]
  <2>1. /\ itemAt' = n /\ galleryPool' = galleryPool + 1
        /\ UNCHANGED <<galleryQueue, owners, asked, galleryAvail>>
    BY <1>3 DEF ClientLogin
  <2>2. "list" \in ItemPlaces
    BY DEF ItemPlaces
  <2>3. /\ n \in [Folders -> ItemPlaces] /\ n[f] = "list" /\ \A g \in Folders \ {f} : n[g] = itemAt[g]
        /\ Active(n) = Active(itemAt) \cup {f} /\ AtLogin(n) = AtLogin(itemAt) \ {f}
        /\ Busy(n) = Busy(itemAt) \cup {f}
    BY <1>1, <2>2, MoveFacts
  <2> HIDE DEF n
  <2>4. f \notin Active(itemAt) /\ f \in AtLogin(itemAt) /\ f \notin clientClosed
    BY <1>1 DEF Active, AtLogin, SlotsFit
  <2>5. /\ Active(n) \ clientClosed = (Active(itemAt) \ clientClosed) \cup {f} /\ Busy(n) = Busy(itemAt)
        /\ clientClosed \subseteq Active(n)
    BY <1>1, <2>3, <2>4 DEF SlotsFit
  <2>6. /\ Cardinality(Active(n) \ clientClosed) = Cardinality(Active(itemAt) \ clientClosed) + 1
        /\ Cardinality(AtLogin(n)) = Cardinality(AtLogin(itemAt)) - 1
    <3>1. Active(itemAt) \ clientClosed \in SUBSET Folders /\ AtLogin(itemAt) \in SUBSET Folders
      BY BusyCount
    <3> QED BY <2>3, <2>4, <2>5, <3>1, OneIn, OneOut
  <2>7. Cardinality(Active(itemAt) \ clientClosed) \in Nat /\ Cardinality(AtLogin(itemAt)) \in Nat
    <3>1. Active(itemAt) \ clientClosed \in SUBSET Folders /\ AtLogin(itemAt) \in SUBSET Folders
      BY BusyCount
    <3> QED BY <3>1, GalleryFinite
  <2>8. SlotsFit(n, clientClosed, galleryPool + 1, galleryAvail)
    BY <1>1, <2>5, <2>6, <2>7, SlotsNumber DEF SlotsFit
  <2>9. ItemsFit(galleryQueue, n, owners, asked)
    BY <1>1, <2>3 DEF GalleryFits, ItemsFit
  <2> QED BY <1>1, <2>1, <2>5, <2>8, <2>9 DEF GalleryFits, GalleryNoStall
<1> QED BY <1>2, <1>3

(* ... the answers of the server ...                                        *)
LEMMA ListedFits ==
  ASSUME GalleryFits, NEW f \in Folders, Listed(f)
  PROVE  GalleryFits'
<1>1. /\ itemAt \in [Folders -> ItemPlaces] /\ itemAt[f] = "list" /\ itemAt' = [itemAt EXCEPT ![f] = "listed"]
      /\ UNCHANGED <<galleryQueue, owners, asked, clientClosed, galleryPool, galleryAvail>>
  BY DEF GalleryFits, ItemsFit, Listed
<1>2. /\ itemAt' \in [Folders -> ItemPlaces] /\ itemAt'[f] = "listed"
      /\ \A g \in Folders \ {f} : itemAt'[g] = itemAt[g]
  BY <1>1 DEF ItemPlaces
<1>3. Active(itemAt') = Active(itemAt) /\ AtLogin(itemAt') = AtLogin(itemAt) /\ Busy(itemAt') = Busy(itemAt)
  BY <1>1, <1>2 DEF Active, AtLogin, Busy
<1>4. ItemsFit(galleryQueue', itemAt', owners', asked')
  BY <1>1, <1>2 DEF GalleryFits, ItemsFit
<1>5. SlotsFit(itemAt', clientClosed', galleryPool', galleryAvail') /\ GalleryNoStall'
  BY <1>1, <1>3 DEF GalleryFits, SlotsFit, GalleryNoStall
<1> QED BY <1>4, <1>5 DEF GalleryFits

(* ... and the end of an item, well or not.                                 *)
LEMMA PreviewEnds ==
  ASSUME GalleryFits, NEW f \in Folders, PreviewStored(f) \/ PreviewFails(f), secondaryUnavailable \in BOOLEAN
  PROVE  GalleryFits'
<1>1. /\ itemAt \in [Folders -> ItemPlaces] /\ itemAt[f] \in {"list", "listed"} /\ f \in Busy(itemAt)
      /\ SlotsFit(itemAt, clientClosed, galleryPool, galleryAvail) /\ clientClosed' = clientClosed \ {f}
  BY DEF GalleryFits, ItemsFit, Busy, PreviewStored, PreviewFails
<1>2. /\ SlotsFit(Gone(f), clientClosed', galleryPool, Available(f))
      /\ SlotsFit(Gone(f), clientClosed', IF f \in clientClosed THEN galleryPool ELSE galleryPool - 1, galleryAvail)
  BY <1>1, StopFits DEF Gone, Available
<1>3. CASE PreviewStored(f)
  <2>1. galleryPool' = galleryPool /\ Take(galleryQueue, Gone(f), Available(f), secondaryUnavailable, Left(f))
    BY <1>3 DEF PreviewStored
  <2> QED BY <1>1, <1>2, <2>1, EndFits
<1>4. CASE PreviewFails(f)
  <2>1. /\ galleryPool' = IF f \in clientClosed THEN galleryPool ELSE galleryPool - 1
        /\ Take(galleryQueue, Gone(f), galleryAvail, secondaryUnavailable, Left(f))
    BY <1>4 DEF PreviewFails
  <2> QED BY <1>1, <1>2, <2>1, EndFits
<1> QED BY <1>3, <1>4

(* The inductive invariant: the queue is the queued items, each owned and   *)
(* there once; the pool is the idle clients and those of the items that     *)
(* use one, and has room for the logins under way; no slot is free while an *)
(* item waits (RemoteGalleryPreviewQueue.ts).                               *)
THEOREM GalleryInvariance == GallerySpec => []GalleryInv
<1>1. GalleryInit => GalleryInv
  <2> SUFFICES ASSUME GalleryInit PROVE GalleryInv
    OBVIOUS
  <2>1. Active(itemAt) = {} /\ AtLogin(itemAt) = {} /\ Busy(itemAt) = {}
    BY DEF GalleryInit, Active, AtLogin, Busy
  <2>2. SlotsFit(itemAt, clientClosed, galleryPool, galleryAvail)
    <3>1. Active(itemAt) \ clientClosed = {}
      BY <2>1
    <3>2. Cardinality({}) = 0
      BY FS_EmptySet
    <3>3. clientClosed = {} /\ galleryPool = 0 /\ galleryAvail = 0
      BY DEF GalleryInit
    <3> QED BY <2>1, <3>1, <3>2, <3>3, SlotsNumber DEF SlotsFit
  <2>3. galleryQueue = <<>> /\ galleryQueue \in Seq(Folders) /\ Once(galleryQueue) /\ InSeq(galleryQueue) = {}
    <3>1. galleryQueue = <<>>
      BY DEF GalleryInit
    <3> QED BY <3>1 DEF Once, InSeq
  <2>4. ItemsFit(galleryQueue, itemAt, owners, asked)
    BY <2>3 DEF GalleryInit, ItemsFit, ItemPlaces
  <2> QED BY <2>2, <2>3, <2>4 DEF GalleryInit, GalleryInv, GalleryFits, GalleryNoStall
<1>2. GalleryInv /\ [GalleryNext]_galleryVars => GalleryInv'
  <2> SUFFICES ASSUME GalleryFits, secondaryUnavailable \in BOOLEAN, [GalleryNext]_galleryVars
               PROVE  GalleryFits' /\ secondaryUnavailable' \in BOOLEAN
    BY DEF GalleryInv
  <2>1. ASSUME NEW f \in Folders, NEW ok \in BOOLEAN, ClientLogin(f, ok)
        PROVE  GalleryFits' /\ secondaryUnavailable' \in BOOLEAN
    BY <2>1, ClientLoginFits DEF ClientLogin
  <2>2. ASSUME NEW f \in Folders, Listed(f)
        PROVE  GalleryFits' /\ secondaryUnavailable' \in BOOLEAN
    BY <2>2, ListedFits DEF Listed
  <2>3. ASSUME NEW f \in Folders, PreviewStored(f) \/ PreviewFails(f)
        PROVE  GalleryFits' /\ secondaryUnavailable' \in BOOLEAN
    BY <2>3, PreviewEnds DEF PreviewStored, PreviewFails
  <2>4. ASSUME NEW f \in Folders, Mutation(f)
        PROVE  GalleryFits' /\ secondaryUnavailable' \in BOOLEAN
    <3>1. UNCHANGED <<galleryQueue, itemAt, owners, asked, clientClosed, galleryPool, galleryAvail,
                      secondaryUnavailable>>
      BY <2>4 DEF Mutation
    <3> QED BY <3>1 DEF GalleryFits, GalleryNoStall
  <2>5. ASSUME NEW f \in Folders, NEW v \in GalleryViewers, RequestPreview(f, v)
        PROVE  GalleryFits' /\ secondaryUnavailable' \in BOOLEAN
    BY <2>5, RequestFits DEF RequestPreview
  <2>6. ASSUME NEW v \in GalleryViewers, CancelViewer(v)
        PROVE  GalleryFits' /\ secondaryUnavailable' \in BOOLEAN
    BY <2>6, CancelFits DEF CancelViewer
  <2>7. CASE UNCHANGED galleryVars
    BY <2>7 DEF galleryVars, GalleryFits, GalleryNoStall
  <2> QED BY <2>1, <2>2, <2>3, <2>4, <2>5, <2>6, <2>7, Zenon DEF GalleryNext, GalleryProgress
<1> QED BY <1>1, <1>2, PTL DEF GallerySpec

(* Previews that end after the last viewer has closed the clients give back *)
(* none, whoever waits owns an item, and the queue never stalls             *)
(* (cancelAll(), releaseClient() and processNext()).                        *)
THEOREM GalleryIsSafe == GallerySpec => []GallerySafe
<1>1. GalleryInv => GallerySafe
  <2> SUFFICES ASSUME GalleryFits PROVE GallerySafe
    BY DEF GalleryInv
  <2>1. Cardinality(Active(itemAt) \ clientClosed) \in Nat /\ Cardinality(AtLogin(itemAt)) \in Nat
        /\ Active(itemAt) \subseteq Busy(itemAt)
    <3>1. Active(itemAt) \ clientClosed \in SUBSET Folders /\ AtLogin(itemAt) \in SUBSET Folders
          /\ Active(itemAt) \subseteq Busy(itemAt)
      BY BusyCount
    <3> QED BY <3>1, GalleryFinite
  <2>2. GalleryTypeOK
    BY <2>1, SlotsNumber DEF GalleryTypeOK, GalleryFits, ItemsFit, SlotsFit, ItemPlaces
  <2>3. GalleryClients
    <3>1. /\ {f \in Folders : itemAt[f] \in {"list", "listed"} /\ f \notin clientClosed} = Active(itemAt) \ clientClosed
          /\ {f \in Folders : itemAt[f] = "login"} = AtLogin(itemAt)
      BY DEF Active, AtLogin
    <3> QED BY <2>1, <3>1 DEF GalleryClients, GalleryFits, SlotsFit
  <2>4. WaitersOwn
    <3>1. galleryQueue \in Seq(Folders) /\ Once(galleryQueue) /\ InSeq(galleryQueue) \subseteq Folders
      BY InSeqFacts DEF GalleryFits, ItemsFit
    <3>2. \A f \in Folders : Contains(galleryQueue, f) <=> f \in InSeq(galleryQueue)
      BY <3>1 DEF Contains, InSeq
    <3>3. ToSet(galleryQueue) = InSeq(galleryQueue) /\ IsInjective(galleryQueue)
      BY <3>1 DEF ToSet, InSeq, IsInjective, Once
    <3>4. \A f \in Folders : /\ asked[f] \subseteq owners[f] /\ (owners[f] # {} => itemAt[f] # "none")
                             /\ itemAt[f] = "queued" <=> f \in InSeq(galleryQueue)
                             /\ f \in InSeq(galleryQueue) => owners[f] # {}
      BY DEF GalleryFits, ItemsFit
    <3> QED BY <3>1, <3>2, <3>3, <3>4 DEF WaitersOwn
  <2> QED BY <2>2, <2>3, <2>4 DEF GallerySafe, GalleryFits
<1> QED BY <1>1, GalleryInvariance, PTL

-----------------------------------------------------------------------------
(* One upload.                                                             *)

(* The replies that end a STOR.                                             *)
Final == {"2xx", "425", "550"}
UpReplies == {"1xx"} \cup Final

(* Types, and the flags.                                                    *)
UpTypes ==
  /\ upTask \in {"open", "done", "failed"}
  /\ verdict \in [reply : BOOLEAN, suspect : BOOLEAN]
  /\ upData \in {"connecting", "up", "tls", "sending", "ended", "closed"}
  /\ dataError \in {"none", "broken", "source"} /\ starts \in {0, 1}
  /\ storReplies \in Seq(UpReplies)
  /\ server \in {"stor", "reading", "twice", "over"} /\ serverEnds \in {"", "fin", "reset"}
  /\ serverGot \in {"part", "all"}

UpFlags ==
  /\ fastPath \in BOOLEAN /\ handedOver \in BOOLEAN /\ preliminary \in BOOLEAN /\ controlDone \in BOOLEAN
  /\ sourceError \in BOOLEAN /\ dataDone \in BOOLEAN /\ ctrlOpen \in BOOLEAN /\ ctrlTimer \in BOOLEAN
  /\ watchdog \in BOOLEAN /\ sentAll \in BOOLEAN

(* The replies on their way: one that ends the command is the last one, and *)
(* is there from when the server is done until the task has it.            *)
RepliesFit ==
  /\ \A i \in 1..Len(storReplies) : storReplies[i] \in Final => i = Len(storReplies) /\ server = "over"
  /\ server = "over" /\ Open /\ ~controlDone =>
       Len(storReplies) > 0 /\ storReplies[Len(storReplies)] \in Final
  /\ controlDone \/ (upTask = "failed" /\ verdict.reply) => server = "over" /\ storReplies = <<>>

(* A 2xx was sent after all of the file, or over a data connection that was *)
(* closed before its end.                                                  *)
TwoHundred == controlDone \/ \E i \in 1..Len(storReplies) : storReplies[i] = "2xx"
(* What the data connection has done so far.                                *)
DataFits ==
  /\ TwoHundred /\ Open => serverGot = "all" \/ (upData = "closed" /\ (~dataDone \/ dataError # "none"))
  /\ Open /\ dataDone => upData = "ended" \/ (upData = "closed" /\ dataError # "none")
  /\ upTask = "done" => serverGot = "all" /\ sentAll /\ controlDone

(* Who is blamed, and when an early error was seen.                         *)
BlameFits ==
  /\ Open => ~verdict.reply /\ ~verdict.suspect
  /\ ~handedOver \/ upData = "connecting" \/ dataError # "none" => fastPath

(* The inductive invariant.                                                 *)
UpInv == UpTypes /\ UpFlags /\ RepliesFit /\ DataFits /\ BlameFits /\ Watched /\ BlameFair

(* A failure which no reply of the server reports, and whose blame is fair. *)
Dropped ==
  /\ upTask' = "failed" /\ upData' = "closed" /\ ~ctrlTimer' /\ ~watchdog'
  /\ {ctrlTimer', watchdog', ctrlOpen'} \subseteq BOOLEAN
  /\ verdict' \in [reply : BOOLEAN, suspect : BOOLEAN] /\ ~verdict'.reply
  /\ verdict'.suspect => fastPath /\ (~preliminary \/ dataError' = "broken")

(* The data connection broke early, and a reply is still to come.          *)
Waits ==
  /\ ~handedOver /\ ~controlDone /\ dataError' \in {"broken", "source"} /\ upData' = "closed"
  /\ ctrlTimer' = TRUE /\ watchdog' = FALSE /\ UNCHANGED upEnd

(* A failure closes what is open.                                           *)
LEMMA FailsDrops ==
  ASSUME NEW suspect \in BOOLEAN, NEW stays \in BOOLEAN, Fails(FALSE, suspect, stays),
         suspect => fastPath /\ (~preliminary \/ dataError' = "broken")
  PROVE  Dropped
BY DEF Fails, Dropped

LEMMA EarlyDrops ==
  ASSUME UpInv, ~handedOver, NEW kind \in {"broken", "source"}, EarlyDataError(kind)
  PROVE  (Dropped \/ Waits) /\ dataError' = kind
<1>1. CASE controlDone
  <2>1. Fails(FALSE, kind = "broken", TRUE) /\ dataError' = kind
    BY <1>1, Zenon DEF EarlyDataError
  <2>2. (kind = "broken") \in BOOLEAN
    OBVIOUS
  <2>3. kind = "broken" => fastPath /\ (~preliminary \/ dataError' = "broken")
    BY <2>1 DEF UpInv, BlameFits
  <2> QED BY <2>1, <2>2, <2>3, FailsDrops, Zenon
<1>2. CASE ~controlDone
  BY <1>2 DEF EarlyDataError, TimersBack, Waits
<1> QED BY <1>1, <1>2

LEMMA DropKeeps ==
  ASSUME UpInv, Open, Dropped \/ Waits, {sourceError'} \subseteq BOOLEAN,
         UNCHANGED <<fastPath, handedOver, preliminary, controlDone, starts, dataDone, storReplies, upServer, sentAll>>,
         dataError' \in {"none", "broken", "source"}, dataError' = dataError \/ ~handedOver
  PROVE  UpInv'
<1>1. UpTypes'
  BY DEF UpInv, UpTypes, UpFlags, Dropped, Waits, upServer, upEnd, Open
<1>2. UpFlags'
  BY DEF UpInv, UpTypes, UpFlags, Dropped, Waits, upServer, upEnd, Open
<1>3. RepliesFit'
  BY DEF UpInv, UpTypes, UpFlags, RepliesFit, Dropped, Waits, upServer, upEnd, Open
<1>4. DataFits'
  BY DEF UpInv, UpTypes, UpFlags, DataFits, TwoHundred, RepliesFit, Watched, Dropped, Waits, upServer, upEnd, Open
<1>5. BlameFits' /\ BlameFair'
  BY DEF UpInv, UpTypes, UpFlags, BlameFits, BlameFair, Watched, Dropped, Waits, upServer, upEnd, Open
<1>6. Watched'
  BY DEF UpInv, UpTypes, UpFlags, Watched, Dropped, Waits, upServer, upEnd, Open
<1> QED BY <1>1, <1>2, <1>3, <1>4, <1>5, <1>6 DEF UpInv

(* Data and a 2xx have come: done, or the file changed meanwhile.           *)
LEMMA ResolvesFacts ==
  ASSUME UpInv, Resolves
  PROVE  /\ upTask' \in {"done", "failed"} /\ upData' = "closed"
         /\ verdict' \in [reply : BOOLEAN, suspect : BOOLEAN]
<1>1. verdict \in [reply : BOOLEAN, suspect : BOOLEAN]
  BY DEF UpInv, UpTypes
<1>2. CASE sentAll
  BY <1>1, <1>2 DEF Resolves, SizeChecked
<1>3. CASE ~sentAll
  <2>1. upTask' = "failed" /\ verdict' = [reply |-> FALSE, suspect |-> FALSE] /\ upData' = "closed"
    BY <1>3, Zenon DEF Resolves, SizeChecked
  <2>2. [reply |-> FALSE, suspect |-> FALSE] \in [reply : BOOLEAN, suspect : BOOLEAN]
    OBVIOUS
  <2> QED BY <2>1, <2>2, Zenon
<1> QED BY <1>2, <1>3

(* Each step keeps it: the data connection and the local file ...           *)
LEMMA ConnectedFits ==
  ASSUME UpInv, Connected
  PROVE  UpInv'
<1>1. UpTypes'
  BY DEF UpInv, UpTypes, UpFlags, Connected, Fails, CloseWithError, BothDone, Resolves, SizeChecked, StartSource, upServer, upTimers, upEnd, Socket, Open
<1>2. UpFlags'
  BY DEF UpInv, UpTypes, UpFlags, Connected, Fails, CloseWithError, BothDone, Resolves, SizeChecked, StartSource, upServer, upTimers, upEnd, Socket, Open
<1>3. RepliesFit'
  BY DEF UpInv, UpTypes, UpFlags, RepliesFit, Connected, Fails, CloseWithError, BothDone, Resolves, SizeChecked, StartSource, upServer, upTimers, upEnd, Socket, Open
<1>4. DataFits'
  BY DEF UpInv, UpTypes, UpFlags, DataFits, TwoHundred, RepliesFit, Watched, Connected, Fails, CloseWithError, BothDone, Resolves, SizeChecked, StartSource, upServer, upTimers, upEnd, Socket, Open
<1>5. BlameFits' /\ BlameFair'
  BY DEF UpInv, UpTypes, UpFlags, BlameFits, BlameFair, Watched, Connected, Fails, CloseWithError, BothDone, Resolves, SizeChecked, StartSource, upServer, upTimers, upEnd, Socket, Open
<1>6. Watched'
  BY DEF UpInv, UpTypes, UpFlags, Watched, Connected, Fails, CloseWithError, BothDone, Resolves, SizeChecked, StartSource, upServer, upTimers, upEnd, Socket, Open
<1> QED BY <1>1, <1>2, <1>3, <1>4, <1>5, <1>6 DEF UpInv

LEMMA ConnectFailsFits ==
  ASSUME UpInv, ConnectFails
  PROVE  UpInv'
<1>1. UpTypes'
  BY DEF UpInv, UpTypes, UpFlags, ConnectFails, Fails, CloseWithError, BothDone, Resolves, SizeChecked, StartSource, upServer, upTimers, upEnd, Socket, Open
<1>2. UpFlags'
  BY DEF UpInv, UpTypes, UpFlags, ConnectFails, Fails, CloseWithError, BothDone, Resolves, SizeChecked, StartSource, upServer, upTimers, upEnd, Socket, Open
<1>3. RepliesFit'
  BY DEF UpInv, UpTypes, UpFlags, RepliesFit, ConnectFails, Fails, CloseWithError, BothDone, Resolves, SizeChecked, StartSource, upServer, upTimers, upEnd, Socket, Open
<1>4. DataFits'
  BY DEF UpInv, UpTypes, UpFlags, DataFits, TwoHundred, RepliesFit, Watched, ConnectFails, Fails, CloseWithError, BothDone, Resolves, SizeChecked, StartSource, upServer, upTimers, upEnd, Socket, Open
<1>5. BlameFits' /\ BlameFair'
  BY DEF UpInv, UpTypes, UpFlags, BlameFits, BlameFair, Watched, ConnectFails, Fails, CloseWithError, BothDone, Resolves, SizeChecked, StartSource, upServer, upTimers, upEnd, Socket, Open
<1>6. Watched'
  BY DEF UpInv, UpTypes, UpFlags, Watched, ConnectFails, Fails, CloseWithError, BothDone, Resolves, SizeChecked, StartSource, upServer, upTimers, upEnd, Socket, Open
<1> QED BY <1>1, <1>2, <1>3, <1>4, <1>5, <1>6 DEF UpInv

LEMMA SecureConnectFits ==
  ASSUME UpInv, SecureConnect
  PROVE  UpInv'
<1>1. UpTypes'
  BY DEF UpInv, UpTypes, UpFlags, SecureConnect, Fails, CloseWithError, BothDone, Resolves, SizeChecked, StartSource, upServer, upTimers, upEnd, Socket, Open
<1>2. UpFlags'
  BY DEF UpInv, UpTypes, UpFlags, SecureConnect, Fails, CloseWithError, BothDone, Resolves, SizeChecked, StartSource, upServer, upTimers, upEnd, Socket, Open
<1>3. RepliesFit'
  BY DEF UpInv, UpTypes, UpFlags, RepliesFit, SecureConnect, Fails, CloseWithError, BothDone, Resolves, SizeChecked, StartSource, upServer, upTimers, upEnd, Socket, Open
<1>4. DataFits'
  BY DEF UpInv, UpTypes, UpFlags, DataFits, TwoHundred, RepliesFit, Watched, SecureConnect, Fails, CloseWithError, BothDone, Resolves, SizeChecked, StartSource, upServer, upTimers, upEnd, Socket, Open
<1>5. BlameFits' /\ BlameFair'
  BY DEF UpInv, UpTypes, UpFlags, BlameFits, BlameFair, Watched, SecureConnect, Fails, CloseWithError, BothDone, Resolves, SizeChecked, StartSource, upServer, upTimers, upEnd, Socket, Open
<1>6. Watched'
  BY DEF UpInv, UpTypes, UpFlags, Watched, SecureConnect, Fails, CloseWithError, BothDone, Resolves, SizeChecked, StartSource, upServer, upTimers, upEnd, Socket, Open
<1> QED BY <1>1, <1>2, <1>3, <1>4, <1>5, <1>6 DEF UpInv

LEMMA SourceSentFits ==
  ASSUME UpInv, SourceSent
  PROVE  UpInv'
<1>1. UpTypes'
  BY DEF UpInv, UpTypes, UpFlags, SourceSent, Fails, CloseWithError, BothDone, Resolves, SizeChecked, StartSource, upServer, upTimers, upEnd, Socket, Open
<1>2. UpFlags'
  BY DEF UpInv, UpTypes, UpFlags, SourceSent, Fails, CloseWithError, BothDone, Resolves, SizeChecked, StartSource, upServer, upTimers, upEnd, Socket, Open
<1>3. RepliesFit'
  BY DEF UpInv, UpTypes, UpFlags, RepliesFit, SourceSent, Fails, CloseWithError, BothDone, Resolves, SizeChecked, StartSource, upServer, upTimers, upEnd, Socket, Open
<1>4. DataFits'
  BY DEF UpInv, UpTypes, UpFlags, DataFits, TwoHundred, RepliesFit, Watched, SourceSent, Fails, CloseWithError, BothDone, Resolves, SizeChecked, StartSource, upServer, upTimers, upEnd, Socket, Open
<1>5. BlameFits' /\ BlameFair'
  BY DEF UpInv, UpTypes, UpFlags, BlameFits, BlameFair, Watched, SourceSent, Fails, CloseWithError, BothDone, Resolves, SizeChecked, StartSource, upServer, upTimers, upEnd, Socket, Open
<1>6. Watched'
  BY DEF UpInv, UpTypes, UpFlags, Watched, SourceSent, Fails, CloseWithError, BothDone, Resolves, SizeChecked, StartSource, upServer, upTimers, upEnd, Socket, Open
<1> QED BY <1>1, <1>2, <1>3, <1>4, <1>5, <1>6 DEF UpInv

LEMMA DataDoneFits ==
  ASSUME UpInv, DataDone
  PROVE  UpInv'
<1>1. UpTypes'
  <2>1. CASE Resolves
    BY <2>1, ResolvesFacts DEF UpInv, UpTypes, DataDone, upServer
  <2>2. CASE UNCHANGED <<upEnd, upData>>
    BY <2>2 DEF UpInv, UpTypes, DataDone, upServer, upEnd
  <2> QED BY <2>1, <2>2 DEF DataDone
<1>2. UpFlags'
  BY DEF UpInv, UpTypes, UpFlags, DataDone, Fails, CloseWithError, BothDone, Resolves, SizeChecked, StartSource, upServer, upTimers, upEnd, Socket, Open
<1>3. RepliesFit'
  BY DEF UpInv, UpTypes, UpFlags, RepliesFit, DataDone, Fails, CloseWithError, BothDone, Resolves, SizeChecked, StartSource, upServer, upTimers, upEnd, Socket, Open
<1>4. DataFits'
  BY DEF UpInv, UpTypes, UpFlags, DataFits, TwoHundred, RepliesFit, Watched, DataDone, Fails, CloseWithError, BothDone, Resolves, SizeChecked, StartSource, upServer, upTimers, upEnd, Socket, Open
<1>5. BlameFits' /\ BlameFair'
  BY DEF UpInv, UpTypes, UpFlags, BlameFits, BlameFair, Watched, DataDone, Fails, CloseWithError, BothDone, Resolves, SizeChecked, StartSource, upServer, upTimers, upEnd, Socket, Open
<1>6. Watched'
  BY DEF UpInv, UpTypes, UpFlags, Watched, DataDone, Fails, CloseWithError, BothDone, Resolves, SizeChecked, StartSource, upServer, upTimers, upEnd, Socket, Open
<1> QED BY <1>1, <1>2, <1>3, <1>4, <1>5, <1>6 DEF UpInv

LEMMA SourceFailsFits ==
  ASSUME UpInv, SourceFails
  PROVE  UpInv'
<1>1. Open /\ sourceError' = TRUE /\ dataError \in {"none", "broken", "source"}
  BY DEF UpInv, UpTypes, Watched, SourceFails
<1>2. CASE handedOver
  <2>1. Fails(FALSE, FALSE, FALSE) /\ dataError' = dataError
    BY <1>2 DEF SourceFails, CloseWithError
  <2>2. Dropped
    BY <2>1, FailsDrops
  <2> QED BY <1>1, <2>1, <2>2, DropKeeps DEF SourceFails
<1>3. CASE ~handedOver
  <2>1. EarlyDataError("source")
    BY <1>3 DEF SourceFails
  <2>2. (Dropped \/ Waits) /\ dataError' = "source"
    BY <1>3, <2>1, EarlyDrops
  <2> QED BY <1>1, <1>3, <2>2, DropKeeps DEF SourceFails
<1> QED BY <1>2, <1>3

LEMMA DataBreaksFits ==
  ASSUME UpInv, DataBreaks
  PROVE  UpInv'
<1>1. Open /\ UNCHANGED sourceError /\ sourceError \in BOOLEAN /\ dataError \in {"none", "broken", "source"}
  BY DEF UpInv, UpTypes, UpFlags, DataBreaks
<1>2. CASE ~handedOver
  <2>1. EarlyDataError("broken")
    BY <1>2 DEF DataBreaks
  <2>2. (Dropped \/ Waits) /\ dataError' = "broken"
    BY <1>2, <2>1, EarlyDrops
  <2> QED BY <1>1, <1>2, <2>2, DropKeeps DEF DataBreaks
<1>3. CASE handedOver
  <2>1. dataError' = dataError
    BY <1>3 DEF DataBreaks
  <2>2. CASE Fails(FALSE, FALSE, FALSE) \/ Fails(FALSE, FALSE, TRUE)
    <3>1. Dropped
      BY <2>2, FailsDrops
    <3> QED BY <1>1, <2>1, <3>1, DropKeeps DEF DataBreaks
  <2>3. CASE upData \notin {"sending", "ended"} /\ upData' = "closed" /\ UNCHANGED <<upEnd, upTimers>>
    <3>1. UpTypes'
      BY <1>1, <1>3, <2>1, <2>3 DEF UpInv, UpTypes, UpFlags, DataBreaks, upServer, upEnd, upTimers, Open, Socket
    <3>2. UpFlags'
      BY <1>1, <1>3, <2>1, <2>3 DEF UpInv, UpTypes, UpFlags, DataBreaks, upServer, upEnd, upTimers, Open, Socket
    <3>3. RepliesFit'
      BY <1>1, <1>3, <2>1, <2>3 DEF UpInv, UpTypes, UpFlags, RepliesFit, DataBreaks, upServer, upEnd, upTimers, Open, Socket
    <3>4. DataFits'
      BY <1>1, <1>3, <2>1, <2>3 DEF UpInv, UpTypes, UpFlags, DataFits, TwoHundred, RepliesFit, Watched, DataBreaks, upServer, upEnd, upTimers, Open, Socket
    <3>5. BlameFits' /\ BlameFair'
      BY <1>1, <1>3, <2>1, <2>3 DEF UpInv, UpTypes, UpFlags, BlameFits, BlameFair, Watched, DataBreaks, upServer, upEnd, upTimers, Open, Socket
    <3>6. Watched'
      BY <1>1, <1>3, <2>1, <2>3 DEF UpInv, UpTypes, UpFlags, Watched, DataBreaks, upServer, upEnd, upTimers, Open, Socket
    <3> QED BY <3>1, <3>2, <3>3, <3>4, <3>5, <3>6 DEF UpInv
  <2> QED BY <1>1, <1>3, <2>2, <2>3 DEF DataBreaks, CloseWithError
<1> QED BY <1>2, <1>3

LEMMA ControlFailsFits ==
  ASSUME UpInv, ControlFails
  PROVE  UpInv'
<1>1. Open /\ UNCHANGED <<sourceError, dataError>> /\ sourceError \in BOOLEAN
  BY DEF UpInv, UpFlags, ControlFails
<1>2. PICK blamed \in BOOLEAN : Fails(FALSE, blamed /\ fastPath /\ ~preliminary, FALSE)
  BY DEF ControlFails, CloseWithError
<1>3. (blamed /\ fastPath /\ ~preliminary) \in BOOLEAN
  OBVIOUS
<1>4. Dropped
  BY <1>2, <1>3, FailsDrops, Zenon
<1> QED BY <1>1, <1>4, DropKeeps DEF ControlFails, UpInv, UpTypes


LEMMA ElementsIn ==
  ASSUME NEW S, NEW q \in Seq(S)
  PROVE  Len(q) \in Nat /\ \A i \in 1..Len(q) : q[i] \in S
OBVIOUS

LEMMA LongerFacts ==
  ASSUME NEW S, NEW q \in Seq(S), NEW x \in S
  PROVE  /\ Append(q, x) \in Seq(S) /\ Len(Append(q, x)) = Len(q) + 1
         /\ \A i \in 1..(Len(q) + 1) : Append(q, x)[i] = IF i = Len(q) + 1 THEN x ELSE q[i]
OBVIOUS

LEMMA RestFacts ==
  ASSUME NEW S, NEW q \in Seq(S), q # <<>>
  PROVE  /\ Head(q) \in S /\ Head(q) = q[1] /\ Len(q) \in Nat \ {0}
         /\ Tail(q) \in Seq(S) /\ Len(Tail(q)) = Len(q) - 1
         /\ \A i \in 1..(Len(q) - 1) : Tail(q)[i] = q[i + 1]
OBVIOUS

(* Replies, none of which ends the command, and one more.                  *)
LEMMA OneMore ==
  ASSUME NEW q \in Seq(UpReplies), NEW r \in UpReplies, \A i \in 1..Len(q) : q[i] \notin Final
  PROVE  LET p == Append(q, r) IN
           /\ p \in Seq(UpReplies) /\ Len(p) > 0 /\ p[Len(p)] = r
           /\ \A i \in 1..Len(p) : p[i] \in Final => i = Len(p) /\ r \in Final
           /\ (\E i \in 1..Len(p) : p[i] = "2xx") => r = "2xx"
<1> DEFINE p == Append(q, r)
<1>1. Len(q) \in Nat /\ \A i \in 1..Len(q) : q[i] \in UpReplies
  BY ElementsIn
<1>2. /\ p \in Seq(UpReplies) /\ Len(p) = Len(q) + 1
      /\ \A i \in 1..(Len(q) + 1) : p[i] = IF i = Len(q) + 1 THEN r ELSE q[i]
  BY LongerFacts
<1> HIDE DEF p
<1>3. \A i \in 1..Len(p) : i = Len(p) \/ i \in 1..Len(q)
  BY <1>1, <1>2
<1>4. Len(p) > 0 /\ Len(p) \in 1..(Len(q) + 1)
  BY <1>1, <1>2
<1>5. p[Len(p)] = r
  BY <1>2, <1>4
<1>6. \A i \in 1..Len(p) : p[i] \in Final => i = Len(p) /\ r \in Final
  BY <1>1, <1>2, <1>3
<1>7. "2xx" \in Final
  BY DEF Final
<1>8. (\E i \in 1..Len(p) : p[i] = "2xx") => r = "2xx"
  BY <1>5, <1>6, <1>7
<1>9. /\ p \in Seq(UpReplies) /\ Len(p) > 0 /\ p[Len(p)] = r
      /\ \A i \in 1..Len(p) : p[i] \in Final => i = Len(p) /\ r \in Final
      /\ (\E i \in 1..Len(p) : p[i] = "2xx") => r = "2xx"
  BY <1>2, <1>4, <1>5, <1>6, <1>8
<1> QED BY <1>9 DEF p

(* What the server does meanwhile: it says the reply, and may end the data. *)
LEMMA SaysFits ==
  ASSUME UpInv, NEW reply \in UpReplies, Says(reply), ServerOnly, server # "over",
         server' \in {"reading", "twice", "over"}, (server' = "over") <=> (reply \in Final),
         serverEnds' \in {"", "fin", "reset"}, serverGot' \in {"part", "all"},
         reply = "2xx" => serverGot' = "all" \/ upData = "closed",
         reply # "2xx" => serverGot' = serverGot
  PROVE  UpInv'
<1>7. storReplies \in Seq(UpReplies) /\ storReplies' = Append(storReplies, reply)
  BY DEF Says, UpInv, UpTypes
<1>8. \A i \in 1..Len(storReplies) : storReplies[i] \notin Final
  BY DEF UpInv, RepliesFit
<1>9. /\ storReplies' \in Seq(UpReplies) /\ Len(storReplies') > 0 /\ storReplies'[Len(storReplies')] = reply
      /\ \A i \in 1..Len(storReplies') : storReplies'[i] \in Final => i = Len(storReplies') /\ reply \in Final
      /\ (\E i \in 1..Len(storReplies') : storReplies'[i] = "2xx") => reply = "2xx"
  <2> DEFINE p == Append(storReplies, reply)
  <2>1. /\ p \in Seq(UpReplies) /\ Len(p) > 0 /\ p[Len(p)] = reply
        /\ \A i \in 1..Len(p) : p[i] \in Final => i = Len(p) /\ reply \in Final
        /\ (\E i \in 1..Len(p) : p[i] = "2xx") => reply = "2xx"
    <3>1. storReplies \in Seq(UpReplies)
      BY <1>7
    <3> QED BY <1>8, <3>1, OneMore
  <2>2. storReplies' = p
    BY <1>7
  <2> HIDE DEF p
  <2> QED BY <2>1, <2>2, Zenon
<1>10. Open' = Open /\ controlDone' = controlDone /\ upTask' = upTask /\ verdict' = verdict /\ upData' = upData
       /\ dataDone' = dataDone /\ dataError' = dataError
  BY DEF ServerOnly, upEnd, Open
<1>11. ~controlDone /\ (upTask = "failed" => ~verdict.reply) /\ upTask # "done"
  BY DEF UpInv, RepliesFit, DataFits
<1>1. UpTypes'
  BY <1>9 DEF UpInv, UpTypes, UpFlags, ServerOnly, upEnd, upTimers
<1>2. UpFlags'
  BY DEF UpInv, UpTypes, UpFlags, ServerOnly, upEnd, upTimers
<1>3. RepliesFit'
  <2>1. ~(controlDone' \/ (upTask' = "failed" /\ verdict'.reply))
    BY <1>10, <1>11
  <2>2. server' = "over" => Len(storReplies') > 0 /\ storReplies'[Len(storReplies')] \in Final
    BY <1>9, Zenon
  <2>3. \A i \in 1..Len(storReplies') : storReplies'[i] \in Final => i = Len(storReplies') /\ server' = "over"
    BY <1>9, Zenon
  <2> QED BY <2>1, <2>2, <2>3, Zenon DEF RepliesFit
<1>4. DataFits'
  <2>1. TwoHundred' => reply = "2xx"
    BY <1>9, <1>10, <1>11, Zenon DEF TwoHundred
  <2>2. Open /\ dataDone /\ upData = "closed" => dataError # "none"
    BY DEF UpInv, DataFits
  <2> QED BY <1>10, <1>11, <2>1, <2>2 DEF DataFits, UpInv
<1>5. BlameFits' /\ BlameFair'
  BY DEF UpInv, UpTypes, UpFlags, BlameFits, BlameFair, ServerOnly, upEnd, upTimers, Open
<1>6. Watched'
  BY DEF UpInv, UpTypes, UpFlags, Watched, ServerOnly, upEnd, upTimers, Open
<1> QED BY <1>1, <1>2, <1>3, <1>4, <1>5, <1>6 DEF UpInv

LEMMA ServerFits ==
  ASSUME UpInv, ServerBegins \/ ServerCompletes \/ ServerRefuses
  PROVE  UpInv'
<1>1. CASE ServerBegins
  BY <1>1, SaysFits DEF ServerBegins, UpReplies, Final, UpInv, UpTypes
<1>2. CASE ServerCompletes
  BY <1>2, SaysFits DEF ServerCompletes, UpReplies, Final, UpInv, UpTypes
<1>3. CASE ServerRefuses
  <2>1. PICK code \in {"425", "550"} : Says(code)
    BY <1>3 DEF ServerRefuses
  <2> QED BY <1>3, <2>1, SaysFits DEF ServerRefuses, UpReplies, Final, UpInv, UpTypes
<1> QED BY <1>1, <1>2, <1>3

LEMMA ServerEndsDataFits ==
  ASSUME UpInv, NEW how \in {"fin", "reset"}, ServerEndsData(how)
  PROVE  UpInv'
<1>1. UpTypes'
  BY ZenonT(60) DEF UpInv, UpTypes, UpFlags, ServerEndsData, ServerOnly, upEnd, upTimers, Open
<1>2. UpFlags'
  BY DEF UpInv, UpTypes, UpFlags, ServerEndsData, ServerOnly, upEnd, upTimers, Open
<1>3. RepliesFit'
  BY DEF UpInv, UpTypes, UpFlags, RepliesFit, ServerEndsData, ServerOnly, upEnd, upTimers, Open
<1>4. DataFits'
  BY DEF UpInv, UpTypes, UpFlags, DataFits, TwoHundred, RepliesFit, Watched, ServerEndsData, ServerOnly, upEnd, upTimers, Open
<1>5. BlameFits' /\ BlameFair'
  BY DEF UpInv, UpTypes, UpFlags, BlameFits, BlameFair, Watched, ServerEndsData, ServerOnly, upEnd, upTimers, Open
<1>6. Watched'
  BY DEF UpInv, UpTypes, UpFlags, Watched, ServerEndsData, ServerOnly, upEnd, upTimers, Open
<1> QED BY <1>1, <1>2, <1>3, <1>4, <1>5, <1>6 DEF UpInv



(* Replies, only the last of which may end the command, without the first.  *)
LEMMA NextReply ==
  ASSUME NEW q \in Seq(UpReplies), q # <<>>, \A i \in 1..Len(q) : q[i] \in Final => i = Len(q)
  PROVE  LET p == Tail(q) IN
           /\ Head(q) \in UpReplies /\ p \in Seq(UpReplies)
           /\ \A i \in 1..Len(p) : p[i] \in Final => i = Len(p)
           /\ Head(q) \in Final => p = <<>>
           /\ Head(q) \notin Final /\ q[Len(q)] \in Final => Len(p) > 0 /\ p[Len(p)] \in Final
           /\ (\E i \in 1..Len(p) : p[i] = "2xx") \/ Head(q) = "2xx" => \E i \in 1..Len(q) : q[i] = "2xx"
<1> DEFINE p == Tail(q)
<1>1. /\ Head(q) \in UpReplies /\ Head(q) = q[1] /\ Len(q) \in Nat \ {0}
      /\ p \in Seq(UpReplies) /\ Len(p) = Len(q) - 1
      /\ \A i \in 1..(Len(q) - 1) : p[i] = q[i + 1]
  BY RestFacts
<1> HIDE DEF p
<1>2. 1 \in 1..Len(q) /\ \A i \in 1..Len(p) : i + 1 \in 1..Len(q) /\ p[i] = q[i + 1]
  BY <1>1
<1>3. \A i \in 1..Len(p) : p[i] \in Final => i = Len(p)
  BY <1>1, <1>2
<1>4. Head(q) \in Final => p = <<>>
  <2>1. Head(q) \in Final => Len(q) = 1
    BY <1>1, <1>2
  <2> QED BY <1>1, <2>1
<1>5. Head(q) \notin Final /\ q[Len(q)] \in Final => Len(p) > 0 /\ p[Len(p)] \in Final
  <2>1. Head(q) \notin Final /\ q[Len(q)] \in Final => Len(q) > 1
    BY <1>1
  <2> SUFFICES ASSUME Len(q) > 1, q[Len(q)] \in Final
               PROVE  Len(p) > 0 /\ p[Len(p)] \in Final
    BY <2>1
  <2>2. Len(p) > 0 /\ Len(p) \in 1..Len(p) /\ Len(p) + 1 = Len(q)
    BY <1>1
  <2> QED BY <1>2, <2>2
<1>6. (\E i \in 1..Len(p) : p[i] = "2xx") \/ Head(q) = "2xx" => \E i \in 1..Len(q) : q[i] = "2xx"
  BY <1>1, <1>2
<1>7. /\ Head(q) \in UpReplies /\ p \in Seq(UpReplies)
      /\ \A i \in 1..Len(p) : p[i] \in Final => i = Len(p)
      /\ Head(q) \in Final => p = <<>>
      /\ Head(q) \notin Final /\ q[Len(q)] \in Final => Len(p) > 0 /\ p[Len(p)] \in Final
      /\ (\E i \in 1..Len(p) : p[i] = "2xx") \/ Head(q) = "2xx" => \E i \in 1..Len(q) : q[i] = "2xx"
  BY <1>1, <1>3, <1>4, <1>5, <1>6
<1> QED BY <1>7 DEF p

(* What the handler of replies has to say of the rest of the replies.       *)
RestOfReplies(reply) ==
  /\ Open /\ ~controlDone /\ reply \in UpReplies /\ storReplies' \in Seq(UpReplies)
  /\ \A i \in 1..Len(storReplies') : storReplies'[i] \in Final => i = Len(storReplies') /\ server = "over"
  /\ reply \in Final => server = "over" /\ storReplies' = <<>>
  /\ reply \notin Final /\ server = "over" =>
       Len(storReplies') > 0 /\ storReplies'[Len(storReplies')] \in Final
  /\ (\E i \in 1..Len(storReplies') : storReplies'[i] = "2xx") \/ reply = "2xx" => TwoHundred

LEMMA ReplyTaken ==
  ASSUME UpInv, Reply
  PROVE  RestOfReplies(Head(storReplies))
<1> DEFINE p == Tail(storReplies)
<1>1. storReplies \in Seq(UpReplies) /\ storReplies # <<>> /\ storReplies' = p /\ Open
  BY DEF Reply, UpInv, UpTypes
<1>2. \A i \in 1..Len(storReplies) : storReplies[i] \in Final => i = Len(storReplies) /\ server = "over"
  BY DEF UpInv, RepliesFit
<1>3. ~controlDone /\ (server = "over" => storReplies[Len(storReplies)] \in Final)
  BY <1>1 DEF UpInv, RepliesFit
<1>4. /\ Head(storReplies) \in UpReplies /\ p \in Seq(UpReplies)
      /\ \A i \in 1..Len(p) : p[i] \in Final => i = Len(p)
      /\ Head(storReplies) \in Final => p = <<>>
      /\ Head(storReplies) \notin Final /\ storReplies[Len(storReplies)] \in Final =>
           Len(p) > 0 /\ p[Len(p)] \in Final
      /\ (\E i \in 1..Len(p) : p[i] = "2xx") \/ Head(storReplies) = "2xx" =>
           \E i \in 1..Len(storReplies) : storReplies[i] = "2xx"
  BY <1>1, <1>2, NextReply
<1>5. Head(storReplies) = storReplies[1] /\ 1 \in 1..Len(storReplies)
      /\ \A i \in 1..Len(p) : i + 1 \in 1..Len(storReplies) /\ p[i] = storReplies[i + 1]
  <2>1. /\ Head(storReplies) = storReplies[1] /\ Len(storReplies) \in Nat \ {0}
        /\ Len(p) = Len(storReplies) - 1
        /\ \A i \in 1..(Len(storReplies) - 1) : p[i] = storReplies[i + 1]
    BY <1>1, RestFacts
  <2> HIDE DEF p
  <2> QED BY <2>1
<1> HIDE DEF p
<1>6. \A i \in 1..Len(p) : p[i] \in Final => i = Len(p) /\ server = "over"
  BY <1>2, <1>4, <1>5
<1>7. Head(storReplies) \in Final => server = "over" /\ p = <<>>
  BY <1>2, <1>4, <1>5
<1>8. (\E i \in 1..Len(p) : p[i] = "2xx") \/ Head(storReplies) = "2xx" => TwoHundred
  BY <1>4, Zenon DEF TwoHundred
<1>9. Head(storReplies) \notin Final /\ server = "over" => Len(p) > 0 /\ p[Len(p)] \in Final
  BY <1>3, <1>4, Zenon
<1> QED BY <1>1, <1>3, <1>4, <1>6, <1>7, <1>8, <1>9, Zenon DEF RestOfReplies

(* A reply of which the task fails without a reply to blame.                *)
LEMMA DroppedFits ==
  ASSUME UpInv, NEW reply, RestOfReplies(reply), Dropped, dataError' = dataError, UNCHANGED <<fastPath, sourceError, dataDone, upServer, sentAll>>, starts' = starts,
         handedOver' = handedOver, controlDone' \in BOOLEAN, controlDone' <=> (reply = "2xx"), preliminary' \in BOOLEAN,
         preliminary' = preliminary \/ dataError = "broken" \/ ~verdict'.suspect
  PROVE  UpInv'
<1>1. UpTypes'
  BY DEF RestOfReplies, UpInv, UpTypes, UpFlags, Dropped, upServer, upTimers, upEnd, Open, UpReplies, Final
<1>2. UpFlags'
  BY DEF RestOfReplies, UpInv, UpTypes, UpFlags, Dropped, upServer, upTimers, upEnd, Open, UpReplies, Final
<1>3. RepliesFit'
  BY DEF RestOfReplies, UpInv, UpTypes, UpFlags, RepliesFit, Dropped, upServer, upTimers, upEnd, Open, UpReplies, Final
<1>4. DataFits'
  BY DEF RestOfReplies, UpInv, UpTypes, UpFlags, DataFits, TwoHundred, Watched, Dropped, upServer, upTimers, upEnd, Open, UpReplies, Final
<1>5. BlameFits' /\ BlameFair'
  BY DEF RestOfReplies, UpInv, UpTypes, UpFlags, BlameFits, BlameFair, Watched, Dropped, upServer, upTimers, upEnd, Open, UpReplies, Final
<1>6. Watched'
  BY DEF RestOfReplies, UpInv, UpTypes, UpFlags, Watched, Dropped, upServer, upTimers, upEnd, Open, UpReplies, Final
<1> QED BY <1>1, <1>2, <1>3, <1>4, <1>5, <1>6 DEF UpInv

LEMMA PreliminaryFits ==
  ASSUME UpInv, RestOfReplies("1xx"), Preliminary, UNCHANGED <<fastPath, sourceError, dataDone, upServer, sentAll>>
  PROVE  UpInv'
<1>1. /\ dataError' = dataError /\ controlDone' = controlDone /\ ~controlDone /\ controlDone \in BOOLEAN
      /\ preliminary' = TRUE
  BY DEF Preliminary, RestOfReplies, UpInv, UpFlags
<1>2. CASE handedOver' = handedOver /\ starts' = starts /\ Fails(FALSE, FALSE, TRUE)
  <2>1. Dropped /\ ~verdict'.suspect
    BY <1>2, FailsDrops DEF Fails
  <2> QED BY <1>1, <1>2, <2>1, DroppedFits
<1>3. CASE ~preliminary /\ dataError # "none" /\ handedOver' = handedOver /\ starts' = starts
           /\ CloseWithError(dataError = "broken")
  <2>1. (dataError = "broken") \in BOOLEAN /\ fastPath
    BY <1>3 DEF UpInv, BlameFits
  <2>2. Dropped
    BY <1>1, <1>3, <2>1, FailsDrops, Zenon DEF CloseWithError
  <2>3. dataError = "broken" \/ ~verdict'.suspect
    BY <1>3 DEF CloseWithError, Fails
  <2> QED BY <1>1, <1>3, <2>2, <2>3, DroppedFits
<1>4. CASE UNCHANGED <<verdict, upTask>>
  <2>1. UpTypes'
    <3>1. storReplies' \in Seq(UpReplies) /\ upTask' = upTask /\ verdict' = verdict /\ dataError' = dataError
      BY <1>1, <1>4 DEF RestOfReplies
    <3>2. starts' \in {0, 1} /\ upData' \in {"connecting", "up", "tls", "sending", "ended", "closed"}
      BY <1>4 DEF UpInv, UpTypes, Preliminary, CloseWithError, Fails, StartSource
    <3> QED BY <3>1, <3>2 DEF UpInv, UpTypes, upServer
  <2>2. UpFlags'
    BY <1>4 DEF RestOfReplies, UpInv, UpTypes, UpFlags, Preliminary, Fails, CloseWithError, StartSource, Socket, upServer, upTimers, upEnd, Open, UpReplies, Final
  <2>3. RepliesFit'
    BY <1>4 DEF RestOfReplies, UpInv, UpTypes, UpFlags, RepliesFit, Preliminary, Fails, CloseWithError, StartSource, Socket, upServer, upTimers, upEnd, Open, UpReplies, Final
  <2>4. DataFits'
    BY <1>4 DEF RestOfReplies, UpInv, UpTypes, UpFlags, DataFits, TwoHundred, Watched, Preliminary, Fails, CloseWithError, StartSource, Socket, upServer, upTimers, upEnd, Open, UpReplies, Final
  <2>5. BlameFits' /\ BlameFair'
    BY <1>4 DEF RestOfReplies, UpInv, UpTypes, UpFlags, BlameFits, BlameFair, Watched, Preliminary, Fails, CloseWithError, StartSource, Socket, upServer, upTimers, upEnd, Open, UpReplies, Final
  <2>6. Watched'
    BY <1>4 DEF RestOfReplies, UpInv, UpTypes, UpFlags, Watched, Preliminary, Fails, CloseWithError, StartSource, Socket, upServer, upTimers, upEnd, Open, UpReplies, Final
  <2> QED BY <2>1, <2>2, <2>3, <2>4, <2>5, <2>6 DEF UpInv
<1> QED BY <1>2, <1>3, <1>4 DEF Preliminary, StartSource, upEnd

LEMMA CompletionFits ==
  ASSUME UpInv, RestOfReplies("2xx"), Completion, UNCHANGED <<fastPath, sourceError, dataDone, upServer, sentAll>>
  PROVE  UpInv'
<1>1. /\ dataError' = dataError /\ controlDone' = TRUE /\ ~controlDone /\ preliminary' = preliminary
      /\ handedOver' = handedOver /\ starts' = starts
  BY DEF Completion, RestOfReplies
<1>2. CASE dataError # "none"
  <2>1. (dataError = "broken") \in BOOLEAN /\ fastPath /\ preliminary \in BOOLEAN
    BY <1>2 DEF UpInv, UpFlags, BlameFits
  <2>2. Dropped
    BY <1>1, <1>2, <2>1, FailsDrops, Zenon DEF Completion
  <2> QED BY <1>1, <2>1, <2>2, DroppedFits
<1>3. CASE dataError = "none"
  <2>1. UpTypes'
    <3>1. CASE Resolves
      BY <1>1, <3>1, ResolvesFacts DEF RestOfReplies, UpInv, UpTypes, upServer
    <3>2. CASE UNCHANGED <<upData, upTimers, upEnd>>
      BY ZenonT(60), <1>1, <3>2 DEF RestOfReplies, UpInv, UpTypes, upServer, upEnd
    <3> QED BY <1>3, <3>1, <3>2 DEF Completion
  <2>2. UpFlags'
    BY <1>3 DEF RestOfReplies, UpInv, UpTypes, UpFlags, Completion, BothDone, Resolves, SizeChecked, upServer, upTimers, upEnd, Open, UpReplies, Final
  <2>3. RepliesFit'
    BY <1>3 DEF RestOfReplies, UpInv, UpTypes, UpFlags, RepliesFit, Completion, BothDone, Resolves, SizeChecked, upServer, upTimers, upEnd, Open, UpReplies, Final
  <2>4. DataFits'
    BY <1>3 DEF RestOfReplies, UpInv, UpTypes, UpFlags, DataFits, TwoHundred, Watched, Completion, BothDone, Resolves, SizeChecked, upServer, upTimers, upEnd, Open, UpReplies, Final
  <2>5. BlameFits' /\ BlameFair'
    BY <1>3 DEF RestOfReplies, UpInv, UpTypes, UpFlags, BlameFits, BlameFair, Watched, Completion, BothDone, Resolves, SizeChecked, upServer, upTimers, upEnd, Open, UpReplies, Final
  <2>6. Watched'
    BY <1>3 DEF RestOfReplies, UpInv, UpTypes, UpFlags, Watched, Completion, BothDone, Resolves, SizeChecked, upServer, upTimers, upEnd, Open, UpReplies, Final
  <2> QED BY <2>1, <2>2, <2>3, <2>4, <2>5, <2>6 DEF UpInv
<1> QED BY <1>2, <1>3

LEMMA ErrorReplyFits ==
  ASSUME UpInv, NEW code \in {"425", "550"}, RestOfReplies(code), ErrorReply(code),
         UNCHANGED <<fastPath, sourceError, dataDone, upServer, sentAll>>
  PROVE  UpInv'
<1>1. UpTypes'
  BY DEF RestOfReplies, UpInv, UpTypes, UpFlags, ErrorReply, Fails, CloseWithError, BothDone, Resolves, SizeChecked, StartSource, upServer, upTimers, upEnd, Socket, Open, UpReplies, Final
<1>2. UpFlags'
  BY DEF RestOfReplies, UpInv, UpTypes, UpFlags, ErrorReply, Fails, CloseWithError, BothDone, Resolves, SizeChecked, StartSource, upServer, upTimers, upEnd, Socket, Open, UpReplies, Final
<1>3. RepliesFit'
  BY DEF RestOfReplies, UpInv, UpTypes, UpFlags, RepliesFit, ErrorReply, Fails, CloseWithError, BothDone, Resolves, SizeChecked, StartSource, upServer, upTimers, upEnd, Socket, Open, UpReplies, Final
<1>4. DataFits'
  BY DEF RestOfReplies, UpInv, UpTypes, UpFlags, DataFits, TwoHundred, Watched, ErrorReply, Fails, CloseWithError, BothDone, Resolves, SizeChecked, StartSource, upServer, upTimers, upEnd, Socket, Open, UpReplies, Final
<1>5. BlameFits' /\ BlameFair'
  BY DEF RestOfReplies, UpInv, UpTypes, UpFlags, BlameFits, BlameFair, Watched, ErrorReply, Fails, CloseWithError, BothDone, Resolves, SizeChecked, StartSource, upServer, upTimers, upEnd, Socket, Open, UpReplies, Final
<1>6. Watched'
  BY DEF RestOfReplies, UpInv, UpTypes, UpFlags, Watched, ErrorReply, Fails, CloseWithError, BothDone, Resolves, SizeChecked, StartSource, upServer, upTimers, upEnd, Socket, Open, UpReplies, Final
<1> QED BY <1>1, <1>2, <1>3, <1>4, <1>5, <1>6 DEF UpInv

LEMMA ReplyFits ==
  ASSUME UpInv, Reply
  PROVE  UpInv'
<1> DEFINE reply == Head(storReplies)
<1>1. RestOfReplies(reply) /\ UNCHANGED <<fastPath, sourceError, dataDone, upServer, sentAll>>
  BY ReplyTaken DEF Reply
<1>2. CASE reply = "1xx" /\ Preliminary
  BY <1>1, <1>2, PreliminaryFits
<1>3. CASE reply = "2xx" /\ Completion
  BY <1>1, <1>3, CompletionFits
<1>4. CASE reply \in {"425", "550"} /\ ErrorReply(reply)
  BY <1>1, <1>4, ErrorReplyFits
<1> QED BY <1>2, <1>3, <1>4 DEF Reply

(* The inductive invariant: which replies can be on their way at each stage *)
(* of the server, what it has of the file when it says 2xx, and what was    *)
(* seen before the fast path is blamed (fastTransfer.ts).                   *)
THEOREM UpInvariance == UpSpec => []UpInv
<1>1. UpInit => UpInv
  <2> SUFFICES ASSUME UpInit PROVE UpInv
    OBVIOUS
  <2>1. UpTypes
    <3>1. storReplies = <<>>
      BY DEF UpInit
    <3>2. storReplies \in Seq(UpReplies)
      BY <3>1
    <3> QED BY <3>2 DEF UpInit, UpTypes
  <2>2. UpFlags
    BY DEF UpInit, UpFlags
  <2>3. RepliesFit
    <3>1. storReplies = <<>> /\ Len(storReplies) = 0 /\ server = "stor" /\ ~controlDone /\ upTask = "open"
      BY DEF UpInit
    <3> QED BY <3>1 DEF RepliesFit
  <2>4. DataFits
    <3>1. storReplies = <<>> /\ Len(storReplies) = 0 /\ ~controlDone /\ ~dataDone /\ upTask = "open"
      BY DEF UpInit
    <3> QED BY <3>1 DEF DataFits, TwoHundred
  <2>5. BlameFits /\ Watched /\ BlameFair
    BY DEF UpInit, BlameFits, Watched, BlameFair, Open
  <2> QED BY <2>1, <2>2, <2>3, <2>4, <2>5 DEF UpInv
<1>2. UpInv /\ [UpNext]_upVars => UpInv'
  <2> SUFFICES ASSUME UpInv, [UpNext]_upVars PROVE UpInv'
    OBVIOUS
  <2>1. CASE UpProgress
    BY <2>1, ConnectedFits, ConnectFailsFits, SecureConnectFits, SourceSentFits, DataDoneFits, SourceFailsFits,
       DataBreaksFits, ReplyFits, ControlFailsFits, Zenon DEF UpProgress
  <2>2. CASE ServerBegins \/ ServerCompletes \/ ServerRefuses
    BY <2>2, ServerFits
  <2>3. CASE \E how \in {"fin", "reset"} : ServerEndsData(how)
    BY <2>3, ServerEndsDataFits
  <2>4. CASE UNCHANGED upVars
    <3>1. UpTypes' /\ UpFlags'
      <4>1. UpTypes'
        BY ZenonT(60), <2>4 DEF upVars, UpInv, UpTypes
      <4>2. UpFlags'
        BY <2>4 DEF upVars, UpInv, UpFlags
      <4> QED BY <4>1, <4>2
    <3>2. RepliesFit'
      BY <2>4 DEF upVars, UpInv, RepliesFit, Open
    <3>3. DataFits'
      BY <2>4 DEF upVars, UpInv, DataFits, TwoHundred, Open
    <3>4. BlameFits' /\ Watched' /\ BlameFair'
      BY <2>4 DEF upVars, UpInv, BlameFits, Watched, BlameFair, Open
    <3> QED BY <3>1, <3>2, <3>3, <3>4 DEF UpInv
  <2> QED BY <2>1, <2>2, <2>3, <2>4, Zenon DEF UpNext
<1> QED BY <1>1, <1>2, PTL DEF UpSpec

(* A success is the whole file on the server, a client that is used again   *)
(* has no reply of this upload to come, some timer runs while the upload is *)
(* open and none afterwards, and the blame is fair, in every order of       *)
(* replies, errors and ends (tryResolve(), onEarlyDataError(), run()).      *)
THEOREM UpIsSafe == UpSpec => []UpSafe
<1>1. UpInv => UpSafe
  <2> SUFFICES ASSUME UpInv PROVE UpSafe
    OBVIOUS
  <2>1. UpTypeOK
    <3>1. {fastPath, handedOver, preliminary, controlDone, sourceError, dataDone, sentAll, ctrlOpen, ctrlTimer,
            watchdog} \subseteq BOOLEAN
      BY Zenon DEF UpInv, UpFlags
    <3>2. starts \in 0..1
      <4>1. starts \in {0, 1}
        BY DEF UpInv, UpTypes
      <4> QED BY <4>1
    <3> QED BY <3>1, <3>2, Zenon DEF UpTypeOK, UpInv, UpTypes
  <2>2. SuccessWhole /\ RepliesDrained /\ Watched /\ BlameFair
    BY DEF UpInv, UpTypes, UpFlags, DataFits, RepliesFit, SuccessWhole, RepliesDrained, UsedAgain
  <2> QED BY <2>1, <2>2 DEF UpSafe
<1> QED BY <1>1, UpInvariance, PTL

-----------------------------------------------------------------------------
(* The ranges of a split download (RangePlan): the arithmetic of            *)
(* planSegments(), the pieces it cuts a file into, and the invariant.       *)

LEMMA DivisionFacts ==
  ASSUME NEW a \in Nat, NEW b \in Nat \ {0}
  PROVE  a \div b \in Nat /\ a % b \in 0..(b - 1) /\ a = b * (a \div b) + (a % b)
OBVIOUS

LEMMA TimesMonotone ==
  ASSUME NEW a \in Nat, NEW b \in Nat, NEW c \in Nat, a <= b
  PROVE  a * c \in Nat /\ b * c \in Nat /\ a * c <= b * c
<1> DEFINE d == b - a
<1>1. d \in Nat /\ b = a + d
  OBVIOUS
<1>2. (a + d) * c = a * c + d * c
  BY <1>1
<1>3. a * c \in Nat /\ d * c \in Nat
  BY <1>1
<1> HIDE DEF d
<1> QED BY <1>1, <1>2, <1>3

(* There are never more ranges than bytes.                                 *)
LEMMA RangeCountFacts ==
  ASSUME NEW size \in Nat, NEW limit \in Nat, RangeCount(size, limit) >= 2
  PROVE  RangeCount(size, limit) \in 2..size
<1> DEFINE s == SegmentSize
           q == CeilDiv(size, s)
<1>1. s \in Nat \ {0}
  BY RangeAssumption
<1>2. size + s - 1 \in Nat
  BY <1>1
<1>3. q \in Nat /\ s * q <= size + s - 1
  <2> DEFINE a == size + s - 1
  <2>1. q = a \div s
    BY DEF CeilDiv
  <2>2. a \div s \in Nat /\ a % s \in 0..(s - 1) /\ a = s * (a \div s) + (a % s)
    BY <1>1, <1>2, DivisionFacts
  <2>3. s * (a \div s) \in Nat /\ a \in Nat
    BY <2>2, <1>1, <1>2
  <2> HIDE DEF a, q, s
  <2>4. s * q <= a
    BY <2>1, <2>2, <2>3
  <2> QED BY <2>1, <2>2, <2>4 DEF a
<1>4. RangeCount(size, limit) \in Nat /\ RangeCount(size, limit) <= q
  BY <1>3 DEF RangeCount, Smaller
<1> HIDE DEF q, s
<1>5. ASSUME q > size PROVE FALSE
  <2>1. (size + 1) * s <= q * s
    BY <1>1, <1>3, <1>5, TimesMonotone
  <2>2. size >= 1 => 1 * size <= s * size
    BY <1>1, TimesMonotone
  <2>3. (size + 1) * s = s * size + s /\ q * s = s * q
    BY <1>1, <1>3
  <2>4. size = 0 => s * q <= s - 1 /\ 2 * s <= q * s
    <3>1. 2 * s <= q * s
      BY <1>1, <1>3, <1>4, TimesMonotone
    <3> QED BY <3>1, <1>3, <1>1
  <2>5. s * q \in Nat /\ s * size \in Nat
    BY <1>1, <1>3
  <2>6. CASE size = 0
    BY <2>4, <2>6, <2>3, <2>5, <1>1
  <2>7. CASE size >= 1
    BY <2>1, <2>2, <2>3, <2>5, <2>7, <1>1, <1>3
  <2> QED BY <2>6, <2>7
<1> QED BY <1>3, <1>4, <1>5

(* The starts of the ranges grow, from 0 to the size.                      *)
LEMMA RangeStartFacts ==
  ASSUME NEW size \in Nat, NEW n \in 2..size
  PROVE  /\ \A i \in 0..n : RangeStart(size, n, i) \in Nat
         /\ RangeStart(size, n, 0) = 0 /\ RangeStart(size, n, n) = size
         /\ \A i, j \in 0..n : i < j => RangeStart(size, n, i) < RangeStart(size, n, j)
<1> DEFINE base == size \div n
           extra == size % n
<1>1. base \in Nat /\ extra \in 0..(n - 1) /\ size = n * base + extra
  <2>1. n \in Nat \ {0}
    OBVIOUS
  <2> QED BY <2>1, DivisionFacts
<1>2. \A i : RangeStart(size, n, i) = i * base + Smaller(i, extra)
  BY DEF RangeStart
<1> HIDE DEF base, extra
<1>3. base >= 1
  <2>1. base = 0 => n * base = 0
    BY <1>1
  <2> QED BY <1>1, <2>1
<1>4. ASSUME NEW i \in 0..n PROVE i * base \in Nat /\ Smaller(i, extra) \in Nat
  BY <1>1, <1>4 DEF Smaller
<1>5. ASSUME NEW i \in 0..n, NEW j \in 0..n, i < j
      PROVE  RangeStart(size, n, i) < RangeStart(size, n, j)
  <2>1. (i + 1) * base <= j * base
    BY <1>1, <1>5, TimesMonotone
  <2>2. (i + 1) * base = i * base + base
    BY <1>1
  <2>3. Smaller(i, extra) <= Smaller(j, extra)
    BY <1>1, <1>5 DEF Smaller
  <2>4. i * base \in Nat /\ Smaller(i, extra) \in Nat /\ j * base \in Nat /\ Smaller(j, extra) \in Nat
    BY <1>4
  <2> QED BY <2>1, <2>2, <2>3, <2>4, <1>2, <1>3, <1>1
<1>6. RangeStart(size, n, 0) = 0
  <2>1. 0 * base = 0 /\ Smaller(0, extra) = 0
    BY <1>1 DEF Smaller
  <2> QED BY <2>1, <1>2
<1>7. RangeStart(size, n, n) = size
  <2>1. Smaller(n, extra) = extra
    BY <1>1 DEF Smaller
  <2> QED BY <2>1, <1>2, <1>1
<1>8. \A i \in 0..n : RangeStart(size, n, i) \in Nat
  BY <1>2, <1>4
<1> QED BY <1>5, <1>6, <1>7, <1>8

-----------------------------------------------------------------------------
(* Pieces that cut a file: they follow each other from 0 to its size, none  *)
(* is empty, no two overlap, every byte is in one, and the last is final.   *)
Pieces(p, size) ==
  /\ Len(p) >= 1 /\ p[1].start = 0 /\ p[Len(p)].end = size
  /\ \A i \in 1..Len(p) :
       /\ p[i].start \in Nat /\ p[i].end \in Nat /\ p[i].start < p[i].end /\ p[i].end <= size
       /\ p[i].final = (i = Len(p))
       /\ i > 1 => p[i].start = p[i - 1].end
  /\ \A i, k \in 1..Len(p) : i < k => p[i].end <= p[k].start
  /\ \A x \in 0..(size - 1) : \E i \in 1..Len(p) : p[i].start <= x /\ x < p[i].end

PlanPiece == [start : Nat, end : Nat, final : BOOLEAN]

LEMMA PlanIsPieces ==
  ASSUME NEW size \in Nat, NEW limit \in Nat, NEW minSize \in Nat,
         PlanSegments(size, limit, minSize) # <<>>
  PROVE  LET p == PlanSegments(size, limit, minSize) IN
         p \in Seq(PlanPiece) /\ Len(p) >= 2 /\ Pieces(p, size)
<1> DEFINE n == RangeCount(size, limit)
           p == PlanSegments(size, limit, minSize)
           at(i) == RangeStart(size, n, i)
<1>1. n >= 2 /\ p = [i \in 1..n |-> [start |-> at(i - 1), end |-> at(i), final |-> i = n]]
  <2>1. ~(n < 2)
    BY DEF PlanSegments
  <2>2. n \in Int
    <3>1. SegmentSize \in Nat \ {0}
      BY RangeAssumption
    <3>2. size + SegmentSize - 1 \in Nat
      BY <3>1
    <3>3. CeilDiv(size, SegmentSize) \in Nat
      BY <3>1, <3>2, DivisionFacts DEF CeilDiv
    <3> QED BY <3>3 DEF RangeCount, Smaller
  <2> QED BY <2>1, <2>2 DEF PlanSegments
<1>2. n \in 2..size
  BY <1>1, RangeCountFacts
<1>3. /\ \A i \in 0..n : at(i) \in Nat
      /\ at(0) = 0 /\ at(n) = size
      /\ \A i, k \in 0..n : i < k => at(i) < at(k)
  BY <1>2, RangeStartFacts
<1> HIDE DEF n, p, at
<1>4. \A i \in 0..n : at(i) <= size
  <2> TAKE i \in 0..n
  <2>1. CASE i = n
    BY <2>1, <1>3
  <2>2. CASE i < n
    BY <2>2, <1>2, <1>3
  <2> QED BY <2>1, <2>2, <1>2
<1>5. p \in Seq(PlanPiece) /\ Len(p) = n
  <2>1. \A i \in 1..n : [start |-> at(i - 1), end |-> at(i), final |-> i = n] \in PlanPiece
    BY <1>2, <1>3 DEF PlanPiece
  <2>2. p \in [1..n -> PlanPiece]
    BY <1>1, <2>1
  <2> QED BY <1>2, <2>2
<1>6. \A i \in 1..n : /\ p[i].start = at(i - 1) /\ p[i].end = at(i) /\ p[i].final = (i = n)
  BY <1>1
<1>7. ASSUME NEW i \in 1..n
      PROVE  /\ p[i].start \in Nat /\ p[i].end \in Nat /\ p[i].start < p[i].end /\ p[i].end <= size
             /\ i > 1 => p[i].start = p[i - 1].end
  <2>1. i \in 0..n /\ i - 1 \in 0..n
    BY <1>2
  <2> QED BY <2>1, <1>3, <1>4, <1>6, <1>2
<1>8. ASSUME NEW i \in 1..n, NEW k \in 1..n, i < k
      PROVE  p[i].end <= p[k].start
  <2>1. CASE i = k - 1
    BY <2>1, <1>3, <1>6, <1>2
  <2>2. CASE i < k - 1
    <3>1. at(i) < at(k - 1) /\ at(i) \in Nat /\ at(k - 1) \in Nat
      BY <2>2, <1>2, <1>3
    <3> QED BY <3>1, <1>6
  <2> QED BY <2>1, <2>2, <1>8, <1>2
<1>9. ASSUME NEW x \in 0..(size - 1)
      PROVE  \E i \in 1..n : p[i].start <= x /\ x < p[i].end
  <2> DEFINE T == {i \in 0..n : x < at(i)}
  <2>1. n \in T /\ T \subseteq Nat
    BY <1>2, <1>3
  <2>2. PICK i \in T : \A k \in T : i <= k
    BY <2>1, LeastOf
  <2>3. i # 0 /\ i - 1 \in 0..n /\ i - 1 \notin T
    BY <2>2, <1>3, <1>2
  <2>4. at(i - 1) <= x
    BY <2>3, <1>3
  <2> QED BY <2>2, <2>3, <2>4, <1>6, <1>2
<1>10. p[1].start = 0 /\ p[n].end = size
  BY <1>2, <1>3, <1>6
<1>11. \A i \in 1..n : p[i].final = (i = n)
  BY <1>6
<1>12. Pieces(p, size)
  BY <1>2, <1>5, <1>7, <1>8, <1>9, <1>10, <1>11 DEF Pieces
<1> QED BY <1>2, <1>5, <1>12 DEF p

(* Only where the pieces lie matters.                                      *)
LEMMA PiecesKept ==
  ASSUME NEW size \in Nat, NEW p, NEW q, Pieces(p, size), Len(q) = Len(p), Len(p) \in Nat,
         \A i \in 1..Len(p) : q[i].start = p[i].start /\ q[i].end = p[i].end /\ q[i].final = p[i].final
  PROVE  Pieces(q, size)
<1>1. 1 \in 1..Len(p) /\ Len(p) \in 1..Len(p)
  BY DEF Pieces
<1>2. ASSUME NEW i \in 1..Len(p), i > 1 PROVE i - 1 \in 1..Len(p)
  BY <1>2
<1>3. q[1].start = 0 /\ q[Len(q)].end = size
  BY <1>1 DEF Pieces
<1>4. \A i \in 1..Len(q) : q[i].final = (i = Len(q))
  BY DEF Pieces
<1>5. \A i \in 1..Len(q) :
        /\ q[i].start \in Nat /\ q[i].end \in Nat /\ q[i].start < q[i].end /\ q[i].end <= size
        /\ i > 1 => q[i].start = q[i - 1].end
  BY <1>2 DEF Pieces
<1>6. \A i, k \in 1..Len(q) : i < k => q[i].end <= q[k].start
  BY DEF Pieces
<1>7. \A x \in 0..(size - 1) : \E i \in 1..Len(q) : q[i].start <= x /\ x < q[i].end
  BY DEF Pieces
<1> QED BY <1>1, <1>3, <1>4, <1>5, <1>6, <1>7 DEF Pieces

-----------------------------------------------------------------------------
(* The inductive invariant: the ranges cut the file; no range has received  *)
(* more than its part nor more than the file; what it has is on the disk;   *)
(* the count is that of the ranges under way and the sum that of the bytes  *)
(* of the settled ones, which no two of them share.                         *)
RangeRecord == [start : Nat, end : Nat, final : BOOLEAN, got : Nat, held : Nat, done : BOOLEAN]

PlanTypes ==
  /\ fileSize \in Nat /\ ranges \in Seq(RangeRecord) /\ whole \in BOOLEAN
  /\ sumWritten \in Nat /\ openRanges \in Nat /\ onDisk \subseteq 0..(fileSize - 1)

InPlace(r, disk) ==
  /\ r.start + r.got <= r.end /\ r.start + r.got + r.held <= fileSize
  /\ r.done => r.start + r.got = r.end
  /\ r.start..(r.start + r.got - 1) \subseteq disk

Unsettled(rs) == {k \in 1..Len(rs) : ~rs[k].done}
Settled(rs) == {x \in 0..(fileSize - 1) : \E k \in 1..Len(rs) : rs[k].done /\ rs[k].start <= x /\ x < rs[k].end}

PlanInv ==
  /\ PlanTypes
  /\ ranges # <<>> => Pieces(ranges, fileSize)
  /\ \A k \in 1..Len(ranges) : InPlace(ranges[k], onDisk)
  /\ whole => Len(ranges) = 1
  /\ openRanges = Cardinality(Unsettled(ranges))
  /\ sumWritten = Cardinality(Settled(ranges))
  /\ overflowed = FALSE

(* A step of one range leaves the others and the places alone.              *)
LEMMA OneRange ==
  ASSUME PlanTypes, NEW i \in 1..Len(ranges), NEW r \in RangeRecord,
         r.start = ranges[i].start, r.end = ranges[i].end, r.final = ranges[i].final,
         Pieces(ranges, fileSize)
  PROVE  LET q == [ranges EXCEPT ![i] = r] IN
         /\ q \in Seq(RangeRecord) /\ Len(q) = Len(ranges) /\ q # <<>> /\ Pieces(q, fileSize)
         /\ q[i] = r /\ \A k \in 1..Len(ranges) \ {i} : q[k] = ranges[k]
<1> DEFINE q == [ranges EXCEPT ![i] = r]
<1>1. q \in Seq(RangeRecord) /\ Len(q) = Len(ranges) /\ q # <<>> /\ Len(ranges) \in Nat
  BY DEF PlanTypes
<1>2. q[i] = r /\ \A k \in 1..Len(ranges) \ {i} : q[k] = ranges[k]
  BY DEF PlanTypes
<1>3. \A k \in 1..Len(ranges) :
        q[k].start = ranges[k].start /\ q[k].end = ranges[k].end /\ q[k].final = ranges[k].final
  BY <1>2
<1>4. fileSize \in Nat
  BY DEF PlanTypes
<1> HIDE DEF q
<1>5. Pieces(q, fileSize)
  BY <1>1, <1>3, <1>4, PiecesKept
<1> QED BY <1>1, <1>2, <1>5 DEF q

LEMMA RangeFacts ==
  ASSUME PlanInv, NEW i \in 1..Len(ranges)
  PROVE  /\ ranges # <<>> /\ Pieces(ranges, fileSize)
         /\ ranges[i] \in RangeRecord /\ InPlace(ranges[i], onDisk)
         /\ ranges[i].start < ranges[i].end /\ ranges[i].end <= fileSize
         /\ ranges[i].final = (i = Len(ranges)) /\ ranges[Len(ranges)].end = fileSize
<1>1. PlanTypes /\ ranges # <<>>
  BY DEF PlanInv, PlanTypes
<1>2. Pieces(ranges, fileSize) /\ InPlace(ranges[i], onDisk)
  BY <1>1 DEF PlanInv
<1>3. ranges[i] \in RangeRecord
  BY <1>1 DEF PlanTypes
<1> QED BY <1>1, <1>2, <1>3 DEF Pieces

(* A step of one range that settles nothing.                               *)
LEMMA StepOfRange ==
  ASSUME PlanInv, NEW i \in 1..Len(ranges), NEW r \in RangeRecord, ranges' = [ranges EXCEPT ![i] = r],
         r.start = ranges[i].start, r.end = ranges[i].end, r.final = ranges[i].final,
         r.done = ranges[i].done, InPlace(r, onDisk'), onDisk \subseteq onDisk',
         onDisk' \subseteq 0..(fileSize - 1), overflowed' = FALSE,
         UNCHANGED <<fileSize, whole, sumWritten, openRanges>>
  PROVE  PlanInv'
<1>1. PlanTypes /\ Pieces(ranges, fileSize)
  BY RangeFacts DEF PlanInv
<1>2. /\ ranges' \in Seq(RangeRecord) /\ Len(ranges') = Len(ranges) /\ ranges' # <<>> /\ Pieces(ranges', fileSize)
      /\ ranges'[i] = r /\ \A k \in 1..Len(ranges) \ {i} : ranges'[k] = ranges[k]
  <2> DEFINE q == [ranges EXCEPT ![i] = r]
  <2>1. /\ q \in Seq(RangeRecord) /\ Len(q) = Len(ranges) /\ q # <<>> /\ Pieces(q, fileSize)
        /\ q[i] = r /\ \A k \in 1..Len(ranges) \ {i} : q[k] = ranges[k]
    BY <1>1, OneRange, Zenon
  <2>2. ranges' = q
    OBVIOUS
  <2> HIDE DEF q
  <2> QED BY <2>1, <2>2, Zenon
<1>3. PlanTypes'
  BY <1>1, <1>2 DEF PlanTypes
<1>4. Pieces(ranges', fileSize')
  BY <1>2
<1>5. ASSUME NEW k \in 1..Len(ranges') PROVE InPlace(ranges'[k], onDisk')
  <2>1. CASE k = i
    BY <2>1, <1>2
  <2>2. CASE k # i
    <3>1. ranges'[k] = ranges[k] /\ InPlace(ranges[k], onDisk)
      BY <2>2, <1>2 DEF PlanInv
    <3> QED BY <3>1 DEF InPlace
  <2> QED BY <2>1, <2>2
<1>6. \A k \in 1..Len(ranges) : /\ ranges'[k].done = ranges[k].done
                                /\ ranges'[k].start = ranges[k].start /\ ranges'[k].end = ranges[k].end
  BY <1>2
<1>7. Unsettled(ranges)' = Unsettled(ranges)
  BY <1>2, <1>6 DEF Unsettled
<1>8. Settled(ranges)' = Settled(ranges)
  BY <1>2, <1>6 DEF Settled
<1>9. /\ (whole => Len(ranges) = 1)'
      /\ (openRanges = Cardinality(Unsettled(ranges)))'
      /\ (sumWritten = Cardinality(Settled(ranges)))'
  <2>1. /\ whole => Len(ranges) = 1
        /\ openRanges = Cardinality(Unsettled(ranges))
        /\ sumWritten = Cardinality(Settled(ranges))
    BY DEF PlanInv
  <2> QED BY <2>1, <1>2, <1>7, <1>8
<1>10. (\A k \in 1..Len(ranges) : InPlace(ranges[k], onDisk))'
  BY <1>5 DEF InPlace
<1> QED BY <1>3, <1>4, <1>9, <1>10 DEF PlanInv

LEMMA ArriveStep ==
  ASSUME PlanInv, NEW i \in 1..Len(ranges), Arrive(i)
  PROVE  PlanInv'
<1>1. PICK n \in 1..2 : /\ ranges[i].start + ranges[i].got + ranges[i].held + n <= fileSize
                        /\ ranges' = [ranges EXCEPT ![i].held = @ + n]
  BY DEF Arrive
<1> DEFINE r == [ranges[i] EXCEPT !.held = @ + n]
<1>2. ranges[i] \in RangeRecord /\ InPlace(ranges[i], onDisk) /\ onDisk \subseteq 0..(fileSize - 1)
  BY RangeFacts DEF PlanInv, PlanTypes
<1>3. /\ r \in RangeRecord /\ r.start = ranges[i].start /\ r.end = ranges[i].end /\ r.final = ranges[i].final
      /\ r.done = ranges[i].done /\ r.got = ranges[i].got /\ r.held = ranges[i].held + n
  BY <1>2 DEF RangeRecord
<1>4. ranges' = [ranges EXCEPT ![i] = r]
  BY <1>1
<1>5. /\ UNCHANGED <<fileSize, whole, sumWritten, openRanges, onDisk, overflowed>> /\ overflowed = FALSE
  BY DEF Arrive, PlanInv
<1> HIDE DEF r
<1>6. InPlace(r, onDisk')
  BY <1>1, <1>2, <1>3, <1>5 DEF InPlace, RangeRecord
<1> QED BY <1>2, <1>3, <1>4, <1>5, <1>6, StepOfRange

LEMMA WriteOutStep ==
  ASSUME PlanInv, NEW i \in 1..Len(ranges), WriteOut(i)
  PROVE  PlanInv'
<1> DEFINE take == Smaller(ranges[i].held, Length(ranges[i]) - ranges[i].got)
           r == [ranges[i] EXCEPT !.got = @ + take, !.held = 0]
<1>1. /\ ~ranges[i].done /\ ranges[i].held > 0
      /\ ranges' = [ranges EXCEPT ![i] = r]
      /\ onDisk' = onDisk \cup (ranges[i].start + ranges[i].got)..(ranges[i].start + ranges[i].got + take - 1)
      /\ overflowed' = (overflowed \/ (ranges[i].final /\ ranges[i].held > take))
      /\ UNCHANGED <<fileSize, whole, sumWritten, openRanges>>
  BY DEF WriteOut
<1>2. /\ ranges[i] \in RangeRecord /\ InPlace(ranges[i], onDisk) /\ onDisk \subseteq 0..(fileSize - 1)
      /\ ranges[i].start < ranges[i].end /\ ranges[i].end <= fileSize /\ fileSize \in Nat
      /\ ranges[i].final = (i = Len(ranges)) /\ ranges[Len(ranges)].end = fileSize
  BY RangeFacts DEF PlanInv, PlanTypes
<1>3. /\ take \in Nat /\ take <= ranges[i].held /\ ranges[i].start + ranges[i].got + take <= ranges[i].end
      /\ ranges[i].held > take => ranges[i].start + ranges[i].got + take = ranges[i].end
  BY <1>2 DEF RangeRecord, InPlace, Smaller, Length
<1> HIDE DEF take
<1>4. /\ r \in RangeRecord /\ r.start = ranges[i].start /\ r.end = ranges[i].end /\ r.final = ranges[i].final
      /\ r.done = ranges[i].done /\ r.got = ranges[i].got + take /\ r.held = 0
  <2>1. ranges[i].got + take \in Nat
    BY <1>2, <1>3 DEF RangeRecord
  <2>2. r = [ranges[i] EXCEPT !.got = ranges[i].got + take, !.held = 0]
    OBVIOUS
  <2> HIDE DEF r
  <2> QED BY <2>1, <2>2, <1>2 DEF RangeRecord
<1> HIDE DEF r
<1>5. onDisk \subseteq onDisk' /\ onDisk' \subseteq 0..(fileSize - 1)
  <2> DEFINE a == ranges[i].start + ranges[i].got
             b == ranges[i].start + ranges[i].got + take - 1
  <2>1. a \in Nat /\ b \in Int /\ b <= fileSize - 1
    BY SMTT(30), <1>2, <1>3 DEF RangeRecord
  <2>2. onDisk' = onDisk \cup a..b
    BY <1>1
  <2> HIDE DEF a, b
  <2>3. a..b \subseteq 0..(fileSize - 1)
    BY <2>1, <1>2
  <2> QED BY <2>2, <2>3, <1>2
<1>6. InPlace(r, onDisk')
  BY SMTT(30), <1>1, <1>2, <1>3, <1>4 DEF InPlace, RangeRecord
<1>7. overflowed' = FALSE
  <2>1. ~(ranges[i].final /\ ranges[i].held > take)
    <3> SUFFICES ASSUME ranges[i].final, ranges[i].held > take PROVE FALSE
      OBVIOUS
    <3>1. i = Len(ranges)
      BY <1>2, Zenon
    <3>2. ranges[i].end = fileSize
      BY <3>1, <1>2
    <3> QED BY <3>2, <1>2, <1>3 DEF InPlace, RangeRecord
  <2>2. overflowed = FALSE
    BY DEF PlanInv
  <2> QED BY <2>1, <2>2, <1>1
<1> QED BY <1>1, <1>4, <1>5, <1>6, <1>7, StepOfRange

LEMMA RangeBreaksStep ==
  ASSUME PlanInv, NEW i \in 1..Len(ranges), RangeBreaks(i)
  PROVE  PlanInv'
<1> DEFINE r == [ranges[i] EXCEPT !.got = 0, !.held = 0]
<1>1. /\ ~ranges[i].done /\ ranges' = [ranges EXCEPT ![i] = r]
      /\ UNCHANGED <<fileSize, whole, sumWritten, openRanges, onDisk, overflowed>>
  BY DEF RangeBreaks
<1>2. /\ ranges[i] \in RangeRecord /\ InPlace(ranges[i], onDisk) /\ onDisk \subseteq 0..(fileSize - 1)
      /\ ranges[i].start < ranges[i].end /\ ranges[i].end <= fileSize /\ fileSize \in Nat
      /\ overflowed = FALSE
  BY RangeFacts DEF PlanInv, PlanTypes
<1>3. /\ r \in RangeRecord /\ r.start = ranges[i].start /\ r.end = ranges[i].end /\ r.final = ranges[i].final
      /\ r.done = ranges[i].done /\ r.got = 0 /\ r.held = 0
  BY <1>2 DEF RangeRecord
<1> HIDE DEF r
<1>4. InPlace(r, onDisk')
  BY <1>1, <1>2, <1>3 DEF InPlace, RangeRecord
<1> QED BY <1>1, <1>2, <1>3, <1>4, StepOfRange

(* A range that has all of its part adds it to the sum, which no settled    *)
(* range has a byte of.                                                    *)
LEMMA RangeReceivedStep ==
  ASSUME PlanInv, NEW i \in 1..Len(ranges), RangeReceived(i)
  PROVE  PlanInv'
<1> DEFINE r == [ranges[i] EXCEPT !.done = TRUE]
           piece == ranges[i].start..(ranges[i].end - 1)
<1>1. /\ ~ranges[i].done /\ ranges[i].got = Length(ranges[i])
      /\ ranges' = [ranges EXCEPT ![i] = r]
      /\ sumWritten' = sumWritten + ranges[i].got /\ openRanges' = openRanges - 1
      /\ UNCHANGED <<fileSize, whole, onDisk, overflowed>>
  BY DEF RangeReceived
<1>2. /\ PlanTypes /\ Pieces(ranges, fileSize)
      /\ ranges[i] \in RangeRecord /\ InPlace(ranges[i], onDisk)
      /\ ranges[i].start < ranges[i].end /\ ranges[i].end <= fileSize /\ fileSize \in Nat
  BY RangeFacts DEF PlanInv, PlanTypes
<1>3. /\ r \in RangeRecord /\ r.start = ranges[i].start /\ r.end = ranges[i].end /\ r.final = ranges[i].final
      /\ r.done = TRUE /\ r.got = ranges[i].got /\ r.held = ranges[i].held
  BY <1>2 DEF RangeRecord
<1>4. /\ ranges' \in Seq(RangeRecord) /\ Len(ranges') = Len(ranges) /\ ranges' # <<>> /\ Pieces(ranges', fileSize)
      /\ ranges'[i] = r /\ \A k \in 1..Len(ranges) \ {i} : ranges'[k] = ranges[k]
  <2> DEFINE q == [ranges EXCEPT ![i] = r]
  <2> HIDE DEF r
  <2>1. /\ q \in Seq(RangeRecord) /\ Len(q) = Len(ranges) /\ q # <<>> /\ Pieces(q, fileSize)
        /\ q[i] = r /\ \A k \in 1..Len(ranges) \ {i} : q[k] = ranges[k]
    BY <1>2, <1>3, OneRange, Zenon
  <2>2. ranges' = q
    BY <1>1
  <2> HIDE DEF q
  <2> QED BY <2>1, <2>2, Zenon
<1> HIDE DEF r
<1>5. IsFiniteSet(Unsettled(ranges)) /\ i \in Unsettled(ranges)
  <2>1. IsFiniteSet(1..Len(ranges))
    BY <1>2, FS_Interval DEF PlanTypes
  <2> QED BY <2>1, <1>1, FS_Subset DEF Unsettled
<1>6. Unsettled(ranges)' = Unsettled(ranges) \ {i}
  BY <1>3, <1>4 DEF Unsettled
<1>7. Cardinality(Unsettled(ranges)') = Cardinality(Unsettled(ranges)) - 1
  BY <1>5, <1>6, FS_RemoveElement
<1>8. Settled(ranges)' = Settled(ranges) \cup piece
  <2>1. ASSUME NEW x \in Settled(ranges)' PROVE x \in Settled(ranges) \cup piece
    <3>1. PICK k \in 1..Len(ranges) : ranges'[k].done /\ ranges'[k].start <= x /\ x < ranges'[k].end
      BY <1>4 DEF Settled
    <3>2. x \in 0..(fileSize - 1)
      BY <1>1 DEF Settled
    <3>3. CASE k = i
      BY SMTT(30), <3>1, <3>2, <3>3, <1>2, <1>3, <1>4 DEF RangeRecord
    <3>4. CASE k # i
      BY <3>1, <3>2, <3>4, <1>4 DEF Settled
    <3> QED BY <3>3, <3>4
  <2>2. ASSUME NEW x \in Settled(ranges) PROVE x \in Settled(ranges)'
    <3>1. PICK k \in 1..Len(ranges) : ranges[k].done /\ ranges[k].start <= x /\ x < ranges[k].end
      BY DEF Settled
    <3>2. k # i
      BY <3>1, <1>1
    <3>3. ranges'[k].done /\ ranges'[k].start <= x /\ x < ranges'[k].end /\ k \in 1..Len(ranges')
      BY <3>1, <3>2, <1>4
    <3> QED BY <3>3, <1>1 DEF Settled
  <2>3. ASSUME NEW x \in piece PROVE x \in Settled(ranges)'
    <3>1. x \in 0..(fileSize - 1) /\ ranges[i].start <= x /\ x < ranges[i].end
      BY <1>2 DEF RangeRecord
    <3>2. ranges'[i].done /\ ranges'[i].start <= x /\ x < ranges'[i].end /\ i \in 1..Len(ranges')
      BY <3>1, <1>3, <1>4
    <3> QED BY <3>1, <3>2, <1>1 DEF Settled
  <2> QED BY <2>1, <2>2, <2>3
<1>9. Settled(ranges) \cap piece = {}
  <2> SUFFICES ASSUME NEW x \in Settled(ranges), x \in piece PROVE FALSE
    OBVIOUS
  <2>1. PICK k \in 1..Len(ranges) : ranges[k].done /\ ranges[k].start <= x /\ x < ranges[k].end
    BY DEF Settled
  <2>2. k # i
    BY <2>1, <1>1
  <2>3. ranges[k] \in RangeRecord
    BY <1>2 DEF PlanTypes
  <2>4. k < i => ranges[k].end <= ranges[i].start
    BY <1>2 DEF Pieces
  <2>5. i < k => ranges[i].end <= ranges[k].start
    BY <1>2 DEF Pieces
  <2>6. x \in Int /\ ranges[i].start <= x /\ x < ranges[i].end
    BY <1>2 DEF RangeRecord
  <2> QED BY <2>1, <2>2, <2>3, <2>4, <2>5, <2>6, <1>2 DEF RangeRecord
<1>10. Cardinality(Settled(ranges)') = Cardinality(Settled(ranges)) + ranges[i].got
  <2>1. IsFiniteSet(0..(fileSize - 1)) /\ Settled(ranges) \subseteq 0..(fileSize - 1)
    <3>1. 0 \in Int /\ fileSize - 1 \in Int
      BY <1>2
    <3> QED BY <3>1, FS_Interval DEF Settled
  <2>2. IsFiniteSet(Settled(ranges)) /\ Cardinality(Settled(ranges)) \in Nat
    BY <2>1, FS_Subset, FS_CardinalityType
  <2>3. ranges[i].start \in Int /\ ranges[i].end - 1 \in Int /\ ranges[i].got = ranges[i].end - ranges[i].start
    BY <1>1, <1>2 DEF RangeRecord, Length
  <2>4. IsFiniteSet(piece) /\ Cardinality(piece) = ranges[i].got
    <3> DEFINE a == ranges[i].start
               b == ranges[i].end - 1
    <3>1. a \in Int /\ b \in Int /\ a <= b /\ b - a + 1 = ranges[i].got
      BY <2>3, <1>2 DEF RangeRecord
    <3> HIDE DEF a, b
    <3>2. IsFiniteSet(a..b) /\ Cardinality(a..b) = IF a > b THEN 0 ELSE b - a + 1
      BY <3>1, FS_Interval, Zenon
    <3>3. ~(a > b)
      BY <3>1
    <3>4. Cardinality(a..b) = b - a + 1
      BY <3>2, <3>3, Zenon
    <3> QED BY <3>1, <3>2, <3>4 DEF a, b
  <2>5. Cardinality({}) = 0
    BY FS_EmptySet
  <2> HIDE DEF piece
  <2>6. Cardinality(Settled(ranges) \cup piece)
          = Cardinality(Settled(ranges)) + Cardinality(piece) - Cardinality(Settled(ranges) \cap piece)
    BY <2>2, <2>4, FS_Union
  <2>7. ranges[i].got \in Nat
    BY <1>2 DEF RangeRecord
  <2>8. Cardinality(Settled(ranges)')
          = Cardinality(Settled(ranges)) + ranges[i].got - 0
    BY <2>4, <2>5, <2>6, <1>8, <1>9, Zenon
  <2> QED BY <2>2, <2>7, <2>8
<1>11. PlanTypes'
  <2>1. sumWritten' \in Nat
    BY SMTT(30), <1>1, <1>2 DEF PlanTypes, RangeRecord
  <2>2. openRanges' \in Nat
    BY <1>1, <1>5, FS_EmptySet DEF PlanInv, PlanTypes
  <2> QED BY <2>1, <2>2, <1>1, <1>2, <1>4 DEF PlanTypes
<1>12. (\A k \in 1..Len(ranges) : InPlace(ranges[k], onDisk))'
  <2>1. ASSUME NEW k \in 1..Len(ranges) PROVE InPlace(ranges'[k], onDisk)
    <3>1. InPlace(ranges[k], onDisk)
      BY DEF PlanInv
    <3>2. CASE k = i
      BY SMTT(30), <3>2, <1>1, <1>2, <1>3, <1>4 DEF InPlace, RangeRecord, Length
    <3>3. CASE k # i
      BY <3>1, <3>3, <1>4
    <3> QED BY <3>2, <3>3
  <2> QED BY <2>1, <1>1, <1>4 DEF InPlace
<1>13. /\ (ranges # <<>> => Pieces(ranges, fileSize))'
       /\ (whole => Len(ranges) = 1)' /\ (overflowed = FALSE)'
       /\ (openRanges = Cardinality(Unsettled(ranges)))'
       /\ (sumWritten = Cardinality(Settled(ranges)))'
  <2>1. /\ whole => Len(ranges) = 1
        /\ openRanges = Cardinality(Unsettled(ranges)) /\ overflowed = FALSE
        /\ sumWritten = Cardinality(Settled(ranges))
    BY DEF PlanInv
  <2>2. Pieces(ranges', fileSize')
    BY <1>1, <1>4
  <2> QED BY <2>1, <2>2, <1>1, <1>4, <1>7, <1>10
<1> QED BY <1>11, <1>12, <1>13 DEF PlanInv

LEMMA NothingSettled ==
  ASSUME NEW rs \in Seq(RangeRecord), \A k \in 1..Len(rs) : ~rs[k].done
  PROVE  Cardinality(Unsettled(rs)) = Len(rs) /\ Cardinality(Settled(rs)) = 0
<1>1. Unsettled(rs) = 1..Len(rs) /\ Settled(rs) = {}
  BY DEF Unsettled, Settled
<1>2. 1 \in Int /\ Len(rs) \in Nat
  OBVIOUS
<1>3. Cardinality(1..Len(rs)) = IF 1 > Len(rs) THEN 0 ELSE Len(rs) - 1 + 1
  BY <1>2, FS_Interval
<1>4. Cardinality(1..Len(rs)) = Len(rs)
  BY <1>2, <1>3
<1> QED BY <1>1, <1>4, FS_EmptySet

(* New ranges, of which none is settled.                                   *)
LEMMA StepOfAll ==
  ASSUME PlanInv, UNCHANGED <<fileSize, sumWritten, onDisk, overflowed>>,
         sumWritten = 0, ranges' \in Seq(RangeRecord), openRanges' = Len(ranges'),
         whole' \in BOOLEAN, whole' => Len(ranges') = 1, Pieces(ranges', fileSize),
         \A k \in 1..Len(ranges') : ~ranges'[k].done /\ InPlace(ranges'[k], onDisk)
  PROVE  PlanInv'
<1>1. PlanTypes /\ overflowed = FALSE
  BY DEF PlanInv
<1>2. PlanTypes'
  BY <1>1 DEF PlanTypes
<1>3. Cardinality(Unsettled(ranges)') = Len(ranges')
  <2>1. Unsettled(ranges)' = Unsettled(ranges')
    BY DEF Unsettled
  <2> QED BY <2>1, NothingSettled
<1>4. Cardinality(Settled(ranges)') = 0
  <2>1. Settled(ranges)' = {}
    BY DEF Settled
  <2> QED BY <2>1, FS_EmptySet
<1>5. (\A k \in 1..Len(ranges) : InPlace(ranges[k], onDisk))'
  BY DEF InPlace
<1>6. (ranges # <<>> => Pieces(ranges, fileSize))'
  <2>1. Pieces(ranges', fileSize')
    OBVIOUS
  <2> QED BY <2>1
<1> QED BY <1>1, <1>2, <1>3, <1>4, <1>5, <1>6 DEF PlanInv

LEMMA FreshFacts ==
  ASSUME NEW p \in PlanPiece
  PROVE  /\ Fresh(p) \in RangeRecord /\ Fresh(p).start = p.start /\ Fresh(p).end = p.end
         /\ Fresh(p).final = p.final /\ Fresh(p).got = 0 /\ Fresh(p).held = 0 /\ Fresh(p).done = FALSE
BY DEF Fresh, PlanPiece, RangeRecord

LEMMA FreshInPlace ==
  ASSUME NEW r \in RangeRecord, r.got = 0, r.held = 0, ~r.done, r.start <= r.end, r.end <= fileSize,
         fileSize \in Nat, NEW disk
  PROVE  InPlace(r, disk)
BY DEF InPlace, RangeRecord

LEMMA StartSplitStep ==
  ASSUME PlanInv, NEW limit \in 0..MaxLimit, NEW lan \in BOOLEAN, StartSplit(limit, lan)
  PROVE  PlanInv'
<1> DEFINE plan == PlanSegments(fileSize, limit, SegmentMin)
           one == <<[start |-> 0, end |-> fileSize, final |-> TRUE]>>
           chosen == IF lan THEN one ELSE plan
<1>1. /\ ranges = <<>> /\ plan # <<>>
      /\ ranges' = [i \in DOMAIN chosen |-> Fresh(chosen[i])]
      /\ openRanges' = Len(chosen) /\ whole' = lan
      /\ UNCHANGED <<fileSize, sumWritten, onDisk, overflowed>>
  BY DEF StartSplit
<1>2. fileSize \in Nat /\ limit \in Nat /\ SegmentMin \in Nat /\ PlanTypes
  BY RangeAssumption DEF PlanInv, PlanTypes
<1>3. plan \in Seq(PlanPiece) /\ Len(plan) >= 2 /\ Pieces(plan, fileSize)
  BY <1>1, <1>2, PlanIsPieces
<1> HIDE DEF plan
<1>4. one \in Seq(PlanPiece) /\ Len(one) = 1 /\ Pieces(one, fileSize)
  <2> DEFINE p == [start |-> 0, end |-> fileSize, final |-> TRUE]
  <2>1. p \in PlanPiece /\ p.start = 0 /\ p.end = fileSize /\ p.final = TRUE
    BY <1>2 DEF PlanPiece
  <2>2. fileSize >= 1
    <3>1. 1 \in 1..Len(plan)
      BY <1>3
    <3>2. plan[1].start \in Nat /\ plan[1].end \in Nat /\ plan[1].start < plan[1].end /\ plan[1].end <= fileSize
      BY <1>3, <3>1 DEF Pieces
    <3> QED BY <3>2, <1>2
  <2> HIDE DEF p
  <2> DEFINE c == <<p>>
  <2>3. c \in Seq(PlanPiece) /\ Len(c) = 1 /\ c[1] = p
    BY <2>1
  <2>4. 1..1 = {1}
    OBVIOUS
  <2> HIDE DEF c
  <2>5. /\ \A i \in 1..Len(c) : i = 1
        /\ \A i \in 1..Len(c) : c[i].final = (i = Len(c))
    <3>1. TRUE = (1 = 1)
      OBVIOUS
    <3>2. \A i \in 1..Len(c) : i = 1
      BY <2>3, <2>4
    <3> QED BY <3>1, <3>2, <2>1, <2>3, Zenon
  <2>6. \A i \in 1..Len(c) : c[i].start = 0 /\ c[i].end = fileSize
    BY <2>1, <2>3, <2>5
  <2>7. /\ \A i \in 1..Len(c) :
             /\ c[i].start \in Nat /\ c[i].end \in Nat /\ c[i].start < c[i].end /\ c[i].end <= fileSize
             /\ i > 1 => c[i].start = c[i - 1].end
        /\ \A i, k \in 1..Len(c) : i < k => c[i].end <= c[k].start
        /\ \A x \in 0..(fileSize - 1) : \E i \in 1..Len(c) : c[i].start <= x /\ x < c[i].end
        /\ Len(c) >= 1 /\ c[1].start = 0 /\ c[Len(c)].end = fileSize
    BY <1>2, <2>2, <2>3, <2>5, <2>6
  <2>8. Pieces(c, fileSize)
    BY <2>5, <2>7 DEF Pieces
  <2> QED BY <2>3, <2>8 DEF c, p
<1>5. chosen \in Seq(PlanPiece) /\ Pieces(chosen, fileSize) /\ (lan => Len(chosen) = 1)
  BY <1>3, <1>4
<1> HIDE DEF chosen
<1>6. ASSUME NEW k \in 1..Len(chosen) PROVE chosen[k] \in PlanPiece
  BY <1>5
<1>7. /\ ranges' \in Seq(RangeRecord) /\ Len(ranges') = Len(chosen) /\ Len(chosen) \in Nat
      /\ \A k \in 1..Len(chosen) : ranges'[k] = Fresh(chosen[k])
  <2>1. DOMAIN chosen = 1..Len(chosen) /\ Len(chosen) \in Nat
    BY <1>5
  <2>2. ranges' \in [1..Len(chosen) -> RangeRecord]
    BY <1>1, <1>6, <2>1, FreshFacts
  <2> QED BY <1>1, <2>1, <2>2
<1>8. \A k \in 1..Len(chosen) :
        /\ ranges'[k].start = chosen[k].start /\ ranges'[k].end = chosen[k].end
        /\ ranges'[k].final = chosen[k].final
        /\ ranges'[k].got = 0 /\ ranges'[k].held = 0 /\ ~ranges'[k].done /\ ranges'[k] \in RangeRecord
  <2> TAKE k \in 1..Len(chosen)
  <2>1. chosen[k] \in PlanPiece /\ ranges'[k] = Fresh(chosen[k])
    BY <1>6, <1>7
  <2> QED BY <2>1, FreshFacts
<1>9. Pieces(ranges', fileSize)
  BY <1>2, <1>5, <1>7, <1>8, PiecesKept
<1>10. ASSUME NEW k \in 1..Len(ranges') PROVE ~ranges'[k].done /\ InPlace(ranges'[k], onDisk)
  <2>1. ranges'[k].start <= ranges'[k].end /\ ranges'[k].end <= fileSize
    BY SMTT(30), <1>2, <1>7, <1>8, <1>9 DEF Pieces, RangeRecord
  <2> QED BY <2>1, <1>2, <1>7, <1>8, FreshInPlace
<1>11. sumWritten = 0
  <2>1. Settled(ranges) = {}
    BY <1>1 DEF Settled
  <2>2. Cardinality(Settled(ranges)) = 0
    BY <2>1, FS_EmptySet
  <2> QED BY <2>2 DEF PlanInv
<1> QED BY <1>1, <1>5, <1>7, <1>9, <1>10, <1>11, StepOfAll

(* The rest of a slow stream: what it has received stays before the cut.    *)
LEMMA SplitRestStep ==
  ASSUME PlanInv, NEW limit \in 0..MaxLimit, SplitRest(limit)
  PROVE  PlanInv'
<1> DEFINE r == ranges[1]
           pos == r.start + r.got + r.held
           rest == PlanSegments(fileSize - pos, limit, 0)
           m == Len(rest)
           head == [r EXCEPT !.end = pos + rest[1].end, !.final = NoLongerFinal(r)]
           moved(k) == [start |-> pos + rest[k].start, end |-> pos + rest[k].end, final |-> rest[k].final]
           tail == [k \in 1..m - 1 |-> Fresh(moved(k + 1))]
<1>1. /\ whole /\ ~r.done /\ whole' = FALSE
      /\ UNCHANGED <<fileSize, sumWritten, onDisk, overflowed>>
      /\ IF m < 2 THEN UNCHANGED <<ranges, openRanges>>
         ELSE ranges' = <<head>> \o tail /\ openRanges' = openRanges + m - 1
  BY DEF SplitRest
<1>2. Len(ranges) = 1 /\ 1 \in 1..Len(ranges) /\ limit \in Nat /\ PlanTypes
  <2>1. PlanTypes /\ Len(ranges) = 1
    BY <1>1 DEF PlanInv
  <2>2. 1 \in 1..1 /\ limit \in Nat
    BY RangeAssumption
  <2> QED BY <2>1, <2>2
<1>3. /\ r \in RangeRecord /\ InPlace(r, onDisk) /\ fileSize \in Nat /\ onDisk \subseteq 0..(fileSize - 1)
      /\ r.start = 0 /\ r.end = fileSize
  BY <1>2, RangeFacts DEF Pieces, PlanTypes
<1>4. pos \in Nat /\ fileSize - pos \in Nat
  BY <1>3 DEF InPlace, RangeRecord
<1> HIDE DEF rest
<1>5. CASE m < 2
  <2>1. UNCHANGED <<fileSize, ranges, openRanges, sumWritten, onDisk, overflowed>> /\ whole' = FALSE
    BY <1>1, <1>5
  <2> QED BY <2>1 DEF PlanInv, PlanTypes, InPlace, Unsettled, Settled, Pieces
<1>6. CASE ~(m < 2)
  <2>1. rest # <<>>
    BY <1>6
  <2>2. rest \in Seq(PlanPiece) /\ m >= 2 /\ Pieces(rest, fileSize - pos)
    BY <2>1, <1>2, <1>4, PlanIsPieces DEF rest
  <2>3. m \in Nat /\ \A k \in 1..m : rest[k] \in PlanPiece
    BY <2>2
  <2> HIDE DEF pos, m
  <2>4. ASSUME NEW k \in 1..m
        PROVE  /\ moved(k) \in PlanPiece /\ Fresh(moved(k)) \in RangeRecord
               /\ Fresh(moved(k)).start = pos + rest[k].start /\ Fresh(moved(k)).end = pos + rest[k].end
               /\ Fresh(moved(k)).final = rest[k].final
               /\ Fresh(moved(k)).got = 0 /\ Fresh(moved(k)).held = 0 /\ ~Fresh(moved(k)).done
    <3>1. moved(k) \in PlanPiece
      BY <2>3, <1>4 DEF PlanPiece
    <3>2. moved(k).start = pos + rest[k].start /\ moved(k).end = pos + rest[k].end /\ moved(k).final = rest[k].final
      OBVIOUS
    <3> HIDE DEF moved
    <3> QED BY <3>1, <3>2, FreshFacts
  <2>5. /\ rest[1].start = 0 /\ rest[1].end \in Nat /\ rest[1].end > 0
        /\ pos + rest[1].end \in Nat
    <3>1. 1 \in 1..m
      BY <2>2, <2>3
    <3> QED BY <3>1, <2>2, <1>4 DEF Pieces, m
  <2>6. /\ head \in RangeRecord /\ head.start = 0 /\ head.end = pos + rest[1].end /\ head.final = FALSE
        /\ head.got = r.got /\ head.held = r.held /\ head.done = r.done
    <3> HIDE DEF r
    <3> QED BY <2>5, <1>3 DEF RangeRecord, NoLongerFinal
  <2> HIDE DEF head
  <2>7. tail \in Seq(RangeRecord) /\ Len(tail) = m - 1
    <3>1. \A k \in 1..m - 1 : k + 1 \in 1..m
      BY <2>3
    <3>2. tail \in [1..m - 1 -> RangeRecord]
      BY <3>1, <2>4
    <3> DEFINE w == m - 1
    <3>3. w \in Nat /\ tail \in [1..w -> RangeRecord]
      BY <3>2, <2>2, <2>3
    <3> HIDE DEF w, tail
    <3>4. tail \in Seq(RangeRecord) /\ Len(tail) = w
      BY <3>3
    <3> QED BY <3>4 DEF w
  <2>8. \A k \in 1..m - 1 : tail[k] = Fresh(moved(k + 1))
    OBVIOUS
  <2>9. /\ ranges' \in Seq(RangeRecord) /\ Len(ranges') = m /\ ranges'[1] = head
        /\ \A k \in 2..m : ranges'[k] = Fresh(moved(k))
    <3>1. ranges' = <<head>> \o tail
      BY <1>1, <1>6 DEF m
    <3>2. \A k \in 2..m : k - 1 \in 1..m - 1 /\ (k - 1) + 1 = k
      BY <2>3
    <3> HIDE DEF tail, moved
    <3>3. <<head>> \in Seq(RangeRecord) /\ Len(<<head>>) = 1 /\ <<head>>[1] = head
      BY <2>6
    <3>4. Len(ranges') = 1 + (m - 1) /\ ranges' \in Seq(RangeRecord) /\ ranges'[1] = head
      BY <3>1, <3>3, <2>7, <2>3
    <3>5. ASSUME NEW k \in 2..m PROVE ranges'[k] = tail[k - 1]
      BY <3>1, <3>3, <2>7, <2>3
    <3>6. ASSUME NEW k \in 2..m PROVE tail[k - 1] = Fresh(moved(k))
      <4>1. tail[k - 1] = Fresh(moved((k - 1) + 1))
        BY <3>2, <2>8
      <4> QED BY <4>1, <3>2
    <3> QED BY <3>4, <3>5, <3>6, <2>3
  <2> HIDE DEF tail, moved
  <2>10. \A k \in 1..m : /\ ranges'[k].start = (IF k = 1 THEN 0 ELSE pos + rest[k].start)
                         /\ ranges'[k].end = pos + rest[k].end
                         /\ ranges'[k] \in RangeRecord /\ ~ranges'[k].done
    <3> TAKE k \in 1..m
    <3>1. CASE k = 1
      BY <3>1, <2>6, <2>9, <1>1
    <3>2. CASE k # 1
      <4>1. k \in 2..m
        BY <3>2, <2>3
      <4> QED BY <4>1, <3>2, <2>4, <2>9
    <3> QED BY <3>1, <3>2
  <2>11. \A k \in 1..m : /\ rest[k].start \in Nat /\ rest[k].end \in Nat /\ rest[k].start < rest[k].end
                         /\ rest[k].end <= fileSize - pos
                         /\ k > 1 => rest[k].start = rest[k - 1].end
    BY <2>2 DEF Pieces, m
  <2>12. \A k \in 1..m : ranges'[k].final = (k = m)
    <3> TAKE k \in 1..m
    <3>1. rest[k].final = (k = m)
      BY <2>2 DEF Pieces, m
    <3>2. CASE k = 1
      <4>1. ~(k = m)
        BY <3>2, <2>2, <2>3
      <4> QED BY <4>1, <3>2, <2>6, <2>9, Zenon
    <3>3. CASE k # 1
      <4>1. k \in 2..m
        BY <3>3, <2>3
      <4> QED BY <4>1, <3>1, <2>4, <2>9, Zenon
    <3> QED BY <3>2, <3>3
  <2>13. Pieces(ranges', fileSize)
    <3>1. 1 \in 1..m /\ m \in 1..m
      BY <2>2, <2>3 DEF m
    <3>2. rest[m].end = fileSize - pos
      BY <2>2 DEF Pieces, m
    <3>3. Len(ranges') >= 1 /\ ranges'[1].start = 0 /\ ranges'[Len(ranges')].end = fileSize
      BY <3>1, <3>2, <2>9, <2>10, <1>3, <1>4, <2>3
    <3>4. ASSUME NEW k \in 1..m
          PROVE  /\ ranges'[k].start \in Nat /\ ranges'[k].end \in Nat
                 /\ ranges'[k].start < ranges'[k].end /\ ranges'[k].end <= fileSize
                 /\ k > 1 => ranges'[k].start = ranges'[k - 1].end
      <4>1. CASE k = 1
        BY <4>1, <2>5, <2>10, <2>11, <1>3, <1>4
      <4>2. CASE k # 1
        <5>1. k > 1 /\ k - 1 \in 1..m
          BY <4>2, <2>3
        <5> QED BY <5>1, <4>2, <2>10, <2>11, <1>3, <1>4
      <4> QED BY <4>1, <4>2
    <3>5. ASSUME NEW i \in 1..m, NEW k \in 1..m, i < k
          PROVE  ranges'[i].end <= ranges'[k].start
      <4>1. rest[i].end <= rest[k].start
        BY <3>5, <2>2 DEF Pieces, m
      <4>2. k # 1
        BY <3>5, <2>3
      <4> QED BY <4>1, <4>2, <2>10, <2>11, <1>4
    <3>6. ASSUME NEW x \in 0..(fileSize - 1)
          PROVE  \E k \in 1..m : ranges'[k].start <= x /\ x < ranges'[k].end
      <4>1. CASE x < pos
        <5>1. ranges'[1].start <= x /\ x < ranges'[1].end
          BY <4>1, <3>1, <2>5, <2>10, <1>4
        <5> QED BY <5>1, <3>1
      <4>2. CASE ~(x < pos)
        <5>1. x - pos \in 0..(fileSize - pos - 1)
          BY <4>2, <1>3, <1>4
        <5>2. PICK k \in 1..m : rest[k].start <= x - pos /\ x - pos < rest[k].end
          BY <5>1, <2>2 DEF Pieces, m
        <5>3. ranges'[k].start <= x /\ x < ranges'[k].end
          BY <5>2, <2>10, <2>11, <1>3, <1>4
        <5> QED BY <5>3
      <4> QED BY <4>1, <4>2
    <3> QED BY <3>3, <3>4, <3>5, <3>6, <2>9, <2>12 DEF Pieces
  <2>14. ASSUME NEW k \in 1..m PROVE ~ranges'[k].done /\ InPlace(ranges'[k], onDisk)
    <3>1. CASE k = 1
      <4>1. pos = r.got + r.held /\ r.got \in Nat /\ r.held \in Nat /\ 0..(r.got - 1) \subseteq onDisk
        BY <1>3 DEF InPlace, RangeRecord, pos
      <4>2. InPlace(head, onDisk)
        <5> HIDE DEF r
        <5>1. 0 + r.got = r.got
          BY <4>1
        <5>2. head.start..(head.start + head.got - 1) \subseteq onDisk
          BY <4>1, <5>1, <2>6
        <5>3. ~head.done
          BY <1>1, <2>6 DEF r
        <5> QED BY <4>1, <5>2, <5>3, <2>5, <2>6, <1>3, <1>4 DEF InPlace
      <4> QED BY <3>1, <4>2, <2>9, <2>10
    <3>2. CASE k # 1
      <4>1. k \in 2..m
        BY <3>2, <2>3
      <4>2. ranges'[k].got = 0 /\ ranges'[k].held = 0
        BY <4>1, <2>4, <2>9
      <4>3. ranges'[k].start <= ranges'[k].end /\ ranges'[k].end <= fileSize
        BY <2>9, <2>13 DEF Pieces
      <4> QED BY <4>2, <4>3, <2>10, <1>3, FreshInPlace
    <3> QED BY <3>1, <3>2
  <2>15. openRanges = 1 /\ sumWritten = 0
    <3>1. \A k \in 1..Len(ranges) : ~ranges[k].done
      BY <1>1, <1>2
    <3>2. ranges \in Seq(RangeRecord)
      BY <1>2 DEF PlanTypes
    <3> QED BY <3>1, <3>2, <1>2, NothingSettled DEF PlanInv
  <2>16. openRanges' = Len(ranges')
    BY <1>1, <1>6, <2>3, <2>9, <2>15 DEF m
  <2>17. whole' \in BOOLEAN /\ (whole' => Len(ranges') = 1)
    BY <1>1
  <2> QED BY <1>1, <2>9, <2>13, <2>14, <2>15, <2>16, <2>17, StepOfAll
<1> QED BY <1>5, <1>6

-----------------------------------------------------------------------------
THEOREM RangePlanInvariance == RangePlanSpec => []PlanInv
<1>1. RangePlanInit => PlanInv
  <2> SUFFICES ASSUME RangePlanInit PROVE PlanInv
    OBVIOUS
  <2>1. /\ fileSize \in Nat /\ ranges = <<>> /\ whole = FALSE /\ sumWritten = 0 /\ openRanges = 0
        /\ onDisk = {} /\ overflowed = FALSE
    BY RangeAssumption DEF RangePlanInit
  <2>2. PlanTypes
    <3>1. <<>> \in Seq(RangeRecord) /\ 0 \in Nat /\ FALSE \in BOOLEAN /\ {} \subseteq 0..(fileSize - 1)
      OBVIOUS
    <3> QED BY <2>1, <3>1 DEF PlanTypes
  <2>3. Unsettled(ranges) = {} /\ Settled(ranges) = {}
    BY <2>1 DEF Unsettled, Settled
  <2>4. openRanges = Cardinality(Unsettled(ranges)) /\ sumWritten = Cardinality(Settled(ranges))
    BY <2>1, <2>3, FS_EmptySet
  <2> QED BY <2>1, <2>2, <2>4 DEF PlanInv
<1>2. PlanInv /\ [RangePlanNext]_rangePlanVars => PlanInv'
  <2> SUFFICES ASSUME PlanInv, [RangePlanNext]_rangePlanVars PROVE PlanInv'
    OBVIOUS
  <2>1. ASSUME NEW limit \in 0..MaxLimit, NEW lan \in BOOLEAN, StartSplit(limit, lan) PROVE PlanInv'
    BY <2>1, StartSplitStep
  <2>2. ASSUME NEW limit \in 0..MaxLimit, SplitRest(limit) PROVE PlanInv'
    BY <2>2, SplitRestStep
  <2>3. ASSUME NEW i \in DOMAIN ranges, Arrive(i) \/ WriteOut(i) \/ RangeReceived(i) \/ RangeBreaks(i)
        PROVE  PlanInv'
    <3>1. i \in 1..Len(ranges)
      BY DEF PlanInv, PlanTypes
    <3> QED BY <2>3, <3>1, ArriveStep, WriteOutStep, RangeReceivedStep, RangeBreaksStep
  <2>4. CASE UNCHANGED rangePlanVars
    BY <2>4 DEF rangePlanVars, PlanInv, PlanTypes, InPlace, Unsettled, Settled, Pieces
  <2> QED BY <2>1, <2>2, <2>3, <2>4 DEF RangePlanNext
<1> QED BY <1>1, <1>2, PTL DEF RangePlanSpec

(* A split download is complete, byte by byte, exactly when it says so: for  *)
(* every size, limit and length of a range, whenever its connections break   *)
(* and however a slow stream is split, the ranges cut the file, the sum      *)
(* counts each byte once, and no server is taken for one that ignores REST.  *)
THEOREM RangePlanIsSafe == RangePlanSpec => []RangePlanSafe
<1>1. PlanInv => RangePlanSafe
  <2> SUFFICES ASSUME PlanInv PROVE RangePlanSafe
    OBVIOUS
  <2>1. PlanTypes /\ DOMAIN ranges = 1..Len(ranges)
    BY DEF PlanInv, PlanTypes
  <2>2. RangesTile
    <3>1. ranges # <<>> => Pieces(ranges, fileSize)
      BY DEF PlanInv
    <3> QED BY <3>1, <2>1 DEF RangesTile, Pieces
  <2>3. openRanges = Cardinality({i \in DOMAIN ranges : ~ranges[i].done})
    BY <2>1 DEF PlanInv, Unsettled
  <2>4. ASSUME NEW i \in DOMAIN ranges, ranges[i].done PROVE Offsets(ranges[i]) \subseteq onDisk
    <3>1. i \in 1..Len(ranges) /\ InPlace(ranges[i], onDisk) /\ ranges[i] \in RangeRecord
      BY <2>1 DEF PlanInv, PlanTypes
    <3> QED BY <3>1, <2>4 DEF InPlace, Offsets, RangeRecord
  <2>5. ASSUME ranges # <<>>, openRanges = 0 PROVE sumWritten = fileSize /\ onDisk = 0..(fileSize - 1)
    <3>1. Unsettled(ranges) = {}
      <4>1. IsFiniteSet(1..Len(ranges))
        BY <2>1, FS_Interval DEF PlanTypes
      <4>2. IsFiniteSet(Unsettled(ranges))
        BY <4>1, FS_Subset DEF Unsettled
      <4> QED BY <2>5, <4>2, FS_EmptySet DEF PlanInv
    <3>2. \A k \in 1..Len(ranges) : ranges[k].done /\ Offsets(ranges[k]) \subseteq onDisk
      BY <3>1, <2>1, <2>4 DEF Unsettled
    <3>3. Pieces(ranges, fileSize) /\ fileSize \in Nat /\ onDisk \subseteq 0..(fileSize - 1)
      BY <2>1, <2>5 DEF PlanInv, PlanTypes
    <3>4. Settled(ranges) = 0..(fileSize - 1)
      BY <3>2, <3>3 DEF Settled, Pieces
    <3>5. ASSUME NEW x \in 0..(fileSize - 1) PROVE x \in onDisk
      <4>1. PICK k \in 1..Len(ranges) : ranges[k].start <= x /\ x < ranges[k].end
        BY <3>3 DEF Pieces
      <4>2. ranges[k].start \in Nat /\ ranges[k].end \in Nat
        BY <3>3 DEF Pieces
      <4>3. x \in Offsets(ranges[k])
        BY <4>1, <4>2 DEF Offsets
      <4> QED BY <4>3, <3>2
    <3>6. Cardinality(0..(fileSize - 1)) = fileSize
      <4>1. 0 \in Int /\ fileSize - 1 \in Int
        BY <3>3
      <4>2. Cardinality(0..(fileSize - 1)) = IF 0 > fileSize - 1 THEN 0 ELSE (fileSize - 1) - 0 + 1
        BY <4>1, FS_Interval
      <4> QED BY <4>2, <3>3
    <3> QED BY <3>3, <3>4, <3>5, <3>6 DEF PlanInv
  <2>6. NoFalseOverflow
    BY DEF PlanInv, NoFalseOverflow
  <2> QED BY <2>2, <2>3, <2>4, <2>5, <2>6 DEF RangePlanSafe, SumIsTrue
<1> QED BY <1>1, RangePlanInvariance, PTL
=============================================================================
