------------------------- MODULE TransferQueueProofs -------------------------
(***************************************************************************)
(* What TLAPS proves of the transfer queue, for any jobs, borrowers,       *)
(* number of ranges, slots and retries.                                    *)
(*                                                                         *)
(* The argument sees an item through its phase: "waiting" while it is in   *)
(* work, else the place of its run.  First come lemmas that say what each   *)
(* operator of the scheduler does to the phases, then, action by action,   *)
(* what a step does to them, then the inductive invariant Inv, and last    *)
(* the step simulation of JobLifecycle.                                    *)
(***************************************************************************)
EXTENDS TransferQueue, FiniteSetTheorems, SequenceTheorems, TLAPS

(* Where item u is in the queue q.                                         *)
PhaseIn(q, u) == IF u \in InSeq(q.work) THEN "waiting" ELSE q.at[u]
Phase(u) == PhaseIn(Q, u)

QueueType == [work : Seq(Items), at : [Items -> Places], strays : Nat]

(* Nothing is queued twice, and nothing that is queued has a run or a timer. *)
QueueOK(q) ==
  /\ q \in QueueType
  /\ \A i, k \in 1..Len(q.work) : q.work[i] = q.work[k] => i = k
  /\ \A u \in InSeq(q.work) : q.at[u] = "none"

Busy(q) == q.strays > 0 \/ \E u \in Items : q.at[u] \in RunPlaces

WholeRuns == {"sizing", "opening", "toOpen", "moving"}

(* What the phase of its whole item says of a job or a borrower.           *)
WholeInv(o) ==
  LET p == Phase(Whole(o)) IN
  /\ p \in {"none", "waiting", "asking", "lent", "backoff"} \cup WholeRuns
  /\ p \in WholeRuns \cup {"backoff"} => o \in Jobs
  /\ p = "waiting" => status[o] = "pending"
  /\ p \in {"asking", "backoff"} => status[o] \in {"pending", "cancelled"}
  /\ p \in WholeRuns => status[o] \in {"active", "cancelled"}
  /\ p = "lent" => o \in Borrows /\ status[o] = "active"
  /\ p \in {"sizing", "opening"} => o \in Large \ plain
  /\ p = "toOpen" => o \in Downloads
  /\ status[o] = "pending" => p \in {"waiting", "asking", "backoff"} \/ o \in reviving

(* A split, its job and its ranges.                                        *)
SplitInv(j) ==
  /\ split[j] # "none" => /\ j \in Large \ plain
                          /\ Phase(Whole(j)) = "none"
                          /\ j \notin cleanups \cup unlinks
  /\ j \in sole => split[j] # "none"
  /\ split[j] = "open" => status[j] = "active" /\ remaining[j] > 0
  /\ split[j] = "complete" => status[j] \in {"active", "cancelled"}
  /\ split[j] \in {"stopped", "closing"} => status[j] \in {"active", "cancelled", "failed"}
  /\ split[j] = "stopped" => \E u \in RangesOf({j}) : Phase(u) = "receiving"
  /\ split[j] = "unlinking" => status[j] = "failed"
  /\ j \in sole /\ split[j] = "open" =>
       remaining[j] = 1 /\ \A u \in RangesOf({j}) : u[2] > 1 => Phase(u) = "none"

RangesInv(j) ==
  \A u \in RangesOf({j}) :
    /\ Phase(u) \in {"none", "waiting", "asking", "backoff", "receiving", "closing"}
    /\ Phase(u) \in {"waiting", "asking", "backoff"} => split[j] = "open"
    /\ Phase(u) = "receiving" => split[j] \in {"open", "stopped"}
    /\ Phase(u) = "closing" => split[j] \in {"complete", "closing", "unlinking"}

CountInv(j) == split[j] = "open" => remaining[j] = Cardinality(LiveRanges(j))

(* Clean-ups in flight and retries that wait for one.                      *)
RemovalsInv(j) ==
  /\ j \in cleanups => /\ status[j] \in {"failed", "pending", "cancelled"}
                       /\ Phase(Whole(j)) = "none"
  /\ j \in unlinks => status[j] = "cancelled" /\ Phase(Whole(j)) = "none"
  /\ j \in reviving => status[j] = "pending" /\ j \in cleanups
  /\ j \in reviveLater => status[j] = "failed" /\ split[j] # "none"

(* What the flags of a download say of its file.                           *)
FilesInv(j) ==
  /\ file[j] = "partial" => j \in opened
  /\ file[j] \in {"partial", "whole"} /\ j \in Exclusive /\ j \in opened => j \in created
  /\ j \in created => file[j] \in {"partial", "whole"}
  /\ j \in opened /\ status[j] \in {"new", "pending", "active", "failed"} => file[j] = "partial"
  /\ Phase(Whole(j)) = "moving" => file[j] = "partial"
  /\ split[j] # "none" => file[j] = "partial"
  /\ status[j] = "completed" => file[j] = "whole" /\ split[j] = "none"
  /\ j \in cleanups /\ status[j] # "cancelled" => j \in opened
  /\ status[j] = "failed" /\ j \notin Locked \cup cleanups /\ split[j] = "none" =>
       file[j] # "partial"

OwnerInv(o) ==
  /\ WholeInv(o)
  /\ o \in Jobs => SplitInv(o) /\ RangesInv(o) /\ CountInv(o) /\ RemovalsInv(o)
  /\ o \in Downloads => FilesInv(o)

(* The inductive invariant.                                                *)
Inv == TypeOK /\ QueueOK(Q) /\ NoStall /\ \A o \in Owners : OwnerInv(o)

-----------------------------------------------------------------------------
(* Items, sequences and sets of ranges.                                    *)

(* An item is a whole job, a borrower or a range of a large download.      *)
LEMMA ItemFacts ==
  /\ \A o \in Owners : Whole(o) \in Items /\ Whole(o)[1] = o /\ Whole(o)[2] = 0
  /\ \A u \in Items : /\ u[1] \in Owners /\ u[2] \in 0..Segments
                      /\ u[2] = 0 => u = Whole(u[1])
                      /\ u[2] > 0 => u[1] \in Large
  /\ \A u, w \in Items : u[1] = w[1] /\ u[2] = w[2] => u = w
  /\ \A S : RangesOf(S) \subseteq Items
  /\ \A S : \A u \in Items : u \in RangesOf(S) <=> u[2] > 0 /\ u[1] \in S
  /\ \A j \in Large : \A k \in 1..Segments : <<j, k>> \in Items
  /\ Large \subseteq Downloads /\ Downloads \subseteq Jobs /\ Jobs \subseteq Owners
  BY QueueAssumption DEF QueueAssumption, Items, Owners, RangesOf, Whole

LEMMA ItemsFinite ==
  /\ IsFiniteSet(Items)
  /\ \A S : IsFiniteSet(RangesOf(S))
<1>1. IsFiniteSet(Owners)
  BY QueueAssumption, FS_Union DEF QueueAssumption, Owners
<1>2. IsFiniteSet(Owners \X {0})
  BY <1>1, FS_Singleton, FS_Product, Zenon
<1>3. \A S : S \cap Large \subseteq Owners
  BY ItemFacts
<1>4. \A S : IsFiniteSet(S \cap Large)
  BY <1>1, <1>3, FS_Subset
<1>5. IsFiniteSet(1..Segments)
  BY QueueAssumption, FS_Interval DEF QueueAssumption
<1>6. \A S : IsFiniteSet((S \cap Large) \X (1..Segments))
  BY <1>4, <1>5, FS_Product, Zenon
<1>7. \A S : IsFiniteSet(RangesOf(S))
  BY <1>6 DEF RangesOf
<1>8. IsFiniteSet(Items)
  BY <1>2, <1>7, FS_Union DEF Items
<1> QED BY <1>7, <1>8

-----------------------------------------------------------------------------
(* The scheduler, phase by phase.                                          *)

(* What pump() may do to an item, and nothing else does behind its back.   *)
Pumps(p, r) == r = p \/ (p = "waiting" /\ r = "asking")

(* The scheduler's variables have their types after the step.              *)
NextTypes == slots' \in 1..MaxSlots /\ failures' \in Nat /\ hold' \in BOOLEAN

NotStalled(q) == q.work # <<>> /\ ~hold' => Busy(q)

LEMMA RunningIsBusy ==
  ASSUME NEW q \in QueueType
  PROVE  Running(q) \in Nat /\ (Running(q) > 0 <=> Busy(q))
<1> DEFINE runs == {u \in Items : q.at[u] \in RunPlaces}
<1>1. IsFiniteSet(runs) /\ Cardinality(runs) \in Nat
  BY ItemsFinite, FS_Subset, FS_CardinalityType
<1>2. Cardinality(runs) = 0 <=> runs = {}
  BY <1>1, FS_EmptySet
<1>3. runs = {} <=> ~\E u \in Items : q.at[u] \in RunPlaces
  OBVIOUS
<1>4. q.strays \in Nat /\ Running(q) = Cardinality(runs) + q.strays
  BY DEF QueueType, Running
<1> HIDE DEF runs
<1> QED BY <1>1, <1>2, <1>3, <1>4 DEF Busy

LEMMA StartableFacts ==
  ASSUME NEW q \in QueueType, NextTypes
  PROVE  /\ Startable(q) \in 0..Len(q.work)
         /\ Startable(q) = 0 => hold' \/ q.work = <<>> \/ Busy(q)
<1>1. Running(q) \in Nat /\ (Running(q) > 0 <=> Busy(q))
  BY RunningIsBusy
<1>2. Len(q.work) \in Nat /\ (Len(q.work) = 0 => q.work = <<>>)
  BY EmptySeq, LenProperties DEF QueueType
<1>3. slots' \in Nat /\ slots' > 0
  BY QueueAssumption DEF QueueAssumption, NextTypes
<1> QED BY <1>1, <1>2, <1>3 DEF Startable, Lesser, NextTypes

LEMMA PumpedFacts ==
  ASSUME NEW q, QueueOK(q), NextTypes
  PROVE  /\ QueueOK(Pumped(q))
         /\ Pumped(q).strays = q.strays
         /\ \A u \in Items : Pumps(PhaseIn(q, u), PhaseIn(Pumped(q), u))
         /\ NotStalled(Pumped(q))
<1> DEFINE n == Startable(q)
           r == Pumped(q)
           w == q.work
           first == {w[i] : i \in 1..n}
<1>1. /\ q \in QueueType
      /\ w \in Seq(Items) /\ Len(w) \in Nat
      /\ q.at \in [Items -> Places] /\ q.strays \in Nat
  BY LenProperties DEF QueueOK, QueueType
<1>2. n \in 0..Len(w) /\ (n = 0 => hold' \/ w = <<>> \/ Busy(q))
  BY <1>1, StartableFacts
<1>3. /\ r.work = SubSeq(w, n + 1, Len(w))
      /\ r.strays = q.strays
      /\ r.at = [u \in Items |-> IF u \in first THEN "asking" ELSE q.at[u]]
      /\ r = [work |-> r.work, at |-> r.at, strays |-> r.strays]
  <2> HIDE DEF n
  <2>1. r = [q EXCEPT !.work = SubSeq(w, n + 1, Len(w)),
                      !.at = [u \in Items |-> IF \E i \in 1..n : w[i] = u
                                              THEN "asking" ELSE q.at[u]]]
    BY Zenon DEF Pumped, n
  <2>2. \A u : u \in first <=> \E i \in 1..n : w[i] = u
    OBVIOUS
  <2> HIDE DEF r, first
  <2> QED BY <1>1, <2>1, <2>2 DEF QueueType
<1> HIDE DEF n, r
<1>4. \A i \in 1..Len(w) : w[i] \in Items
  BY <1>1, ElementOfSeq
<1>5. /\ r.work \in Seq(Items) /\ Len(r.work) = Len(w) - n
      /\ \A i \in 1..Len(w) - n : r.work[i] = w[n + i]
  <2>1. /\ SubSeq(w, n + 1, Len(w)) \in Seq(Items)
        /\ Len(SubSeq(w, n + 1, Len(w))) = IF n + 1 <= Len(w) THEN Len(w) - (n + 1) + 1 ELSE 0
        /\ \A i \in 1..Len(w) - (n + 1) + 1 : SubSeq(w, n + 1, Len(w))[i] = w[(n + 1) + i - 1]
    <3> HIDE DEF w
    <3> QED BY <1>1, <1>2, <1>4, SubSeqProperties
  <2> HIDE DEF w
  <2> QED BY <1>1, <1>2, <1>3, <2>1
<1>6. /\ first \subseteq Items
      /\ InSeq(w) = first \cup InSeq(r.work)
  <2>1. first \subseteq InSeq(w) /\ InSeq(w) \subseteq Items
    BY <1>1, <1>2, <1>4 DEF InSeq
  <2>2. InSeq(r.work) \subseteq InSeq(w)
    BY <1>1, <1>2, <1>5 DEF InSeq
  <2>3. ASSUME NEW i \in 1..Len(w)
        PROVE  w[i] \in first \cup InSeq(r.work)
    <3>1. CASE i <= n
      BY <1>1, <1>2, <3>1
    <3>2. CASE i > n
      <4>1. i - n \in 1..Len(r.work) /\ r.work[i - n] = w[n + (i - n)]
        BY <1>1, <1>2, <1>5, <3>2
      <4> QED BY <1>1, <1>2, <4>1 DEF InSeq
    <3> QED BY <1>1, <1>2, <3>1, <3>2
  <2> QED BY <2>1, <2>2, <2>3 DEF InSeq
<1>7. first \cap InSeq(r.work) = {}
  <2> SUFFICES ASSUME NEW i \in 1..n, NEW k \in 1..Len(w) - n, w[i] = r.work[k]
               PROVE  FALSE
    BY <1>5 DEF InSeq
  <2>1. w[i] = w[n + k] /\ n + k \in 1..Len(w) /\ i \in 1..Len(w) /\ i # n + k
    BY <1>1, <1>2, <1>5
  <2> QED BY <2>1 DEF QueueOK
<1>8. \A i, k \in 1..Len(r.work) : r.work[i] = r.work[k] => i = k
  <2> SUFFICES ASSUME NEW i \in 1..Len(r.work), NEW k \in 1..Len(r.work), r.work[i] = r.work[k]
               PROVE  i = k
    OBVIOUS
  <2>1. n + i \in 1..Len(w) /\ n + k \in 1..Len(w) /\ w[n + i] = w[n + k]
    BY <1>1, <1>2, <1>5
  <2>2. n + i = n + k
    BY <2>1 DEF QueueOK
  <2> QED BY <1>1, <1>2, <1>5, <2>2
<1> HIDE DEF first, w
<1>9. \A u \in InSeq(w) : q.at[u] = "none"
  BY DEF QueueOK, w
<1>10. r \in QueueType
  <2>1. r.at \in [Items -> Places]
    BY <1>1, <1>3 DEF Places, RunPlaces
  <2> QED BY <1>1, <1>3, <1>5, <2>1 DEF QueueType
<1>11. QueueOK(r)
  <2>1. \A u \in InSeq(r.work) : u \in Items /\ u \notin first /\ u \in InSeq(w)
    <3>1. InSeq(r.work) \subseteq Items
      BY <1>5, ElementOfSeq DEF InSeq
    <3> QED BY <1>6, <1>7, <3>1
  <2> QED BY <1>3, <1>8, <1>9, <1>10, <2>1 DEF QueueOK
<1>12. ASSUME NEW u \in Items
       PROVE  Pumps(PhaseIn(q, u), PhaseIn(r, u))
  <2>1. CASE u \in first
    BY <1>3, <1>6, <1>7, <2>1 DEF Pumps, PhaseIn, w
  <2>2. CASE u \notin first
    <3>1. r.at[u] = q.at[u] /\ (u \in InSeq(w) <=> u \in InSeq(r.work))
      BY <1>3, <1>6, <2>2
    <3> QED BY <3>1 DEF Pumps, PhaseIn, w
  <2> QED BY <2>1, <2>2
<1>13. NotStalled(r)
  <2> SUFFICES ASSUME r.work # <<>>, ~hold' PROVE Busy(r)
    BY DEF NotStalled
  <2>1. CASE n = 0
    <3>1. w # <<>>
      BY <1>1, <1>2, <1>3, <2>1, SubSeqFull
    <3>2. Busy(q) /\ first = {}
      BY <1>2, <2>1, <3>1 DEF first
    <3> QED BY <1>3, <3>2 DEF Busy
  <2>2. CASE n # 0
    <3>1. w[1] \in first /\ w[1] \in Items
      BY <1>1, <1>2, <1>4, <2>2 DEF first
    <3>2. r.at[w[1]] = "asking"
      BY <1>3, <3>1
    <3> QED BY <3>1, <3>2 DEF Busy, RunPlaces
  <2> QED BY <2>1, <2>2
<1> QED BY <1>3, <1>11, <1>12, <1>13 DEF r

LEMMA PutFacts ==
  ASSUME NEW q, QueueOK(q), NEW u \in Items, PhaseIn(q, u) # "waiting", NEW p \in Places
  PROVE  /\ QueueOK(Put(q, u, p))
         /\ Put(q, u, p).strays = q.strays
         /\ Put(q, u, p).work = q.work
         /\ Put(q, u, p).at = [q.at EXCEPT ![u] = p]
         /\ \A v \in Items : PhaseIn(Put(q, u, p), v) = IF v = u THEN p ELSE PhaseIn(q, v)
<1>1. /\ q \in QueueType /\ u \notin InSeq(q.work)
      /\ q.at \in [Items -> Places]
  BY DEF QueueOK, QueueType, PhaseIn, Places, RunPlaces
<1>2. /\ Put(q, u, p).work = q.work /\ Put(q, u, p).strays = q.strays
      /\ Put(q, u, p).at = [q.at EXCEPT ![u] = p]
      /\ Put(q, u, p) \in QueueType
  BY <1>1 DEF Put, QueueType
<1>3. InSeq(q.work) \subseteq Items
  BY <1>1, ElementOfSeq DEF InSeq, QueueType
<1> QED BY <1>1, <1>2, <1>3 DEF QueueOK, PhaseIn

LEMMA JoinFacts ==
  ASSUME NEW T, NEW s \in Seq(T), NEW t \in Seq(T), InSeq(s) \cap InSeq(t) = {},
         \A i, k \in 1..Len(s) : s[i] = s[k] => i = k,
         \A i, k \in 1..Len(t) : t[i] = t[k] => i = k
  PROVE  /\ s \o t \in Seq(T)
         /\ InSeq(s \o t) = InSeq(s) \cup InSeq(t)
         /\ \A i, k \in 1..Len(s \o t) : (s \o t)[i] = (s \o t)[k] => i = k
BY ConcatFacts DEF Once

(* Items that were nowhere are queued, in front or behind.                 *)
LEMMA JoinedFacts ==
  ASSUME NEW q, QueueOK(q), NEW us \in Seq(Items),
         \A i, k \in 1..Len(us) : us[i] = us[k] => i = k,
         \A u \in InSeq(us) : PhaseIn(q, u) = "none",
         NEW w \in {us \o q.work, q.work \o us}
  PROVE  /\ QueueOK([q EXCEPT !.work = w])
         /\ [q EXCEPT !.work = w].strays = q.strays
         /\ [q EXCEPT !.work = w].at = q.at
         /\ \A u \in Items : PhaseIn([q EXCEPT !.work = w], u) =
                             IF u \in InSeq(us) THEN "waiting" ELSE PhaseIn(q, u)
<1> DEFINE r == [q EXCEPT !.work = w]
<1>1. /\ q \in QueueType /\ q.work \in Seq(Items)
      /\ \A u \in InSeq(us) : u \notin InSeq(q.work) /\ q.at[u] = "none"
  BY DEF QueueOK, QueueType, PhaseIn
<1>2. \A i, k \in 1..Len(q.work) : q.work[i] = q.work[k] => i = k
  BY DEF QueueOK
<1>3. InSeq(us) \cap InSeq(q.work) = {} /\ InSeq(q.work) \cap InSeq(us) = {}
  BY <1>1
<1>4. /\ w \in Seq(Items) /\ InSeq(w) = InSeq(us) \cup InSeq(q.work)
      /\ \A i, k \in 1..Len(w) : w[i] = w[k] => i = k
  <2>1. CASE w = us \o q.work
    <3>1. /\ us \o q.work \in Seq(Items)
          /\ InSeq(us \o q.work) = InSeq(us) \cup InSeq(q.work)
          /\ \A i, k \in 1..Len(us \o q.work) :
               (us \o q.work)[i] = (us \o q.work)[k] => i = k
      BY <1>1, <1>2, <1>3, JoinFacts
    <3> QED BY <2>1, <3>1
  <2>2. CASE w = q.work \o us
    <3>1. /\ q.work \o us \in Seq(Items)
          /\ InSeq(q.work \o us) = InSeq(q.work) \cup InSeq(us)
          /\ \A i, k \in 1..Len(q.work \o us) :
               (q.work \o us)[i] = (q.work \o us)[k] => i = k
      BY <1>1, <1>2, <1>3, JoinFacts
    <3> QED BY <2>2, <3>1
  <2> QED BY <2>1, <2>2
<1>5. r \in QueueType /\ r.work = w /\ r.at = q.at /\ r.strays = q.strays
  BY <1>1, <1>4 DEF QueueType
<1> HIDE DEF r
<1>6. \A u \in InSeq(q.work) : q.at[u] = "none"
  BY DEF QueueOK
<1>7. QueueOK(r)
  BY <1>1, <1>4, <1>5, <1>6 DEF QueueOK
<1>8. \A u \in Items : PhaseIn(r, u) = IF u \in InSeq(us) THEN "waiting" ELSE PhaseIn(q, u)
  BY <1>4, <1>5 DEF PhaseIn
<1> QED BY <1>5, <1>7, <1>8 DEF r

LEMMA PushFrontFacts ==
  ASSUME NEW q, QueueOK(q), NEW u \in Items, PhaseIn(q, u) = "none"
  PROVE  /\ QueueOK(PushFront(q, u))
         /\ PushFront(q, u).strays = q.strays
         /\ PushFront(q, u).at = q.at
         /\ \A v \in Items : PhaseIn(PushFront(q, u), v) = IF v = u THEN "waiting" ELSE PhaseIn(q, v)
<1>1. /\ <<u>> \in Seq(Items) /\ InSeq(<<u>>) = {u}
      /\ \A i, k \in 1..Len(<<u>>) : <<u>>[i] = <<u>>[k] => i = k
  BY DEF InSeq
<1> DEFINE us == <<u>>
           w == us \o q.work
<1>2. PushFront(q, u) = [q EXCEPT !.work = w]
  BY DEF PushFront
<1> HIDE DEF us
<1>3. w \in {us \o q.work, q.work \o us}
  OBVIOUS
<1>4. \A v \in InSeq(us) : PhaseIn(q, v) = "none"
  BY <1>1 DEF us
<1>5. us \in Seq(Items) /\ (\A i, k \in 1..Len(us) : us[i] = us[k] => i = k)
  BY <1>1 DEF us
<1> HIDE DEF w
<1>6. /\ QueueOK([q EXCEPT !.work = w])
      /\ [q EXCEPT !.work = w].strays = q.strays
      /\ [q EXCEPT !.work = w].at = q.at
      /\ \A v \in Items : PhaseIn([q EXCEPT !.work = w], v) =
                          IF v \in InSeq(us) THEN "waiting" ELSE PhaseIn(q, v)
  BY <1>3, <1>4, <1>5, JoinedFacts
<1>7. InSeq(us) = {u}
  BY <1>1 DEF us
<1> QED BY <1>2, <1>6, <1>7

LEMMA PushFacts ==
  ASSUME NEW q, QueueOK(q), NEW us \in Seq(Items),
         \A i, k \in 1..Len(us) : us[i] = us[k] => i = k,
         \A u \in InSeq(us) : PhaseIn(q, u) = "none"
  PROVE  /\ QueueOK(Push(q, us))
         /\ Push(q, us).strays = q.strays
         /\ Push(q, us).at = q.at
         /\ \A u \in Items : PhaseIn(Push(q, us), u) =
                             IF u \in InSeq(us) THEN "waiting" ELSE PhaseIn(q, u)
<1> DEFINE w == q.work \o us
<1>1. Push(q, us) = [q EXCEPT !.work = w]
  BY DEF Push
<1>2. w \in {us \o q.work, q.work \o us}
  OBVIOUS
<1> HIDE DEF w
<1>3. /\ QueueOK([q EXCEPT !.work = w])
      /\ [q EXCEPT !.work = w].strays = q.strays
      /\ [q EXCEPT !.work = w].at = q.at
      /\ \A u \in Items : PhaseIn([q EXCEPT !.work = w], u) =
                          IF u \in InSeq(us) THEN "waiting" ELSE PhaseIn(q, u)
  BY <1>2, JoinedFacts
<1> QED BY <1>1, <1>3

LEMMA EmptySeqFacts ==
  ASSUME NEW T, NEW s \in Seq(T)
  PROVE  s = <<>> <=> InSeq(s) = {}
BY InSeqFacts

(* Some items leave the queue.                                             *)
LEMMA OnlyQueued ==
  ASSUME NEW q, QueueOK(q), NEW S
  PROVE  LET w == Only(q.work, Items \ S) IN
         /\ w \in Seq(Items)
         /\ \A i, k \in 1..Len(w) : w[i] = w[k] => i = k
         /\ InSeq(w) = InSeq(q.work) \ S
         /\ w # <<>> => q.work # <<>>
<1> DEFINE w == Only(q.work, Items \ S)
<1>1. /\ q.work \in Seq(Items) /\ InSeq(q.work) \subseteq Items
      /\ \A i, k \in 1..Len(q.work) : q.work[i] = q.work[k] => i = k
  BY ElementOfSeq DEF QueueOK, QueueType, InSeq
<1>2. /\ w \in Seq(Items) /\ InSeq(w) = InSeq(q.work) \cap (Items \ S)
      /\ \A i, k \in 1..Len(w) : w[i] = w[k] => i = k
  BY <1>1, OnlyFacts DEF Once
<1> HIDE DEF w
<1>3. w # <<>> => q.work # <<>>
  BY <1>1, <1>2, EmptySeqFacts
<1> QED BY <1>1, <1>2, <1>3 DEF w

LEMMA DroppedFacts ==
  ASSUME NEW q, QueueOK(q), NEW x
  PROVE  LET r == [q EXCEPT !.work = Only(q.work, Items \ {x})] IN
         /\ QueueOK(r)
         /\ r.work = Only(q.work, Items \ {x}) /\ r.at = q.at /\ r.strays = q.strays
         /\ \A u \in Items : PhaseIn(r, u) =
              IF u = x /\ PhaseIn(q, u) = "waiting" THEN "none" ELSE PhaseIn(q, u)
         /\ NotStalled(q) => NotStalled(r)
<1> DEFINE w == Only(q.work, Items \ {x})
           r == [q EXCEPT !.work = w]
<1>1. /\ w \in Seq(Items) /\ InSeq(w) = InSeq(q.work) \ {x}
      /\ \A i, k \in 1..Len(w) : w[i] = w[k] => i = k
      /\ w # <<>> => q.work # <<>>
  BY OnlyQueued
<1> HIDE DEF w
<1>2. r \in QueueType /\ r.work = w /\ r.at = q.at /\ r.strays = q.strays
  BY <1>1 DEF QueueOK, QueueType
<1> HIDE DEF r
<1>3. \A u \in InSeq(q.work) : q.at[u] = "none"
  BY DEF QueueOK
<1>4. \A u \in Items : q.at[u] # "waiting"
  BY DEF QueueOK, QueueType, Places, RunPlaces
<1>5. QueueOK(r)
  BY <1>1, <1>2, <1>3 DEF QueueOK
<1>6. \A u \in Items : PhaseIn(r, u) =
        IF u = x /\ PhaseIn(q, u) = "waiting" THEN "none" ELSE PhaseIn(q, u)
  BY <1>1, <1>2, <1>3, <1>4 DEF PhaseIn
<1>7. NotStalled(q) => NotStalled(r)
  BY <1>1, <1>2 DEF NotStalled, Busy
<1> QED BY <1>2, <1>5, <1>6, <1>7 DEF r, w

Droppable == {"waiting", "asking", "backoff"}

LEMMA StoppedFacts ==
  ASSUME NEW q, QueueOK(q), NEW S
  PROVE  /\ QueueOK(Stopped(q, S))
         /\ \A u \in Items : PhaseIn(Stopped(q, S), u) =
              IF u \in RangesOf(S) /\ PhaseIn(q, u) \in Droppable THEN "none" ELSE PhaseIn(q, u)
         /\ NotStalled(q) => NotStalled(Stopped(q, S))
<1> DEFINE w == Only(q.work, Items \ RangesOf(S))
           r == Stopped(q, S)
           asked == {u \in RangesOf(S) : q.at[u] = "asking"}
<1>1. /\ w \in Seq(Items) /\ InSeq(w) = InSeq(q.work) \ RangesOf(S)
      /\ \A i, k \in 1..Len(w) : w[i] = w[k] => i = k
      /\ w # <<>> => q.work # <<>>
  BY OnlyQueued
<1>2. /\ IsFiniteSet(asked) /\ Cardinality(asked) \in Nat
      /\ Cardinality(asked) = 0 <=> asked = {}
  BY ItemsFinite, FS_Subset, FS_CardinalityType, FS_EmptySet
<1>3. /\ q.at \in [Items -> Places] /\ q.strays \in Nat
      /\ \A u \in InSeq(q.work) : q.at[u] = "none"
  BY DEF QueueOK, QueueType
<1>4. /\ r.work = w /\ r.strays = q.strays + Cardinality(asked)
      /\ r.at = [u \in Items |-> IF u \in RangesOf(S) /\ q.at[u] \in DroppedPlaces
                                 THEN "none" ELSE q.at[u]]
      /\ r = [work |-> r.work, at |-> r.at, strays |-> r.strays]
  BY DEF Stopped
<1> HIDE DEF w, r
<1>5. r \in QueueType
  <2>1. r.at \in [Items -> Places]
    BY <1>3, <1>4 DEF Places
  <2>2. r.strays \in Nat
    <3> HIDE DEF asked
    <3> QED BY <1>2, <1>3, <1>4
  <2> QED BY <1>1, <1>4, <2>1, <2>2 DEF QueueType
<1>6. InSeq(q.work) \subseteq Items
  BY ElementOfSeq DEF QueueOK, QueueType, InSeq
<1>7. QueueOK(r)
  BY <1>1, <1>3, <1>4, <1>5, <1>6 DEF QueueOK
<1>8. \A u \in Items : PhaseIn(r, u) =
        IF u \in RangesOf(S) /\ PhaseIn(q, u) \in Droppable THEN "none" ELSE PhaseIn(q, u)
  BY <1>1, <1>3, <1>4 DEF PhaseIn, Droppable, DroppedPlaces, Places, RunPlaces
<1>9. ASSUME NotStalled(q) PROVE NotStalled(r)
  <2> SUFFICES ASSUME Busy(q) PROVE Busy(r)
    BY <1>1, <1>4, <1>9 DEF NotStalled
  <2>1. CASE q.strays > 0
    <3> HIDE DEF asked
    <3> QED BY <1>2, <1>3, <1>4, <2>1 DEF Busy
  <2>2. ASSUME NEW u \in Items, q.at[u] \in RunPlaces
        PROVE  Busy(r)
    <3>1. CASE u \in RangesOf(S) /\ q.at[u] \in DroppedPlaces
      <4>1. u \in asked
        BY <2>2, <3>1 DEF DroppedPlaces, RunPlaces
      <4> HIDE DEF asked
      <4> QED BY <1>2, <1>3, <1>4, <4>1 DEF Busy
    <3>2. CASE ~(u \in RangesOf(S) /\ q.at[u] \in DroppedPlaces)
      BY <1>4, <2>2, <3>2 DEF Busy
    <3> QED BY <3>1, <3>2
  <2> QED BY <2>1, <2>2 DEF Busy
<1> QED BY <1>7, <1>8, <1>9 DEF r

LEMMA FinishedFacts ==
  ASSUME NEW q, QueueOK(q), NextTypes, NEW u \in Items, PhaseIn(q, u) # "waiting"
  PROVE  /\ QueueOK(Finished(q, u))
         /\ NotStalled(Finished(q, u))
         /\ \A v \in Items : Pumps(IF v = u THEN "none" ELSE PhaseIn(q, v),
                                   PhaseIn(Finished(q, u), v))
<1>1. "none" \in Places
  BY DEF Places
<1>2. /\ QueueOK(Put(q, u, "none"))
      /\ \A v \in Items : PhaseIn(Put(q, u, "none"), v) = IF v = u THEN "none" ELSE PhaseIn(q, v)
  BY <1>1, PutFacts
<1> QED BY <1>2, PumpedFacts DEF Finished

LEMMA CloserLeavesFacts ==
  ASSUME NEW q, QueueOK(q), NextTypes, NEW j
  PROVE  /\ QueueOK(CloserLeaves(q, j))
         /\ NotStalled(q) => NotStalled(CloserLeaves(q, j))
         /\ \A u \in Items :
              Pumps(IF u \in RangesOf({j}) /\ PhaseIn(q, u) = "closing" THEN "none" ELSE PhaseIn(q, u),
                    PhaseIn(CloserLeaves(q, j), u))
<1> DEFINE C == {u \in RangesOf({j}) : q.at[u] = "closing"}
           r == [q EXCEPT !.at = [u \in Items |-> IF u \in RangesOf({j}) /\ @[u] = "closing"
                                                  THEN "none" ELSE @[u]]]
<1>1. /\ q \in QueueType /\ q.at \in [Items -> Places] /\ InSeq(q.work) \subseteq Items
      /\ \A u \in InSeq(q.work) : q.at[u] = "none"
  BY ElementOfSeq DEF QueueOK, QueueType, InSeq
<1>2. /\ r.work = q.work /\ r.strays = q.strays
      /\ r.at = [u \in Items |-> IF u \in RangesOf({j}) /\ q.at[u] = "closing"
                                 THEN "none" ELSE q.at[u]]
      /\ r = [work |-> r.work, at |-> r.at, strays |-> r.strays]
  BY SMTT(30), <1>1 DEF QueueType
<1>3. CloserLeaves(q, j) = IF \A u \in RangesOf({j}) : q.at[u] # "closing" THEN q ELSE Pumped(r)
  BY Zenon DEF CloserLeaves
<1> HIDE DEF r
<1>4. r.at \in [Items -> Places]
  BY <1>1, <1>2 DEF Places
<1>5. QueueOK(r)
  BY <1>1, <1>2, <1>4 DEF QueueOK, QueueType
<1>6. \A u \in Items : PhaseIn(r, u) =
        IF u \in RangesOf({j}) /\ PhaseIn(q, u) = "closing" THEN "none" ELSE PhaseIn(q, u)
  BY <1>1, <1>2 DEF PhaseIn
<1>7. CASE \A u \in RangesOf({j}) : q.at[u] # "closing"
  <2>1. \A u \in RangesOf({j}) : PhaseIn(q, u) # "closing"
    BY <1>7 DEF PhaseIn
  <2> QED BY <1>3, <1>7, <2>1 DEF Pumps
<1>8. CASE ~\A u \in RangesOf({j}) : q.at[u] # "closing"
  BY <1>3, <1>5, <1>6, <1>8, PumpedFacts
<1> QED BY <1>7, <1>8

-----------------------------------------------------------------------------
(* The inductive invariant, from what a step does to the phases.           *)

LEMMA SetQueueFacts ==
  ASSUME NEW q, QueueOK(q), SetQueue(q)
  PROVE  /\ Q' = q /\ QueueOK(Q)'
         /\ work' \in Seq(Items) /\ at' \in [Items -> Places] /\ strays' \in Nat
         /\ \A u \in Items : Phase(u)' = PhaseIn(q, u)
         /\ NotStalled(q) => NoStall'
<1>1. /\ q \in QueueType
      /\ work' = q.work /\ at' = q.at /\ strays' = q.strays
  BY DEF QueueOK, SetQueue
<1>2. Q' = q
  BY <1>1 DEF Q, QueueType
<1>3. QueueOK(Q)'
  BY <1>2 DEF QueueOK, QueueType, InSeq
<1>4. work' \in Seq(Items) /\ at' \in [Items -> Places] /\ strays' \in Nat
  BY <1>1 DEF QueueType
<1>5. \A u \in Items : Phase(u)' = PhaseIn(q, u)
  BY <1>2 DEF Phase, PhaseIn, InSeq
<1>6. Running(Q)' = Running(q)
  BY <1>2 DEF Running
<1>7. NotStalled(q) => NoStall'
  BY <1>1, <1>6, RunningIsBusy DEF NotStalled, NoStall
<1> QED BY <1>2, <1>3, <1>4, <1>5, <1>7

(* The ranges that are still to be received, by their phases.              *)
LivePhases == {"waiting", "asking", "receiving", "backoff"}

LEMMA LiveByPhase ==
  ASSUME NEW j
  PROVE  /\ QueueOK(Q) => LiveRanges(j) = {u \in RangesOf({j}) : Phase(u) \in LivePhases}
         /\ QueueOK(Q)' => LiveRanges(j)' = {u \in RangesOf({j}) : Phase(u)' \in LivePhases}
<1>1. RangesOf({j}) \subseteq Items /\ RangesOf({j})' = RangesOf({j})
  BY ItemFacts DEF RangesOf
<1>2. ASSUME QueueOK(Q)
      PROVE  LiveRanges(j) = {u \in RangesOf({j}) : Phase(u) \in LivePhases}
  BY <1>1, <1>2 DEF QueueOK, QueueType, Q, LiveRanges, Waiting, Phase, PhaseIn, LivePhases, Places, RunPlaces
<1>3. ASSUME QueueOK(Q)'
      PROVE  LiveRanges(j)' = {u \in RangesOf({j}) : Phase(u)' \in LivePhases}
  BY <1>1, <1>3 DEF QueueOK, QueueType, Q, LiveRanges, Waiting, Phase, PhaseIn, LivePhases, Places, RunPlaces
<1> QED BY <1>2, <1>3

LEMMA ReceivingByPhase ==
  ASSUME NEW q, QueueOK(q), NEW j
  PROVE  Receiving(q.at, j) <=> \E u \in RangesOf({j}) : PhaseIn(q, u) = "receiving"
  BY DEF QueueOK, Receiving, PhaseIn

(* stopSegmented() of one job leaves the other splits alone.               *)
LEMMA StoppedSplitFacts ==
  ASSUME TypeOK, NEW q, QueueOK(q), NEW j \in Jobs, split' = StoppedSplit(q, {j})
  PROVE  /\ split' = [split EXCEPT ![j] = split'[j]]
         /\ split'[j] = IF \E v \in RangesOf({j}) : PhaseIn(q, v) = "receiving"
                        THEN "stopped" ELSE "closing"
<1>1. Receiving(q.at, j) <=> \E v \in RangesOf({j}) : PhaseIn(q, v) = "receiving"
  BY ReceivingByPhase
<1>2. \A i \in Jobs : split'[i] = IF i # j THEN split[i]
                                 ELSE IF Receiving(q.at, i) THEN "stopped" ELSE "closing"
  BY DEF StoppedSplit
<1>3. split' \in [Jobs -> {split'[i] : i \in Jobs}] /\ DOMAIN split = Jobs
  BY DEF StoppedSplit, TypeOK
<1>4. split' = [split EXCEPT ![j] = split'[j]]
  BY <1>2, <1>3
<1> QED BY <1>1, <1>2, <1>4

(* Where the ranges of j stay or leave the live ones together, the count    *)
(* is kept.                                                                *)
LEMMA SameCount ==
  ASSUME QueueOK(Q), QueueOK(Q)', NEW j,
         \A u \in RangesOf({j}) : Phase(u) \in LivePhases <=> Phase(u)' \in LivePhases
  PROVE  LiveRanges(j)' = LiveRanges(j)
  BY LiveByPhase

(* What pump() and a run() that gives its item back may do to an item: give *)
(* it a client, or queue it again if it is runnable.                       *)
ShufflesTo(u, p) ==
  \/ p = Phase(u)
  \/ Phase(u) \in {"waiting", "asking", "backoff"} /\ Runnable(u) /\ p \in {"waiting", "asking"}
  \/ Phase(u) \in {"asking", "backoff"} /\ ~Runnable(u) /\ p = "none"

(* A step that is about other owners: the fields of o, and its items.      *)
Alike(o) ==
  /\ status'[o] = status[o]
  /\ o \in Jobs =>
       /\ split'[o] = split[o] /\ remaining'[o] = remaining[o]
       /\ o \in plain' <=> o \in plain
       /\ o \in sole' <=> o \in sole
       /\ o \in cleanups' <=> o \in cleanups
       /\ o \in unlinks' <=> o \in unlinks
       /\ o \in reviving' <=> o \in reviving
       /\ o \in reviveLater' <=> o \in reviveLater
  /\ o \in Downloads =>
       /\ file'[o] = file[o]
       /\ o \in opened' <=> o \in opened
       /\ o \in created' <=> o \in created

Untouched(o) ==
  /\ Alike(o)
  /\ ShufflesTo(Whole(o), Phase(Whole(o))')
  /\ \A u \in RangesOf({o}) : ShufflesTo(u, Phase(u)')

LEMMA RangeFacts ==
  ASSUME NEW o \in Owners, NEW u \in RangesOf({o})
  PROVE  u \in Items /\ u[1] = o /\ u[2] > 0 /\ o \in Large /\ Runnable(u)
  BY ItemFacts DEF Runnable

LEMMA UntouchedKeeps ==
  ASSUME Inv, QueueOK(Q)', NEW o \in Owners, Untouched(o)
  PROVE  OwnerInv(o)'
<1>1. OwnerInv(o) /\ Runnable(Whole(o)) = (status[o] = "pending") /\ reviving \subseteq Jobs
  BY DEF Inv, Runnable, Whole, TypeOK
<1>2. \A u \in RangesOf({o}) :
        \/ Phase(u)' = Phase(u)
        \/ Phase(u) \in {"waiting", "asking", "backoff"} /\ Phase(u)' \in {"waiting", "asking"}
  BY RangeFacts DEF Untouched, Alike, ShufflesTo
<1>3. \/ Phase(Whole(o))' = Phase(Whole(o))
      \/ /\ Phase(Whole(o)) \in {"waiting", "asking", "backoff"} /\ status[o] = "pending"
         /\ Phase(Whole(o))' \in {"waiting", "asking"}
      \/ /\ Phase(Whole(o)) \in {"asking", "backoff"} /\ status[o] # "pending"
         /\ Phase(Whole(o))' = "none"
  BY <1>1 DEF Untouched, Alike, ShufflesTo
<1> USE DEF OwnerInv
<1>4. WholeInv(o)'
  BY <1>1, <1>3, ItemFacts DEF WholeInv, Untouched, Alike, WholeRuns
<1> SUFFICES ASSUME o \in Jobs
             PROVE  /\ SplitInv(o)' /\ RangesInv(o)' /\ CountInv(o)' /\ RemovalsInv(o)'
                    /\ o \in Downloads => FilesInv(o)'
  BY <1>4, ItemFacts
<1>5. SplitInv(o)'
  BY <1>1, <1>2, <1>3 DEF SplitInv, Untouched, Alike
<1>6. RangesInv(o)'
  BY <1>1, <1>2 DEF RangesInv, Untouched, Alike
<1>7. CountInv(o)'
  <2> SUFFICES ASSUME split'[o] = "open"
               PROVE  remaining'[o] = Cardinality(LiveRanges(o))'
    BY DEF CountInv
  <2>1. \A u \in RangesOf({o}) : Phase(u) \in LivePhases <=> Phase(u)' \in LivePhases
    BY <1>2 DEF LivePhases
  <2>2. LiveRanges(o)' = LiveRanges(o)
    BY <2>1, SameCount DEF Inv
  <2> QED BY <1>1, <2>2 DEF CountInv, Untouched, Alike
<1>8. RemovalsInv(o)'
  BY <1>1, <1>3 DEF RemovalsInv, Untouched, Alike
<1>9. ASSUME o \in Downloads PROVE FilesInv(o)'
  BY <1>1, <1>3, <1>9 DEF FilesInv, Untouched, Alike
<1> QED BY <1>5, <1>6, <1>7, <1>8, <1>9

LEMMA PhaseOfRun ==
  ASSUME QueueOK(Q), NEW u \in Items
  PROVE  /\ Phase(u) = PhaseIn(Q, u)
         /\ at[u] # "none" => Phase(u) = at[u]
         /\ Phase(u) # "waiting" => Phase(u) = at[u]
  BY DEF QueueOK, Q, Phase, PhaseIn

(* What pump() does alone, or a run() that only gave its item back.        *)
LEMMA ShuffleStep ==
  ASSUME Inv, NEW q, QueueOK(q), \A u \in Items : ShufflesTo(u, PhaseIn(q, u)),
         SetQueue(q), NotStalled(q), NextTypes, failures' \in 0..MaxLoginFailures - 1,
         UNCHANGED <<status, retries, plain, onMain, splits, files, removals, user>>
  PROVE  Inv'
<1>1. /\ QueueOK(Q)' /\ NoStall'
      /\ work' \in Seq(Items) /\ at' \in [Items -> Places] /\ strays' \in Nat
      /\ \A u \in Items : ShufflesTo(u, Phase(u)')
  BY SetQueueFacts
<1>2. TypeOK'
  BY <1>1 DEF Inv, TypeOK, NextTypes, splits, files, removals, user
<1>3. \A o \in Owners : Untouched(o)
  BY <1>1, ItemFacts DEF Untouched, Alike, splits, files, removals, user
<1> QED BY <1>1, <1>2, <1>3, UntouchedKeeps DEF Inv

LEMMA PumpedShuffle ==
  ASSUME Inv, NEW u \in Items, NEW p, NEW r, ShufflesTo(u, p), Pumps(p, r)
  PROVE  ShufflesTo(u, r)
<1>1. OwnerInv(u[1]) /\ (u[2] = 0 => u = Whole(u[1])) /\ u[2] \in Nat
  BY ItemFacts DEF Inv
<1>2. Phase(u) = "waiting" => Runnable(u)
  BY <1>1 DEF OwnerInv, WholeInv, Runnable
<1> QED BY <1>2 DEF ShufflesTo, Pumps

-----------------------------------------------------------------------------
(* How the run() of a whole job ends.                                      *)

LEMMA RunFacts ==
  ASSUME Inv, NEW j \in Jobs, at[Whole(j)] \in WholeRuns
  PROVE  /\ Phase(Whole(j)) = at[Whole(j)]
         /\ split[j] = "none" /\ status[j] \in {"active", "cancelled"}
         /\ j \notin sole \cup cleanups \cup unlinks \cup reviving \cup reviveLater
         /\ \A u \in RangesOf({j}) : Phase(u) = "none"
<1>1. Whole(j) \in Items /\ OwnerInv(j) /\ j \in Owners
  BY ItemFacts DEF Inv
<1>2. Phase(Whole(j)) = at[Whole(j)]
  BY <1>1, PhaseOfRun DEF Inv, WholeRuns
<1> QED BY <1>1, <1>2 DEF OwnerInv, WholeInv, SplitInv, RangesInv, RemovalsInv, WholeRuns

(* The step is about the file of j at most, and leaves it in order.        *)
FilesCarry(j) ==
  /\ \A i \in Downloads \ {j} : /\ file'[i] = file[i]
                                /\ i \in opened' <=> i \in opened
                                /\ i \in created' <=> i \in created
  /\ j \in Downloads =>
       /\ file'[j] = "partial" => j \in opened'
       /\ file'[j] \in {"partial", "whole"} /\ j \in Exclusive /\ j \in opened' => j \in created'
       /\ j \in created' => file'[j] \in {"partial", "whole"}
       /\ status[j] = "active" /\ j \in opened' => file'[j] = "partial"

FilesTyped ==
  /\ file' \in [Downloads -> {"absent", "theirs", "partial", "whole"}]
  /\ opened' \in SUBSET Downloads /\ created' \in SUBSET Exclusive

LEMMA EndsStep ==
  ASSUME Inv, NEW j \in Jobs, at[Whole(j)] \in WholeRuns,
         FilesCarry(j), FilesTyped, onMain' \subseteq Jobs,
         UNCHANGED <<plain, logins, slots, splits, user>>,
         RetryLater(j) \/ Fail(j) \/ EndCancelled(j) \/ Requeue(j)
  PROVE  Inv'
<1> DEFINE u == Whole(j)
<1>1. /\ Phase(u) = at[u] /\ at[u] \in WholeRuns
      /\ split[j] = "none" /\ status[j] \in {"active", "cancelled"}
      /\ j \notin sole \cup cleanups \cup unlinks \cup reviving \cup reviveLater
      /\ \A v \in RangesOf({j}) : Phase(v) = "none"
  BY RunFacts
<1>2. /\ u \in Items /\ j \in Owners /\ QueueOK(Q) /\ TypeOK
      /\ \A v \in Items : Phase(v) = PhaseIn(Q, v)
      /\ NextTypes /\ failures' \in 0..MaxLoginFailures - 1
      /\ PhaseIn(Q, u) # "waiting"
  BY <1>1, ItemFacts, QueueAssumption
     DEF Inv, TypeOK, NextTypes, logins, Phase, WholeRuns, QueueAssumption
<1>3. \A v \in Items : v # u => v[1] # j \/ v \in RangesOf({j})
  BY ItemFacts DEF Whole
<1> HIDE DEF u
<1>4. \E q, p : /\ QueueOK(q) /\ NotStalled(q) /\ SetQueue(q)
                /\ \A v \in Items : v # u => Pumps(Phase(v), PhaseIn(q, v))
                /\ PhaseIn(q, u) = p
                /\ \/ RetryLater(j) /\ p = "backoff"
                   \/ (Fail(j) \/ EndCancelled(j)) /\ p = "none"
                   \/ Requeue(j) /\ p \in {"waiting", "asking"}
  <2>1. CASE RetryLater(j)
    <3> DEFINE q == Pumped(Put(Q, u, "backoff"))
    <3>1. SetQueue(q) /\ "backoff" \in Places
      BY <2>1 DEF RetryLater, u, Places
    <3>2. /\ QueueOK(Put(Q, u, "backoff"))
          /\ \A v \in Items : PhaseIn(Put(Q, u, "backoff"), v) =
                              IF v = u THEN "backoff" ELSE PhaseIn(Q, v)
      BY <1>2, <3>1, PutFacts
    <3>3. /\ QueueOK(q) /\ NotStalled(q)
          /\ \A v \in Items : Pumps(PhaseIn(Put(Q, u, "backoff"), v), PhaseIn(q, v))
      BY <1>2, <3>2, PumpedFacts
    <3> HIDE DEF q
    <3>4. /\ \A v \in Items : v # u => Pumps(Phase(v), PhaseIn(q, v))
          /\ PhaseIn(q, u) = "backoff"
      BY <1>2, <3>2, <3>3 DEF Pumps
    <3> QED BY <2>1, <3>1, <3>3, <3>4
  <2>2. CASE Fail(j) \/ EndCancelled(j)
    <3> DEFINE q == Finished(Q, u)
    <3>1. SetQueue(q)
      BY <2>2 DEF Fail, EndCancelled, u
    <3>2. /\ QueueOK(q) /\ NotStalled(q)
          /\ \A v \in Items : Pumps(IF v = u THEN "none" ELSE PhaseIn(Q, v), PhaseIn(q, v))
      BY <1>2, FinishedFacts
    <3> HIDE DEF q
    <3>3. /\ \A v \in Items : v # u => Pumps(Phase(v), PhaseIn(q, v))
          /\ PhaseIn(q, u) = "none"
      BY <1>2, <3>2 DEF Pumps
    <3> QED BY <2>2, <3>1, <3>2, <3>3
  <2>3. CASE Requeue(j)
    <3> DEFINE s == Put(Q, u, "none")
               t == PushFront(s, u)
               q == Pumped(t)
    <3>1. SetQueue(q) /\ "none" \in Places
      BY <2>3 DEF Requeue, u, Places
    <3>2. /\ QueueOK(s)
          /\ \A v \in Items : PhaseIn(s, v) = IF v = u THEN "none" ELSE PhaseIn(Q, v)
      BY <1>2, <3>1, PutFacts
    <3> HIDE DEF s
    <3>3. /\ QueueOK(t)
          /\ \A v \in Items : PhaseIn(t, v) = IF v = u THEN "waiting" ELSE PhaseIn(s, v)
      BY <1>2, <3>2, PushFrontFacts
    <3> HIDE DEF t
    <3>4. /\ QueueOK(q) /\ NotStalled(q)
          /\ \A v \in Items : Pumps(PhaseIn(t, v), PhaseIn(q, v))
      BY <1>2, <3>3, PumpedFacts
    <3> HIDE DEF q
    <3>5. /\ \A v \in Items : v # u => Pumps(Phase(v), PhaseIn(q, v))
          /\ PhaseIn(q, u) \in {"waiting", "asking"}
      BY <1>2, <3>2, <3>3, <3>4 DEF Pumps
    <3> QED BY <2>3, <3>1, <3>4, <3>5
  <2> QED BY <2>1, <2>2, <2>3
<1>5. PICK q, p : /\ QueueOK(q) /\ NotStalled(q) /\ SetQueue(q)
                  /\ \A v \in Items : v # u => Pumps(Phase(v), PhaseIn(q, v))
                  /\ PhaseIn(q, u) = p
                  /\ \/ RetryLater(j) /\ p = "backoff"
                     \/ (Fail(j) \/ EndCancelled(j)) /\ p = "none"
                     \/ Requeue(j) /\ p \in {"waiting", "asking"}
  BY <1>4
<1>6. /\ QueueOK(Q)' /\ NoStall'
      /\ work' \in Seq(Items) /\ at' \in [Items -> Places] /\ strays' \in Nat
      /\ \A v \in Items : v # u => Pumps(Phase(v), Phase(v)')
      /\ Phase(u)' = p
  BY <1>2, <1>5, SetQueueFacts
<1>7. /\ status' = [status EXCEPT ![j] = status'[j]]
      /\ \/ p = "backoff" /\ status[j] = "active" /\ status'[j] = "pending" /\ removals' = removals
         \/ /\ p = "none" /\ status[j] = "active" /\ status'[j] = "failed" /\ unlinks' = unlinks
            /\ cleanups' = IF j \in opened' THEN cleanups \cup {j} ELSE cleanups
         \/ /\ p = "none" /\ status[j] = "cancelled" /\ status'[j] = "cancelled"
            /\ cleanups' = cleanups /\ unlinks' = unlinks \cup ({j} \cap Downloads)
         \/ /\ p \in {"waiting", "asking"} /\ status[j] = "active" /\ status'[j] = "pending"
            /\ removals' = removals
  BY <1>2, <1>5 DEF RetryLater, Fail, EndCancelled, Requeue, TypeOK
<1>8. retries' \in [Items -> 0..MaxRetries]
  <2>1. /\ retries \in [Items -> 0..MaxRetries] /\ MaxRetries \in Nat
        /\ \/ retries' = retries
           \/ /\ retries[u] < MaxRetries
              /\ retries' = [retries EXCEPT ![u] = retries[u] + 1]
    BY <1>2, <1>5, QueueAssumption
       DEF RetryLater, Fail, EndCancelled, Requeue, TypeOK, NextAttempt, u, QueueAssumption
  <2> QED BY <2>1
<1>9. TypeOK'
  BY <1>2, <1>6, <1>7, <1>8
     DEF TypeOK, Final, FilesTyped, NextTypes, logins, splits, user, removals
<1>10. \A o \in Owners \ {j} : Untouched(o)
  <2> TAKE o \in Owners \ {j}
  <2>1. /\ Whole(o) # u /\ Whole(o) \in Items
        /\ \A v \in RangesOf({o}) : v # u /\ v \in Items
    BY ItemFacts DEF u
  <2>2. \A v \in Items : v # u => ShufflesTo(v, Phase(v)')
    BY <1>6, PumpedShuffle DEF ShufflesTo
  <2>3. status'[o] = status[o]
    BY <1>2, <1>7 DEF TypeOK
  <2> QED BY <2>1, <2>2, <2>3, <1>7 DEF Untouched, Alike, FilesCarry, splits, user, removals
<1>11. OwnerInv(j)'
  <2>1. /\ \A v \in RangesOf({j}) : Phase(v)' = "none"
        /\ Phase(Whole(j))' = p
    BY <1>1, <1>6, ItemFacts DEF Pumps, u
  <2>2. /\ split'[j] = "none" /\ plain' = plain /\ j \notin sole'
        /\ reviving' = reviving /\ reviveLater' = reviveLater
    BY <1>1 DEF splits, user
  <2>3. WholeInv(j)'
    BY <1>7, <2>1, <2>2 DEF WholeInv, WholeRuns
  <2>4. SplitInv(j)' /\ RangesInv(j)' /\ CountInv(j)'
    BY <2>1, <2>2 DEF SplitInv, RangesInv, CountInv
  <2>5. RemovalsInv(j)'
    BY <1>1, <1>7, <2>1, <2>2 DEF RemovalsInv, removals
  <2>6. ASSUME j \in Downloads PROVE FilesInv(j)'
    BY <1>1, <1>7, <2>1, <2>2, <2>6 DEF FilesInv, FilesCarry, removals
  <2> QED BY <2>3, <2>4, <2>5, <2>6 DEF OwnerInv
<1> QED BY <1>6, <1>9, <1>10, <1>11, UntouchedKeeps DEF Inv

LEMMA FileSteps ==
  ASSUME Inv, NEW j \in Jobs, at[Whole(j)] \in WholeRuns
  PROVE  /\ UNCHANGED files => FilesCarry(j) /\ FilesTyped
         /\ RemoveEmpty(j) => FilesCarry(j) /\ FilesTyped
         /\ j \in Downloads /\ OpenFile(j) =>
              FilesCarry(j) /\ FilesTyped /\ file'[j] = "partial" /\ j \in opened'
         /\ /\ at[Whole(j)] = "moving" /\ status[j] = "cancelled"
            /\ file' = IF j \in Downloads THEN [file EXCEPT ![j] = "whole"] ELSE file
            /\ UNCHANGED <<opened, created>>
            => FilesCarry(j) /\ FilesTyped
<1>1. /\ TypeOK /\ (j \in Downloads => FilesInv(j))
      /\ Phase(Whole(j)) = at[Whole(j)]
  BY RunFacts, ItemFacts DEF Inv, OwnerInv
<1> USE DEF FilesCarry, FilesTyped, TypeOK
<1>2. ASSUME UNCHANGED files PROVE FilesCarry(j) /\ FilesTyped
  BY <1>1, <1>2 DEF files, FilesInv
<1>3. ASSUME RemoveEmpty(j) PROVE FilesCarry(j) /\ FilesTyped
  BY <1>1, <1>3 DEF RemoveEmpty, FilesInv
<1>4. ASSUME j \in Downloads, OpenFile(j)
      PROVE  FilesCarry(j) /\ FilesTyped /\ file'[j] = "partial" /\ j \in opened'
  BY <1>1, <1>4 DEF OpenFile, FilesInv
<1>5. ASSUME at[Whole(j)] = "moving", status[j] = "cancelled",
             file' = IF j \in Downloads THEN [file EXCEPT ![j] = "whole"] ELSE file,
             UNCHANGED <<opened, created>>
      PROVE  FilesCarry(j) /\ FilesTyped
  BY <1>1, <1>5 DEF FilesInv
<1> QED BY <1>2, <1>3, <1>4, <1>5

LEMMA CompleteStep ==
  ASSUME Inv, NEW j \in Jobs, at[Whole(j)] = "moving", RunEnds(j), Complete(j),
         file' = IF j \in Downloads THEN [file EXCEPT ![j] = "whole"] ELSE file,
         UNCHANGED <<opened, created>>
  PROVE  Inv'
<1> DEFINE u == Whole(j)
           q == Finished(Q, u)
<1>1. /\ Phase(u) = "moving"
      /\ split[j] = "none" /\ status[j] = "active"
      /\ j \notin sole \cup cleanups \cup unlinks \cup reviving \cup reviveLater
      /\ \A v \in RangesOf({j}) : Phase(v) = "none"
  BY RunFacts DEF WholeRuns, Complete, NotCancelled
<1>2. /\ u \in Items /\ j \in Owners /\ QueueOK(Q) /\ TypeOK
      /\ \A v \in Items : Phase(v) = PhaseIn(Q, v)
      /\ NextTypes
      /\ PhaseIn(Q, u) # "waiting"
  BY <1>1, ItemFacts, QueueAssumption
     DEF Inv, TypeOK, NextTypes, RunEnds, logins, Phase, QueueAssumption
<1> HIDE DEF u
<1>3. /\ status' = [status EXCEPT ![j] = "completed"] /\ SetQueue(q)
      /\ retries' = retries /\ removals' = removals
      /\ onMain' = onMain \ {j} /\ UNCHANGED <<plain, logins, slots, splits, user>>
  BY DEF Complete, RunEnds, u
<1>4. /\ QueueOK(q) /\ NotStalled(q)
      /\ \A v \in Items : Pumps(IF v = u THEN "none" ELSE PhaseIn(Q, v), PhaseIn(q, v))
  BY <1>2, FinishedFacts
<1> HIDE DEF q
<1>5. /\ QueueOK(Q)' /\ NoStall'
      /\ work' \in Seq(Items) /\ at' \in [Items -> Places] /\ strays' \in Nat
      /\ \A v \in Items : v # u => Pumps(Phase(v), Phase(v)')
      /\ Phase(u)' = "none"
  BY <1>2, <1>3, <1>4, SetQueueFacts DEF Pumps
<1>6. TypeOK'
  BY <1>2, <1>3, <1>5 DEF TypeOK, Final, NextTypes, logins, splits, user, removals
<1>7. \A o \in Owners \ {j} : Untouched(o)
  <2> TAKE o \in Owners \ {j}
  <2>1. /\ Whole(o) # u /\ Whole(o) \in Items
        /\ \A v \in RangesOf({o}) : v # u /\ v \in Items
    BY ItemFacts DEF u
  <2>2. \A v \in Items : v # u => ShufflesTo(v, Phase(v)')
    BY <1>5, PumpedShuffle DEF ShufflesTo
  <2>3. status'[o] = status[o] /\ (o \in Downloads => file'[o] = file[o])
    BY <1>2, <1>3 DEF TypeOK
  <2> QED BY <2>1, <2>2, <2>3, <1>3 DEF Untouched, Alike, splits, user, removals
<1>8. OwnerInv(j)'
  <2>1. /\ \A v \in RangesOf({j}) : Phase(v)' = "none"
        /\ Phase(Whole(j))' = "none" /\ status'[j] = "completed"
        /\ split'[j] = "none" /\ j \notin sole'
    <3>1. \A v \in RangesOf({j}) : v \in Items /\ v # u
      BY ItemFacts DEF u
    <3>2. status'[j] = "completed" /\ split'[j] = "none" /\ j \notin sole'
      BY <1>1, <1>2, <1>3 DEF splits, TypeOK
    <3> QED BY <1>1, <1>5, <3>1, <3>2 DEF Pumps, u
  <2>2. WholeInv(j)'
    BY <2>1 DEF WholeInv, WholeRuns
  <2>3. SplitInv(j)' /\ RangesInv(j)' /\ CountInv(j)'
    BY <2>1 DEF SplitInv, RangesInv, CountInv
  <2>4. RemovalsInv(j)'
    BY <1>1, <1>3, <2>1 DEF RemovalsInv, removals, user
  <2>5. ASSUME j \in Downloads PROVE FilesInv(j)'
    <3>1. FilesInv(j) /\ file'[j] = "whole" /\ j \notin cleanups'
      BY <1>1, <1>2, <1>3, <2>5 DEF Inv, OwnerInv, TypeOK, removals
    <3> QED BY <1>1, <2>1, <3>1 DEF FilesInv, u
  <2> QED BY <2>2, <2>3, <2>4, <2>5 DEF OwnerInv
<1> QED BY <1>5, <1>6, <1>7, <1>8, UntouchedKeeps DEF Inv

LEMMA TransferSucceedsStep ==
  ASSUME Inv, NEW j \in Jobs, TransferSucceeds(j)
  PROVE  Inv'
<1>1. /\ at[Whole(j)] = "moving" /\ RunEnds(j)
      /\ file' = IF j \in Downloads THEN [file EXCEPT ![j] = "whole"] ELSE file
      /\ UNCHANGED <<opened, created>>
      /\ Complete(j) \/ EndCancelled(j)
  BY DEF TransferSucceeds
<1>2. CASE Complete(j)
  BY <1>1, <1>2, CompleteStep
<1>3. CASE EndCancelled(j)
  <2>1. at[Whole(j)] \in WholeRuns /\ status[j] = "cancelled"
    BY <1>1, <1>3 DEF WholeRuns, EndCancelled
  <2>2. FilesCarry(j) /\ FilesTyped
    BY <1>1, <2>1, FileSteps
  <2>3. onMain' \subseteq Jobs /\ UNCHANGED <<plain, logins, slots, splits, user>>
    BY <1>1 DEF RunEnds, Inv, TypeOK
  <2> QED BY <1>3, <2>1, <2>2, <2>3, EndsStep
<1> QED BY <1>1, <1>2, <1>3

LEMMA RunEndsStep ==
  ASSUME Inv, NEW j \in Jobs,
         OpenFails(j) \/ TransferFails(j) \/ TransferRequeued(j)
  PROVE  Inv'
<1>1. /\ at[Whole(j)] \in WholeRuns /\ RunEnds(j)
      /\ UNCHANGED files \/ RemoveEmpty(j)
      /\ RetryLater(j) \/ Fail(j) \/ EndCancelled(j) \/ Requeue(j)
  BY DEF OpenFails, TransferFails, TransferRequeued, WholeRuns
<1>2. FilesCarry(j) /\ FilesTyped
  BY <1>1, FileSteps
<1>3. onMain' \subseteq Jobs /\ UNCHANGED <<plain, logins, slots, splits, user>>
  BY <1>1 DEF RunEnds, Inv, TypeOK
<1> QED BY <1>1, <1>2, <1>3, EndsStep

(* A run goes on to its next await.                                        *)
Awaits(j, p) ==
  /\ at[Whole(j)] \in {"sizing", "toOpen"}
  /\ \/ at[Whole(j)] = "sizing" /\ p \in {"opening", "toOpen"}
     \/ at[Whole(j)] = "toOpen" /\ p = "moving" /\ j \in Downloads /\ file'[j] = "partial"
  /\ at' = [at EXCEPT ![Whole(j)] = p]
  /\ UNCHANGED <<status, work, strays, retries, plain, onMain, logins, slots, splits, removals, user>>

LEMMA MoveStep ==
  ASSUME Inv, NEW j \in Jobs, NEW p, Awaits(j, p), FilesCarry(j), FilesTyped
  PROVE  Inv'
<1> USE DEF Awaits
<1> DEFINE u == Whole(j)
           q == Put(Q, u, p)
<1>1. /\ Phase(u) = at[u]
      /\ split[j] = "none" /\ status[j] \in {"active", "cancelled"}
      /\ j \notin sole \cup cleanups \cup unlinks \cup reviving \cup reviveLater
      /\ \A v \in RangesOf({j}) : Phase(v) = "none"
  BY RunFacts DEF WholeRuns
<1>2. /\ u \in Items /\ j \in Owners /\ QueueOK(Q) /\ TypeOK /\ NoStall
      /\ \A v \in Items : Phase(v) = PhaseIn(Q, v)
      /\ PhaseIn(Q, u) # "waiting" /\ p \in RunPlaces /\ p \in Places
      /\ \A v \in RangesOf({j}) : v # u /\ v \in Items
  BY <1>1, ItemFacts DEF Inv, Phase, Places, RunPlaces
<1>3. /\ QueueOK(q) /\ q.strays = strays /\ q.work = work /\ q.at = [at EXCEPT ![u] = p]
      /\ \A v \in Items : PhaseIn(q, v) = IF v = u THEN p ELSE PhaseIn(Q, v)
  <2>1. /\ QueueOK(q) /\ q.strays = Q.strays /\ q.work = Q.work /\ q.at = [Q.at EXCEPT ![u] = p]
        /\ \A v \in Items : PhaseIn(q, v) = IF v = u THEN p ELSE PhaseIn(Q, v)
    <3> HIDE DEF u
    <3> QED BY <1>2, PutFacts
  <2>2. Q.strays = strays /\ Q.work = work /\ Q.at = at
    BY DEF Q
  <2> HIDE DEF q, u
  <2> QED BY <2>1, <2>2
<1>4. SetQueue(q)
  BY <1>3 DEF SetQueue
<1> HIDE DEF q, u
<1>5. NotStalled(q)
  <2>1. q.at[u] \in RunPlaces
    BY <1>2, <1>3 DEF TypeOK
  <2> QED BY <1>2, <2>1 DEF NotStalled, Busy
<1>6. /\ QueueOK(Q)' /\ NoStall'
      /\ work' \in Seq(Items) /\ at' \in [Items -> Places] /\ strays' \in Nat
      /\ \A v \in Items : v # u => Phase(v) = Phase(v)'
      /\ Phase(u)' = p
  BY <1>2, <1>3, <1>4, <1>5, SetQueueFacts
<1>7. TypeOK'
  BY <1>2, <1>6 DEF TypeOK, FilesTyped, logins, splits, user, removals
<1>8. \A o \in Owners \ {j} : Untouched(o)
  <2> TAKE o \in Owners \ {j}
  <2>1. /\ Whole(o) # u /\ Whole(o) \in Items
        /\ \A v \in RangesOf({o}) : v # u /\ v \in Items
    BY ItemFacts DEF u
  <2> QED BY <2>1, <1>6 DEF Untouched, Alike, ShufflesTo, FilesCarry, splits, user, removals
<1>9. OwnerInv(j)'
  <2>1. /\ \A v \in RangesOf({j}) : Phase(v)' = "none"
        /\ Phase(Whole(j))' = p /\ split'[j] = "none" /\ j \notin sole'
    BY <1>1, <1>2, <1>6 DEF u, splits
  <2>2. OwnerInv(j)
    BY <1>2 DEF Inv
  <2>3. WholeInv(j)'
    BY <1>1, <2>1, <2>2, ItemFacts DEF OwnerInv, WholeInv, WholeRuns, u
  <2>4. SplitInv(j)' /\ RangesInv(j)' /\ CountInv(j)'
    BY <2>1 DEF SplitInv, RangesInv, CountInv
  <2>5. RemovalsInv(j)'
    BY <1>1, <2>1 DEF RemovalsInv, removals, user
  <2>6. ASSUME j \in Downloads PROVE FilesInv(j)'
    BY <1>1, <2>1, <2>6 DEF FilesInv, FilesCarry, removals
  <2> QED BY <2>3, <2>4, <2>5, <2>6 DEF OwnerInv
<1> QED BY <1>6, <1>7, <1>8, <1>9, UntouchedKeeps DEF Inv

LEMMA SizeAnswersStep ==
  ASSUME Inv, NEW j \in Jobs, SizeAnswers(j)
  PROVE  Inv'
<1>1. at[Whole(j)] = "sizing" /\ UNCHANGED files
  BY DEF SizeAnswers
<1>2. at[Whole(j)] \in WholeRuns
  BY <1>1 DEF WholeRuns
<1>3. FilesCarry(j) /\ FilesTyped
  BY <1>1, <1>2, FileSteps
<1>4. CASE RunEnds(j) /\ EndCancelled(j)
  <2>1. onMain' \subseteq Jobs /\ UNCHANGED <<plain, logins, slots, splits, user>>
    BY <1>4 DEF RunEnds, Inv, TypeOK
  <2> QED BY <1>2, <1>3, <1>4, <2>1, EndsStep
<1>5. CASE ~(RunEnds(j) /\ EndCancelled(j))
  <2>1. Awaits(j, "opening") \/ Awaits(j, "toOpen")
    BY <1>1, <1>5 DEF SizeAnswers, Awaits
  <2> QED BY <1>3, <2>1, MoveStep
<1> QED BY <1>4, <1>5

LEMMA OpenOneStreamStep ==
  ASSUME Inv, NEW j \in Jobs, OpenOneStream(j)
  PROVE  Inv'
<1>1. /\ at[Whole(j)] = "toOpen" /\ OpenFile(j)
      /\ at' = [at EXCEPT ![Whole(j)] = "moving"]
      /\ UNCHANGED <<status, work, strays, retries, plain, onMain, logins, slots, splits, removals, user>>
  BY DEF OpenOneStream
<1>2. at[Whole(j)] \in WholeRuns /\ at[Whole(j)] \in {"sizing", "toOpen"}
  BY <1>1 DEF WholeRuns
<1>3. j \in Downloads
  BY <1>1, <1>2, RunFacts, ItemFacts DEF Inv, OwnerInv, WholeInv
<1>4. FilesCarry(j) /\ FilesTyped /\ file'[j] = "partial"
  BY <1>1, <1>2, <1>3, FileSteps
<1>5. Awaits(j, "moving")
  BY <1>1, <1>2, <1>3, <1>4 DEF Awaits
<1> QED BY <1>4, <1>5, MoveStep

-----------------------------------------------------------------------------
(* The ranges of a split.                                                  *)

(* The ranges d + 1 .. d + m of j, in order.                               *)
FirstRanges(j, m, d) == [k \in 1..m |-> <<j, k + d>>]

LEMMA FrontFacts ==
  ASSUME NEW j \in Large, NEW m \in Nat, NEW d \in {0, 1}, m + d <= Segments
  PROVE  /\ FirstRanges(j, m, d) \in Seq(Items)
         /\ \A i, k \in 1..Len(FirstRanges(j, m, d)) : FirstRanges(j, m, d)[i] = FirstRanges(j, m, d)[k] => i = k
         /\ InSeq(FirstRanges(j, m, d)) = {u \in RangesOf({j}) : u[2] \in d + 1..d + m}
<1> DEFINE f == FirstRanges(j, m, d)
<1> USE DEF FirstRanges
<1>1. Segments \in Nat
  BY QueueAssumption DEF QueueAssumption
<1>2. \A k \in 1..m : <<j, k + d>> \in Items /\ <<j, k + d>> \in RangesOf({j})
  <2> TAKE k \in 1..m
  <2>1. k + d \in 1..Segments
    BY <1>1
  <2> QED BY <2>1 DEF Items, RangesOf
<1>3. f \in [1..m -> Items]
  BY <1>2
<1>4. f \in Seq(Items) /\ Len(f) = m
  <2>1. f \in Seq(Items)
    BY <1>3, SeqDef
  <2>2. DOMAIN f = 1..m
    BY <1>3
  <2>3. DOMAIN f = 1..Len(f) /\ Len(f) \in Nat
    BY <2>1, LenProperties
  <2>4. ASSUME NEW l \in Nat, 1..m = 1..l PROVE m = l
    BY <2>4
  <2> QED BY <2>1, <2>2, <2>3, <2>4
<1>5. InSeq(f) = {u \in RangesOf({j}) : u[2] \in d + 1..d + m}
  <2>1. ASSUME NEW i \in 1..m
        PROVE  f[i] \in RangesOf({j}) /\ f[i][2] \in d + 1..d + m
    <3>1. f[i] = <<j, i + d>> /\ i + d \in d + 1..d + m
      OBVIOUS
    <3>2. f[i][2] = i + d
      BY <3>1
    <3> QED BY <1>2, <3>1, <3>2
  <2>2. ASSUME NEW u \in RangesOf({j}), u[2] \in d + 1..d + m
        PROVE  u \in InSeq(f)
    <3>1. u = <<j, u[2]>> /\ u[2] - d \in 1..m /\ u[2] = (u[2] - d) + d
      BY <2>2 DEF RangesOf
    <3>2. f[u[2] - d] = <<j, (u[2] - d) + d>>
      BY <3>1
    <3>3. f[u[2] - d] = u
      BY <3>1, <3>2
    <3> QED BY <1>4, <3>1, <3>3 DEF InSeq
  <2>3. InSeq(f) \subseteq {u \in RangesOf({j}) : u[2] \in d + 1..d + m}
    <3> HIDE DEF InSeq
    <3>1. \A x \in InSeq(f) : \E i \in 1..m : x = f[i]
      BY <1>4 DEF InSeq
    <3> QED BY <2>1, <3>1
  <2> QED BY <2>2, <2>3
<1>6. ASSUME NEW i \in 1..Len(f), NEW k \in 1..Len(f), f[i] = f[k]
      PROVE  i = k
  <2>1. f[i] = <<j, i + d>> /\ f[k] = <<j, k + d>>
    BY <1>4
  <2>2. i + d = k + d
    BY <1>6, <2>1
  <2> QED BY <1>4, <2>2
<1> QED BY <1>4, <1>5, <1>6

LEMMA RangeCount ==
  ASSUME NEW j \in Large, NEW n \in 0..Segments
  PROVE  Cardinality({u \in RangesOf({j}) : u[2] <= n}) = n
<1>1. Segments \in Nat /\ n \in Nat
  BY QueueAssumption DEF QueueAssumption
<1>2. {u \in RangesOf({j}) : u[2] <= n} = {j} \X (1..n)
  BY <1>1 DEF RangesOf
<1>3. IsFiniteSet({j}) /\ Cardinality({j}) = 1
  BY FS_Singleton
<1>4. IsFiniteSet(1..n) /\ Cardinality(1..n) = n
  BY <1>1, FS_Interval
<1>5. Cardinality({j} \X (1..n)) = 1 * n
  BY <1>3, <1>4, FS_Product
<1>6. 1 * n = n
  BY <1>1
<1> QED BY <1>2, <1>5, <1>6

-----------------------------------------------------------------------------
(* Steps about one owner.                                                  *)

LEMMA OwnerStep ==
  ASSUME Inv, NEW j \in Owners, NEW q, QueueOK(q), SetQueue(q), NotStalled(q),
         \A v \in Items : v[1] # j => Pumps(Phase(v), PhaseIn(q, v)),
         \A o \in Owners \ {j} : Alike(o)
  PROVE  /\ QueueOK(Q)' /\ NoStall'
         /\ work' \in Seq(Items) /\ at' \in [Items -> Places] /\ strays' \in Nat
         /\ \A v \in Items : Phase(v)' = PhaseIn(q, v)
         /\ \A o \in Owners \ {j} : OwnerInv(o)'
<1>1. /\ QueueOK(Q)' /\ NoStall'
      /\ work' \in Seq(Items) /\ at' \in [Items -> Places] /\ strays' \in Nat
      /\ \A v \in Items : Phase(v)' = PhaseIn(q, v)
  BY SetQueueFacts
<1>2. \A v \in Items : v[1] # j => ShufflesTo(v, Phase(v)')
  BY <1>1, PumpedShuffle DEF ShufflesTo
<1>3. \A o \in Owners \ {j} : Untouched(o)
  <2> TAKE o \in Owners \ {j}
  <2>1. /\ Whole(o) \in Items /\ Whole(o)[1] = o
        /\ \A v \in RangesOf({o}) : v \in Items /\ v[1] = o
    BY ItemFacts
  <2> QED BY <1>2, <2>1 DEF Untouched
<1> QED BY <1>1, <1>3, UntouchedKeeps

(* A job whose split goes on keeps its file, and nothing else is about it.  *)
LEMMA SplitGoesOn ==
  ASSUME Inv, NEW j \in Large, split[j] # "none", split'[j] # "none",
         UNCHANGED <<plain, files, unlinks, user>>, j \in cleanups' => j \in cleanups,
         status'[j] = status[j] \/ (status[j] = "active" /\ status'[j] \in {"failed", "cancelled"}),
         Phase(Whole(j))' = "none", SplitInv(j)', RangesInv(j)', CountInv(j)'
  PROVE  OwnerInv(j)'
<1>1. OwnerInv(j) /\ j \in Jobs /\ j \in Downloads /\ reviving \subseteq Jobs
  BY ItemFacts DEF Inv, TypeOK
<1>2. /\ Phase(Whole(j)) = "none" /\ j \notin cleanups \cup unlinks
      /\ status[j] \in {"active", "cancelled", "failed"}
  BY <1>1 DEF OwnerInv, SplitInv, Inv, TypeOK
<1>3. WholeInv(j)'
  BY <1>2 DEF WholeInv, WholeRuns
<1>4. RemovalsInv(j)'
  BY <1>1, <1>2 DEF OwnerInv, RemovalsInv, user
<1>5. FilesInv(j)'
  BY <1>1, <1>2 DEF OwnerInv, FilesInv, files
<1> QED BY <1>3, <1>4, <1>5 DEF OwnerInv

LEMMA SegmentFacts ==
  ASSUME Inv, NEW u \in RangesOf(Jobs), at[u] = "receiving"
  PROVE  /\ u \in Items /\ u[1] \in Large /\ u[1] \in Jobs /\ u[1] \in Owners
         /\ u \in RangesOf({u[1]}) /\ Whole(u[1]) \in Items
         /\ Phase(u) = "receiving" /\ split[u[1]] \in {"open", "stopped"}
         /\ Phase(Whole(u[1])) = "none"
         /\ \A v \in RangesOf({u[1]}) : v \in Items /\ v[1] = u[1] /\ v[2] > 0
         /\ Whole(u[1])[2] = 0 /\ u[2] > 0
         /\ PhaseIn(Q, u) # "waiting"
         /\ QueueOK(Q) /\ \A v \in Items : Phase(v) = PhaseIn(Q, v)
<1>1. /\ u \in Items /\ u[1] \in Large /\ u[1] \in Jobs /\ u[1] \in Owners
      /\ u \in RangesOf({u[1]}) /\ Whole(u[1]) \in Items
      /\ \A v \in RangesOf({u[1]}) : v \in Items /\ v[1] = u[1] /\ v[2] > 0
      /\ Whole(u[1])[2] = 0 /\ u[2] > 0
  BY ItemFacts
<1>2. QueueOK(Q) /\ OwnerInv(u[1])
  BY <1>1 DEF Inv
<1>3. Phase(u) = "receiving"
  BY <1>1, <1>2, PhaseOfRun
<1>4. \A v \in Items : Phase(v) = PhaseIn(Q, v)
  BY DEF Phase
<1>5. split[u[1]] \in {"open", "stopped"}
  BY <1>1, <1>2, <1>3 DEF OwnerInv, RangesInv
<1> QED BY <1>1, <1>2, <1>3, <1>4, <1>5 DEF OwnerInv, SplitInv

(* The rest of a step about a split that goes on, once its ranges are in    *)
(* order.                                                                  *)
SplitTyped(j) ==
  /\ UNCHANGED <<plain, onMain, files, removals, user>>
  /\ retries' \in [Items -> 0..MaxRetries]
  /\ restart' \in SUBSET Large /\ sole' \in SUBSET Large
  /\ \A i \in Large \ {j} : i \in sole' <=> i \in sole
  /\ status' = [status EXCEPT ![j] = status'[j]]
  /\ status'[j] = status[j] \/ (status[j] = "active" /\ status'[j] \in {"failed", "cancelled"})
  /\ split' = [split EXCEPT ![j] = split'[j]]
  /\ split'[j] \in {"open", "stopped", "complete", "closing", "unlinking"}
  /\ remaining' = [remaining EXCEPT ![j] = remaining'[j]]
  /\ remaining'[j] \in 0..Segments

LEMMA SplitMovesStep ==
  ASSUME Inv, NEW j \in Large, split[j] # "none", SplitTyped(j),
         NextTypes, failures' \in 0..MaxLoginFailures - 1,
         NEW q, QueueOK(q), SetQueue(q), NotStalled(q),
         \A v \in Items : v[1] # j => Pumps(Phase(v), PhaseIn(q, v)),
         PhaseIn(q, Whole(j)) = "none",
         SplitInv(j)', RangesInv(j)', CountInv(j)'
  PROVE  Inv'
<1>1. /\ j \in Owners /\ j \in Jobs /\ Whole(j) \in Items /\ TypeOK
      /\ Large \subseteq Jobs
  BY ItemFacts DEF Inv
<1>2. \A o \in Owners \ {j} : Alike(o)
  BY <1>1 DEF SplitTyped, Alike, TypeOK, files, removals, user
<1>3. /\ QueueOK(Q)' /\ NoStall'
      /\ work' \in Seq(Items) /\ at' \in [Items -> Places] /\ strays' \in Nat
      /\ \A v \in Items : Phase(v)' = PhaseIn(q, v)
      /\ \A o \in Owners \ {j} : OwnerInv(o)'
  BY <1>1, <1>2, OwnerStep
<1>4. TypeOK'
  <2>1. status' \in [Owners -> Final \cup {"new", "pending", "active"}]
    BY ZenonT(60), <1>1 DEF SplitTyped, TypeOK, Final
  <2>2. split' \in [Jobs -> {"none", "open", "stopped", "complete", "closing", "unlinking"}]
    BY <1>1 DEF SplitTyped, TypeOK
  <2>3. remaining' \in [Jobs -> 0..Segments]
    BY <1>1 DEF SplitTyped, TypeOK
  <2> QED BY <1>1, <1>3, <2>1, <2>2, <2>3
          DEF SplitTyped, TypeOK, NextTypes, files, removals, user
<1>5. OwnerInv(j)'
  BY <1>1, <1>3, SplitGoesOn DEF SplitTyped, removals
<1> QED BY <1>3, <1>4, <1>5 DEF Inv

LEMMA SplitStep ==
  ASSUME Inv, NEW j \in Large, split[j] # "none", SplitTyped(j), UNCHANGED <<logins, slots>>,
         NEW q, QueueOK(q), SetQueue(q), NotStalled(q),
         \A v \in Items : v[1] # j => Pumps(Phase(v), PhaseIn(q, v)),
         PhaseIn(q, Whole(j)) = "none",
         SplitInv(j)', RangesInv(j)', CountInv(j)'
  PROVE  Inv'
<1>1. NextTypes /\ failures' \in 0..MaxLoginFailures - 1
  BY QueueAssumption DEF Inv, TypeOK, NextTypes, logins, QueueAssumption
<1> QED BY <1>1, SplitMovesStep

LEMMA RangeRetriedStep ==
  ASSUME Inv, NEW u \in RangesOf(Jobs), SegmentEnds(u),
         split[u[1]] = "open", RangeRetried(u)
  PROVE  Inv'
<1> DEFINE j == u[1]
           s == Put(Q, u, "backoff")
           q == Pumped(s)
<1>1. /\ at[u] = "receiving"
      /\ UNCHANGED <<logins, slots, plain, onMain, sole, files, removals, user>>
      /\ retries[u] < MaxRetries
      /\ retries' = [retries EXCEPT ![u] = retries[u] + 1]
      /\ SetQueue(q)
      /\ UNCHANGED <<status, split, remaining, restart>>
  BY DEF SegmentEnds, RangeRetried, NextAttempt
<1>2. /\ u \in Items /\ j \in Large /\ j \in Jobs /\ j \in Owners
      /\ u \in RangesOf({j}) /\ Whole(j) \in Items
      /\ Phase(u) = "receiving" /\ Phase(Whole(j)) = "none"
      /\ \A v \in RangesOf({j}) : v \in Items /\ v[1] = j /\ v[2] > 0
      /\ Whole(j)[2] = 0 /\ u[2] > 0
      /\ PhaseIn(Q, u) # "waiting"
      /\ QueueOK(Q) /\ \A v \in Items : Phase(v) = PhaseIn(Q, v)
  BY <1>1, SegmentFacts
<1>3. TypeOK /\ OwnerInv(j) /\ NextTypes /\ "backoff" \in Places
  BY <1>1, <1>2, QueueAssumption DEF Inv, TypeOK, NextTypes, logins, Places, QueueAssumption
<1> HIDE DEF j
<1>4. /\ QueueOK(s)
      /\ \A v \in Items : PhaseIn(s, v) = IF v = u THEN "backoff" ELSE PhaseIn(Q, v)
  <2>1. QueueOK(Q) /\ u \in Items /\ PhaseIn(Q, u) # "waiting" /\ "backoff" \in Places
    BY <1>2, <1>3
  <2> QED BY <2>1, PutFacts
<1> HIDE DEF s
<1>5. /\ QueueOK(q) /\ NotStalled(q)
      /\ \A v \in Items : Pumps(PhaseIn(s, v), PhaseIn(q, v))
  BY <1>3, <1>4, PumpedFacts
<1> HIDE DEF q
<1>6. /\ \A v \in Items : v # u => Pumps(Phase(v), PhaseIn(q, v))
      /\ PhaseIn(q, u) = "backoff" /\ PhaseIn(q, Whole(j)) = "none"
  BY <1>2, <1>4, <1>5 DEF Pumps
<1>7. QueueOK(Q)' /\ \A v \in Items : Phase(v)' = PhaseIn(q, v)
  BY <1>1, <1>5, SetQueueFacts
<1>8. /\ split[j] = "open" /\ split'[j] = "open"
      /\ status'[j] = status[j] /\ remaining'[j] = remaining[j]
  BY <1>1, <1>3 DEF j
<1>9. SplitTyped(j)
  <2>1. retries' \in [Items -> 0..MaxRetries]
    BY <1>1, <1>2, <1>3, QueueAssumption DEF TypeOK, QueueAssumption
  <2> QED BY <1>1, <1>2, <1>3, <1>8, <2>1 DEF SplitTyped, TypeOK
<1>10. SplitInv(j)'
  <2>1. \A v \in RangesOf({j}) : Phase(v) = "none" => Phase(v)' = "none"
    BY <1>2, <1>6, <1>7 DEF Pumps
  <2>2. \A v \in RangesOf({j}) : v = u \/ ~(j \in sole) \/ Phase(v) = "none" \/ v[2] <= 1
    BY <1>2, <1>3, <1>8, ItemFacts DEF OwnerInv, SplitInv
  <2>3. j \in sole => u[2] <= 1
    BY <1>2, <1>3, <1>8, ItemFacts DEF OwnerInv, SplitInv
  <2> QED BY <1>1, <1>2, <1>3, <1>6, <1>7, <1>8, <2>1, <2>2, <2>3
          DEF OwnerInv, SplitInv, files, removals
<1>11. RangesInv(j)'
  BY <1>2, <1>3, <1>6, <1>7, <1>8 DEF OwnerInv, RangesInv, Pumps
<1>12. CountInv(j)'
  <2>1. \A v \in RangesOf({j}) : Phase(v) \in LivePhases <=> Phase(v)' \in LivePhases
    BY <1>2, <1>6, <1>7 DEF Pumps, LivePhases
  <2>2. LiveRanges(j)' = LiveRanges(j)
    BY <1>2, <1>7, <2>1, SameCount
  <2>3. remaining[j] = Cardinality(LiveRanges(j))
    BY <1>3, <1>8, <1>2 DEF OwnerInv, CountInv
  <2> QED BY <1>8, <2>2, <2>3 DEF CountInv
<1>13. \A v \in Items : v[1] # j => Pumps(Phase(v), PhaseIn(q, v))
  BY <1>6 DEF j
<1>14. split[j] # "none"
  BY <1>8
<1> QED BY <1>1, <1>2, <1>5, <1>6, <1>9, <1>10, <1>11, <1>12, <1>13, <1>14, SplitStep

LEMMA RangeStopsStep ==
  ASSUME Inv, NEW u \in RangesOf(Jobs), SegmentEnds(u),
         split[u[1]] = "open", RestRefused(u) \/ RangeFailed(u)
  PROVE  Inv'
<1> DEFINE j == u[1]
           s == Put(Q, u, "none")
           t == Stopped(s, {j})
           q == Pumped(t)
<1>1. /\ at[u] = "receiving"
      /\ UNCHANGED <<logins, slots, plain, onMain, sole, files, removals, user, remaining, retries>>
      /\ split' = StoppedSplit(s, {j})
      /\ SetQueue(q)
      /\ \/ status' = status /\ restart' = restart \cup {j}
         \/ status' = [status EXCEPT ![j] = "failed"] /\ restart' = restart
  BY DEF SegmentEnds, RestRefused, RangeFailed, StopFrom
<1>2. /\ u \in Items /\ j \in Large /\ j \in Jobs /\ j \in Owners
      /\ u \in RangesOf({j}) /\ Whole(j) \in Items
      /\ Phase(u) = "receiving" /\ Phase(Whole(j)) = "none"
      /\ \A v \in RangesOf({j}) : v \in Items /\ v[1] = j /\ v[2] > 0
      /\ Whole(j)[2] = 0 /\ u[2] > 0
      /\ PhaseIn(Q, u) # "waiting"
      /\ QueueOK(Q) /\ \A v \in Items : Phase(v) = PhaseIn(Q, v)
  BY <1>1, SegmentFacts
<1>3. TypeOK /\ OwnerInv(j) /\ NextTypes
  BY <1>1, <1>2, QueueAssumption DEF Inv, TypeOK, NextTypes, logins, QueueAssumption
<1>4. split[j] = "open" /\ \A v \in RangesOf({j}) : v[1] = j
  BY <1>2
<1> HIDE DEF j
<1>5. /\ QueueOK(s)
      /\ \A v \in Items : PhaseIn(s, v) = IF v = u THEN "none" ELSE PhaseIn(Q, v)
  <2>1. QueueOK(Q) /\ u \in Items /\ PhaseIn(Q, u) # "waiting" /\ "none" \in Places
    BY <1>2 DEF Places
  <2> QED BY <2>1, PutFacts
<1> HIDE DEF s
<1>6. /\ QueueOK(t)
      /\ \A v \in Items : PhaseIn(t, v) =
           IF v \in RangesOf({j}) /\ PhaseIn(s, v) \in Droppable THEN "none" ELSE PhaseIn(s, v)
  BY <1>5, StoppedFacts
<1> HIDE DEF t
<1>7. /\ QueueOK(q) /\ NotStalled(q)
      /\ \A v \in Items : Pumps(PhaseIn(t, v), PhaseIn(q, v))
  BY <1>3, <1>6, PumpedFacts
<1> HIDE DEF q
<1>8. \A v \in Items : v \notin RangesOf({j}) => v # u /\ Pumps(Phase(v), PhaseIn(q, v))
  BY <1>2, <1>5, <1>6, <1>7
<1>9. \A v \in RangesOf({j}) :
        /\ PhaseIn(s, v) \in {"none", "waiting", "asking", "backoff", "receiving"}
        /\ PhaseIn(q, v) = IF PhaseIn(s, v) = "receiving" THEN "receiving" ELSE "none"
  <2> TAKE v \in RangesOf({j})
  <2>1. v \in Items /\ Phase(v) \in {"none", "waiting", "asking", "backoff", "receiving"}
    BY <1>2, <1>3, <1>4 DEF OwnerInv, RangesInv
  <2>2. PhaseIn(s, v) \in {"none", "waiting", "asking", "backoff", "receiving"}
    BY <1>2, <1>5, <2>1
  <2> QED BY <1>6, <1>7, <2>1, <2>2 DEF Droppable, Pumps
<1>10. QueueOK(Q)' /\ \A v \in Items : Phase(v)' = PhaseIn(q, v)
  BY <1>1, <1>7, SetQueueFacts
<1>11. /\ split' = [split EXCEPT ![j] = split'[j]]
       /\ split'[j] = IF \E v \in RangesOf({j}) : PhaseIn(s, v) = "receiving"
                      THEN "stopped" ELSE "closing"
  BY <1>1, <1>2, <1>3, <1>5, StoppedSplitFacts
<1>12. status[j] = "active" /\ status'[j] \in {"active", "failed"}
  BY <1>1, <1>2, <1>3, <1>4 DEF OwnerInv, SplitInv, TypeOK
<1>13. SplitTyped(j)
  BY <1>1, <1>2, <1>3, <1>11, <1>12 DEF SplitTyped, TypeOK
<1>14. SplitInv(j)'
  <2>1. j \notin cleanups' \cup unlinks' /\ j \notin plain'
    BY <1>1, <1>2, <1>3, <1>4 DEF OwnerInv, SplitInv, removals
  <2>2. Phase(Whole(j))' = "none"
    BY <1>2, <1>8, <1>10 DEF Pumps
  <2>3. split'[j] = "stopped" => \E v \in RangesOf({j}) : Phase(v)' = "receiving"
    BY <1>2, <1>9, <1>10, <1>11
  <2> QED BY <1>2, <1>11, <1>12, <2>1, <2>2, <2>3 DEF SplitInv
<1>15. RangesInv(j)'
  BY <1>2, <1>9, <1>10, <1>11 DEF RangesInv
<1>16. CountInv(j)'
  BY <1>11 DEF CountInv
<1>17. /\ \A v \in Items : v[1] # j => Pumps(Phase(v), PhaseIn(q, v))
       /\ PhaseIn(q, Whole(j)) = "none"
  BY <1>2, <1>8 DEF Pumps
<1> QED BY <1>1, <1>2, <1>4, <1>7, <1>13, <1>14, <1>15, <1>16, <1>17, SplitStep

LEMMA RangeStoppedStep ==
  ASSUME Inv, NEW u \in RangesOf(Jobs), SegmentEnds(u),
         split[u[1]] = "stopped", RangeStopped(u)
  PROVE  Inv'
<1> DEFINE j == u[1]
           s == Put(Q, u, "none")
           more == \E v \in RangesOf({j}) : PhaseIn(s, v) = "receiving"
           q == IF more THEN Finished(Q, u) ELSE Put(Q, u, "closing")
<1>1. /\ at[u] = "receiving"
      /\ UNCHANGED <<logins, slots, plain, onMain, sole, files, removals, user, status, remaining,
                     retries, restart>>
  BY DEF SegmentEnds, RangeStopped
<1>2. /\ u \in Items /\ j \in Large /\ j \in Jobs /\ j \in Owners
      /\ u \in RangesOf({j}) /\ Whole(j) \in Items
      /\ Phase(u) = "receiving" /\ Phase(Whole(j)) = "none"
      /\ \A v \in RangesOf({j}) : v \in Items /\ v[1] = j /\ v[2] > 0
      /\ Whole(j)[2] = 0 /\ u[2] > 0
      /\ PhaseIn(Q, u) # "waiting"
      /\ QueueOK(Q) /\ \A v \in Items : Phase(v) = PhaseIn(Q, v)
  BY <1>1, SegmentFacts
<1>3. TypeOK /\ OwnerInv(j) /\ NextTypes
  BY <1>1, <1>2, QueueAssumption DEF Inv, TypeOK, NextTypes, logins, QueueAssumption
<1>4. /\ QueueOK(s)
      /\ \A v \in Items : PhaseIn(s, v) = IF v = u THEN "none" ELSE PhaseIn(Q, v)
  <2>1. QueueOK(Q) /\ u \in Items /\ PhaseIn(Q, u) # "waiting" /\ "none" \in Places
    BY <1>2 DEF Places
  <2> QED BY <2>1, PutFacts
<1>5. /\ SetQueue(q)
      /\ split' = [split EXCEPT ![j] = IF more THEN "stopped" ELSE "closing"]
  <2>1. Receiving(s.at, j) <=> more
    BY <1>4, ReceivingByPhase
  <2> QED BY <1>2, <1>3, <2>1, split[j] = "stopped" DEF RangeStopped, TypeOK
<1>6. split[j] = "stopped"
  OBVIOUS
<1> HIDE DEF j, s
<1>7. /\ QueueOK(q) /\ NotStalled(q)
      /\ \A v \in Items : v # u => Pumps(Phase(v), PhaseIn(q, v))
      /\ PhaseIn(q, u) = IF more THEN "none" ELSE "closing"
  <2>1. /\ QueueOK(Q) /\ u \in Items /\ PhaseIn(Q, u) # "waiting" /\ "closing" \in Places
        /\ NextTypes
    BY <1>2, <1>3 DEF Places, RunPlaces
  <2>2. CASE more
    <3>1. /\ QueueOK(Finished(Q, u)) /\ NotStalled(Finished(Q, u))
          /\ \A v \in Items : Pumps(IF v = u THEN "none" ELSE PhaseIn(Q, v),
                                    PhaseIn(Finished(Q, u), v))
      BY <2>1, FinishedFacts
    <3> QED BY <1>2, <2>2, <3>1 DEF Pumps
  <2>3. CASE ~more
    <3> DEFINE r == Put(Q, u, "closing")
    <3>1. /\ QueueOK(r) /\ r.at = [Q.at EXCEPT ![u] = "closing"]
          /\ \A v \in Items : PhaseIn(r, v) = IF v = u THEN "closing" ELSE PhaseIn(Q, v)
      BY <2>1, PutFacts
    <3> HIDE DEF r
    <3>2. r.at[u] \in RunPlaces
      BY <1>3, <2>1, <3>1 DEF TypeOK, Q, RunPlaces
    <3>3. NotStalled(r)
      BY <2>1, <3>2 DEF NotStalled, Busy
    <3> QED BY <1>2, <2>3, <3>1, <3>3 DEF Pumps, r
  <2> QED BY <2>2, <2>3
<1> HIDE DEF q
<1>8. \A v \in RangesOf({j}) :
        /\ PhaseIn(s, v) \in {"none", "receiving"}
        /\ PhaseIn(q, v) = IF v = u THEN (IF more THEN "none" ELSE "closing") ELSE PhaseIn(s, v)
  <2> TAKE v \in RangesOf({j})
  <2>1. v \in Items /\ Phase(v) \in {"none", "receiving"}
    BY <1>2, <1>3, <1>6 DEF OwnerInv, RangesInv
  <2>2. PhaseIn(s, v) \in {"none", "receiving"} /\ (v # u => PhaseIn(s, v) = Phase(v))
    BY <1>2, <1>4, <2>1
  <2> QED BY <1>7, <2>1, <2>2 DEF Pumps
<1>9. QueueOK(Q)' /\ \A v \in Items : Phase(v)' = PhaseIn(q, v)
  BY <1>5, <1>7, SetQueueFacts
<1>10. /\ PhaseIn(s, u) = "none" /\ split'[j] = IF more THEN "stopped" ELSE "closing"
       /\ status[j] \in {"active", "cancelled", "failed"} /\ status'[j] = status[j]
  BY <1>1, <1>2, <1>3, <1>4, <1>5, <1>6 DEF OwnerInv, SplitInv, TypeOK
<1>11. SplitTyped(j)
  BY <1>1, <1>2, <1>3, <1>5, <1>10 DEF SplitTyped, TypeOK
<1>12. SplitInv(j)'
  <2>1. j \notin cleanups' \cup unlinks' /\ j \notin plain'
    BY <1>1, <1>2, <1>3, <1>6 DEF OwnerInv, SplitInv, removals
  <2>2. Phase(Whole(j))' = "none"
    BY <1>2, <1>7, <1>9 DEF Pumps
  <2>3. split'[j] = "stopped" => \E v \in RangesOf({j}) : Phase(v)' = "receiving"
    BY <1>2, <1>8, <1>9, <1>10
  <2> HIDE DEF more
  <2> QED BY <1>2, <1>10, <2>1, <2>2, <2>3 DEF SplitInv
<1>13. RangesInv(j)'
  BY <1>2, <1>8, <1>9, <1>10 DEF RangesInv
<1>14. CountInv(j)'
  BY <1>10 DEF CountInv
<1>15. /\ \A v \in Items : v[1] # j => Pumps(Phase(v), PhaseIn(q, v))
       /\ PhaseIn(q, Whole(j)) = "none"
  BY <1>2, <1>7 DEF Pumps
<1> QED BY <1>1, <1>2, <1>5, <1>6, <1>7, <1>11, <1>12, <1>13, <1>14, <1>15, SplitStep

LEMMA RangeDoneStep ==
  ASSUME Inv, NEW u \in RangesOf(Jobs), SegmentEnds(u),
         split[u[1]] = "open", RangeDone(u)
  PROVE  Inv'
<1> DEFINE j == u[1]
           last == remaining[j] = 1
           q == IF last THEN Put(Q, u, "closing") ELSE Finished(Q, u)
           live == {v \in RangesOf({j}) : Phase(v) \in LivePhases}
<1>1. /\ at[u] = "receiving"
      /\ UNCHANGED <<logins, slots, plain, onMain, sole, files, removals, user, status, retries, restart>>
      /\ remaining' = [remaining EXCEPT ![j] = remaining[j] - 1]
      /\ split' = IF last THEN [split EXCEPT ![j] = "complete"] ELSE split
      /\ SetQueue(q)
  BY DEF SegmentEnds, RangeDone
<1>2. /\ u \in Items /\ j \in Large /\ j \in Jobs /\ j \in Owners
      /\ u \in RangesOf({j}) /\ Whole(j) \in Items
      /\ Phase(u) = "receiving" /\ Phase(Whole(j)) = "none"
      /\ \A v \in RangesOf({j}) : v \in Items /\ v[1] = j /\ v[2] > 0
      /\ Whole(j)[2] = 0 /\ u[2] > 0
      /\ PhaseIn(Q, u) # "waiting"
      /\ QueueOK(Q) /\ \A v \in Items : Phase(v) = PhaseIn(Q, v)
  BY <1>1, SegmentFacts
<1>3. TypeOK /\ OwnerInv(j) /\ NextTypes
  BY <1>1, <1>2, QueueAssumption DEF Inv, TypeOK, NextTypes, logins, QueueAssumption
<1>4. split[j] = "open"
  OBVIOUS
<1> HIDE DEF j
<1>5. /\ remaining[j] = Cardinality(live) /\ remaining[j] \in 1..Segments /\ Segments \in Nat
      /\ IsFiniteSet(live) /\ u \in live
  <2>1. remaining[j] = Cardinality(LiveRanges(j)) /\ LiveRanges(j) = live
    BY <1>2, <1>3, <1>4, LiveByPhase DEF OwnerInv, CountInv
  <2>2. remaining[j] > 0 /\ remaining[j] \in 0..Segments /\ Segments \in Nat
    BY <1>2, <1>3, <1>4, QueueAssumption DEF OwnerInv, SplitInv, TypeOK, QueueAssumption
  <2>3. IsFiniteSet(live)
    BY ItemsFinite, FS_Subset
  <2>4. u \in live
    BY <1>2 DEF LivePhases
  <2> QED BY <2>1, <2>2, <2>3, <2>4
<1>6. Cardinality(live \ {u}) = remaining[j] - 1 /\ IsFiniteSet(live \ {u})
  <2> HIDE DEF live
  <2> QED BY <1>5, FS_RemoveElement
<1>7. last => \A v \in RangesOf({j}) : v = u \/ Phase(v) = "none"
  <2> SUFFICES ASSUME last, NEW v \in RangesOf({j}), v # u
               PROVE  Phase(v) = "none"
    OBVIOUS
  <2>1. live \ {u} = {}
    <3> HIDE DEF live
    <3> QED BY <1>5, <1>6, FS_EmptySet
  <2>2. Phase(v) \notin LivePhases
    BY <2>1
  <2> QED BY <1>2, <1>3, <1>4, <2>2 DEF OwnerInv, RangesInv, LivePhases
<1>8. /\ QueueOK(q) /\ NotStalled(q)
      /\ \A v \in Items : v # u => Pumps(Phase(v), PhaseIn(q, v))
      /\ PhaseIn(q, u) = IF last THEN "closing" ELSE "none"
  <2>1. /\ QueueOK(Q) /\ u \in Items /\ PhaseIn(Q, u) # "waiting" /\ "closing" \in Places
        /\ NextTypes
    BY <1>2, <1>3 DEF Places, RunPlaces
  <2>2. CASE ~last
    <3>1. /\ QueueOK(Finished(Q, u)) /\ NotStalled(Finished(Q, u))
          /\ \A v \in Items : Pumps(IF v = u THEN "none" ELSE PhaseIn(Q, v),
                                    PhaseIn(Finished(Q, u), v))
      BY <2>1, FinishedFacts
    <3> QED BY <1>2, <2>2, <3>1 DEF Pumps
  <2>3. CASE last
    <3> DEFINE r == Put(Q, u, "closing")
    <3>1. /\ QueueOK(r) /\ r.at = [Q.at EXCEPT ![u] = "closing"]
          /\ \A v \in Items : PhaseIn(r, v) = IF v = u THEN "closing" ELSE PhaseIn(Q, v)
      BY <2>1, PutFacts
    <3> HIDE DEF r
    <3>2. r.at[u] \in RunPlaces
      BY <1>3, <2>1, <3>1 DEF TypeOK, Q, RunPlaces
    <3>3. NotStalled(r)
      BY <2>1, <3>2 DEF NotStalled, Busy
    <3> QED BY <1>2, <2>3, <3>1, <3>3 DEF Pumps, r
  <2> QED BY <2>2, <2>3
<1> HIDE DEF q
<1>9. QueueOK(Q)' /\ \A v \in Items : Phase(v)' = PhaseIn(q, v)
  BY <1>1, <1>8, SetQueueFacts
<1>10. /\ split'[j] = IF last THEN "complete" ELSE "open"
       /\ split' = [split EXCEPT ![j] = split'[j]]
       /\ status[j] = "active" /\ status'[j] = status[j]
       /\ remaining'[j] = remaining[j] - 1
  BY <1>1, <1>2, <1>3, <1>4 DEF OwnerInv, SplitInv, TypeOK
<1>11. SplitTyped(j)
  <2>1. /\ UNCHANGED <<logins, slots, plain, onMain, files, removals, user>>
        /\ retries' \in [Items -> 0..MaxRetries]
        /\ restart' \in SUBSET Large /\ sole' = sole /\ sole' \in SUBSET Large
        /\ status' = [status EXCEPT ![j] = status'[j]]
    BY <1>1, <1>2, <1>3 DEF TypeOK
  <2>2. remaining' = [remaining EXCEPT ![j] = remaining'[j]] /\ remaining'[j] \in 0..Segments
    <3>1. remaining[j] - 1 \in 0..Segments
      <4> HIDE DEF live
      <4> QED BY <1>5
    <3>2. remaining' = [remaining EXCEPT ![j] = remaining[j] - 1]
      BY <1>1
    <3> QED BY <1>10, <3>1, <3>2
  <2> HIDE DEF last
  <2> QED BY <1>10, <2>1, <2>2 DEF SplitTyped
<1>12. SplitInv(j)'
  <2>1. j \notin cleanups' \cup unlinks' /\ j \notin plain'
    BY <1>1, <1>2, <1>3, <1>4 DEF OwnerInv, SplitInv, removals
  <2>2. Phase(Whole(j))' = "none"
    BY <1>2, <1>8, <1>9 DEF Pumps
  <2>3. ~last => remaining'[j] > 0 /\ j \notin sole'
    <3>1. ~last => remaining[j] - 1 > 0
      <4> HIDE DEF live
      <4> QED BY <1>5
    <3>2. ~last => j \notin sole
      BY <1>2, <1>3, <1>4 DEF OwnerInv, SplitInv
    <3> QED BY <1>1, <1>10, <3>1, <3>2
  <2> HIDE DEF last
  <2> QED BY <1>2, <1>10, <2>1, <2>2, <2>3 DEF SplitInv
<1>13. \A v \in RangesOf({j}) :
         Phase(v)' = IF v = u THEN (IF last THEN "closing" ELSE "none") ELSE Phase(v)'
  BY <1>2, <1>8, <1>9
<1>14. \A v \in RangesOf({j}) : v # u => Pumps(Phase(v), Phase(v)')
  BY <1>2, <1>8, <1>9
<1>15. RangesInv(j)'
  <2>1. \A v \in RangesOf({j}) :
          Phase(v) \in {"none", "waiting", "asking", "backoff", "receiving"}
    BY <1>2, <1>3, <1>4 DEF OwnerInv, RangesInv
  <2>2. CASE last
    BY <1>7, <1>10, <1>13, <1>14, <2>2 DEF RangesInv, Pumps
  <2>3. CASE ~last
    BY <1>10, <1>13, <1>14, <2>1, <2>3 DEF RangesInv, Pumps
  <2> QED BY <2>2, <2>3
<1>16. CountInv(j)'
  <2> SUFFICES ASSUME ~last PROVE remaining'[j] = Cardinality(LiveRanges(j))'
    BY <1>10 DEF CountInv
  <2>1. LiveRanges(j)' = {v \in RangesOf({j}) : Phase(v)' \in LivePhases}
    BY <1>9, LiveByPhase
  <2>2. LiveRanges(j)' = live \ {u}
    BY <1>2, <1>13, <1>14, <2>1 DEF Pumps, LivePhases
  <2> HIDE DEF live
  <2> QED BY <1>6, <1>10, <2>2
<1>17. /\ \A v \in Items : v[1] # j => Pumps(Phase(v), PhaseIn(q, v))
       /\ PhaseIn(q, Whole(j)) = "none"
  <2>1. \A v \in Items : v[1] # j => v # u
    BY <1>2
  <2>2. Pumps(Phase(Whole(j)), PhaseIn(q, Whole(j)))
    BY <1>2, <1>8
  <2> QED BY <1>2, <1>8, <2>1, <2>2 DEF Pumps
<1> QED BY <1>1, <1>2, <1>4, <1>8, <1>11, <1>12, <1>15, <1>16, <1>17, SplitStep

LEMMA SegmentEndsStep ==
  ASSUME Inv, NEW u \in RangesOf(Jobs), SegmentEnds(u)
  PROVE  Inv'
BY RangeDoneStep, RangeStopsStep, RangeRetriedStep, RangeStoppedStep DEF SegmentEnds

(* The ranges 1..n of j are live and the others are not.                   *)
LEMMA LiveUpTo ==
  ASSUME NEW j \in Large, NEW n \in 1..Segments, QueueOK(Q)',
         \A u \in RangesOf({j}) : Phase(u)' \in LivePhases <=> u[2] <= n
  PROVE  Cardinality(LiveRanges(j))' = n
<1>1. LiveRanges(j)' = {u \in RangesOf({j}) : u[2] <= n}
  BY LiveByPhase
<1>2. n \in 0..Segments
  BY QueueAssumption DEF QueueAssumption
<1>3. Cardinality({u \in RangesOf({j}) : u[2] <= n}) = n
  BY <1>2, RangeCount
<1> QED BY <1>1, <1>3

LEMMA ProbeSplitStep ==
  ASSUME Inv, NEW j \in Jobs, ProbeSplit(j)
  PROVE  Inv'
<1>1. PICK n \in 2..Segments :
        /\ remaining' = [remaining EXCEPT ![j] = remaining[j] + (n - 1)]
        /\ SetQueue(Pumped([Q EXCEPT !.work = [k \in 1..n - 1 |-> <<j, k + 1>>] \o @]))
  BY DEF ProbeSplit, PiecesAdded
<1> DEFINE f == [k \in 1..n - 1 |-> <<j, k + 1>>]
           s == [Q EXCEPT !.work = f \o Q.work]
           q == Pumped(s)
<1>2. /\ j \in sole /\ split[j] = "open" /\ at[<<j, 1>>] = "receiving"
      /\ sole' = sole \ {j}
      /\ UNCHANGED <<logins, slots, status, retries, plain, onMain, split, restart, files, removals, user>>
      /\ SetQueue(q)
  BY <1>1 DEF ProbeSplit
<1>3. /\ TypeOK /\ QueueOK(Q) /\ j \in Owners /\ OwnerInv(j) /\ NextTypes /\ j \in Large
      /\ Segments \in Nat /\ 1 \in 1..Segments
      /\ \A v \in Items : Phase(v) = PhaseIn(Q, v)
      /\ Whole(j) \in Items /\ Whole(j)[2] = 0 /\ Whole(j)[1] = j
      /\ \A v \in RangesOf({j}) : v \in Items /\ v[1] = j /\ v[2] > 0 /\ v[2] \in 0..Segments
      /\ \A v \in RangesOf({j}) : v[2] = 1 => v = <<j, 1>>
      /\ <<j, 1>> \in Items
  <2>1. /\ TypeOK /\ QueueOK(Q) /\ j \in Owners /\ OwnerInv(j) /\ NextTypes /\ j \in Large
        /\ Segments \in Nat /\ 1 \in 1..Segments
    <3>1. TypeOK /\ QueueOK(Q) /\ j \in Owners /\ OwnerInv(j)
      BY DEF Inv, Owners
    <3>2. NextTypes
      BY <1>2, <3>1 DEF TypeOK, NextTypes, logins
    <3>3. j \in Large
      BY <1>2, <3>1 DEF TypeOK
    <3>4. Segments \in Nat /\ 1 \in 1..Segments
      BY QueueAssumption DEF QueueAssumption
    <3> QED BY <3>1, <3>2, <3>3, <3>4
  <2>2. \A v \in Items : Phase(v) = PhaseIn(Q, v)
    BY DEF Phase
  <2>3. Whole(j) \in Items /\ Whole(j)[2] = 0 /\ Whole(j)[1] = j
    BY <2>1, ItemFacts
  <2>4. RangesOf({j}) \subseteq Items
    BY ItemFacts
  <2>5. \A v \in RangesOf({j}) : v[1] = j /\ v[2] \in 1..Segments /\ v = <<v[1], v[2]>>
    BY DEF RangesOf
  <2>6. <<j, 1>> \in RangesOf({j})
    BY <2>1 DEF RangesOf
  <2> QED BY <2>1, <2>2, <2>3, <2>4, <2>5, <2>6
<1>4. /\ remaining[j] = 1 /\ Phase(<<j, 1>>) = "receiving" /\ Phase(Whole(j)) = "none"
      /\ \A v \in RangesOf({j}) : v[2] > 1 => Phase(v) = "none"
      /\ status[j] = "active" /\ j \notin plain /\ j \notin cleanups \cup unlinks
  BY <1>2, <1>3, PhaseOfRun DEF OwnerInv, SplitInv
<1>5. /\ f \in Seq(Items)
      /\ \A i, k \in 1..Len(f) : f[i] = f[k] => i = k
      /\ InSeq(f) = {v \in RangesOf({j}) : v[2] \in 2..n}
  <2> DEFINE m == n - 1
  <2>1. /\ m \in Nat /\ m + 1 <= Segments /\ f = FirstRanges(j, m, 1) /\ j \in Large
        /\ 1 \in {0, 1}
    BY <1>3 DEF FirstRanges
  <2>3. 1 + 1..1 + m = 2..n
    BY <1>3
  <2> HIDE DEF f, m
  <2>2. /\ f \in Seq(Items)
        /\ \A i, k \in 1..Len(f) : f[i] = f[k] => i = k
        /\ InSeq(f) = {v \in RangesOf({j}) : v[2] \in 1 + 1..1 + m}
    BY <2>1, FrontFacts
  <2> QED BY <2>2, <2>3
<1> HIDE DEF f
<1>6. /\ QueueOK(s)
      /\ \A v \in Items : PhaseIn(s, v) = IF v \in InSeq(f) THEN "waiting" ELSE PhaseIn(Q, v)
  <2>1. \A v \in InSeq(f) : PhaseIn(Q, v) = "none"
    <3>1. \A v \in InSeq(f) : v \in RangesOf({j}) /\ v[2] > 1
      BY <1>5
    <3> QED BY <1>3, <1>4, <3>1
  <2> QED BY <1>3, <1>5, <2>1, JoinedFacts
<1> HIDE DEF s
<1>7. /\ QueueOK(q) /\ NotStalled(q)
      /\ \A v \in Items : Pumps(PhaseIn(s, v), PhaseIn(q, v))
  BY <1>3, <1>6, PumpedFacts
<1> HIDE DEF q
<1>8. /\ \A v \in Items : v \notin InSeq(f) => Pumps(Phase(v), PhaseIn(q, v))
      /\ \A v \in InSeq(f) : PhaseIn(q, v) \in {"waiting", "asking"}
  BY <1>3, <1>5, <1>6, <1>7 DEF Pumps
<1>9. QueueOK(Q)' /\ \A v \in Items : Phase(v)' = PhaseIn(q, v)
  BY <1>2, <1>7, SetQueueFacts
<1>10. /\ split'[j] = "open" /\ status'[j] = "active" /\ remaining'[j] = n
       /\ remaining' = [remaining EXCEPT ![j] = remaining'[j]] /\ j \notin sole'
       /\ j \notin cleanups' \cup unlinks' /\ j \notin plain'
  BY <1>1, <1>2, <1>3, <1>4 DEF TypeOK, removals
<1>11. SplitTyped(j)
  BY <1>2, <1>3, <1>10 DEF SplitTyped, TypeOK
<1>12. \A v \in RangesOf({j}) :
         /\ v[2] = 1 \/ v[2] \in 2..n \/ v[2] > n
         /\ v[2] <= n <=> v[2] = 1 \/ v[2] \in 2..n
         /\ v[2] = 1 => Phase(v)' = "receiving"
         /\ v[2] \in 2..n => Phase(v)' \in {"waiting", "asking"}
         /\ v[2] > n => Phase(v)' = "none"
  <2> TAKE v \in RangesOf({j})
  <2>1. v \in Items /\ v[2] \in Nat /\ v[2] > 0
    BY <1>3
  <2>2. v \in InSeq(f) <=> v[2] \in 2..n
    BY <1>5
  <2>3. CASE v[2] \in 2..n
    BY <1>8, <1>9, <2>1, <2>2, <2>3
  <2>4. CASE v[2] \notin 2..n
    <3>1. Pumps(Phase(v), Phase(v)')
      BY <1>8, <1>9, <2>1, <2>2, <2>4
    <3>2. v[2] = 1 => Phase(v) = "receiving"
      BY <1>3, <1>4
    <3>3. v[2] > n => Phase(v) = "none"
      BY <1>4, <2>1
    <3> QED BY <2>1, <2>4, <3>1, <3>2, <3>3 DEF Pumps
  <2> QED BY <2>3, <2>4
<1>13. Phase(Whole(j))' = "none" /\ PhaseIn(q, Whole(j)) = "none"
  <2>1. Whole(j) \notin InSeq(f)
    BY <1>3, <1>5
  <2> QED BY <1>3, <1>4, <1>8, <1>9, <2>1 DEF Pumps
<1>14. SplitInv(j)'
  BY <1>3, <1>10, <1>13 DEF SplitInv
<1>15. RangesInv(j)'
  <2>1. \A v \in RangesOf({j}) : Phase(v)' \in {"none", "waiting", "asking", "receiving"}
    BY <1>12
  <2> QED BY <1>10, <2>1 DEF RangesInv
<1>16. CountInv(j)'
  <2>1. \A v \in RangesOf({j}) : Phase(v)' \in LivePhases <=> v[2] <= n
    BY <1>12 DEF LivePhases
  <2>2. n \in 1..Segments
    BY <1>3
  <2> QED BY <1>3, <1>9, <1>10, <2>1, <2>2, LiveUpTo DEF CountInv
<1>17. \A v \in Items : v[1] # j => Pumps(Phase(v), PhaseIn(q, v))
  BY <1>3, <1>5, <1>8
<1> QED BY <1>2, <1>3, <1>7, <1>11, <1>13, <1>14, <1>15, <1>16, <1>17, SplitStep

(* A run goes on as that of another item.                                  *)
LEMMA PutTwice ==
  ASSUME NEW q, QueueOK(q), NEW u \in Items, NEW h \in Items,
         PhaseIn(q, u) # "waiting", PhaseIn(q, h) # "waiting"
  PROVE  /\ QueueOK(Put(Put(q, u, "none"), h, "receiving"))
         /\ \A v \in Items : PhaseIn(Put(Put(q, u, "none"), h, "receiving"), v) =
                             IF v = h THEN "receiving" ELSE IF v = u THEN "none" ELSE PhaseIn(q, v)
<1> DEFINE a == Put(q, u, "none")
<1>1. "none" \in Places /\ "receiving" \in Places
  BY DEF Places, RunPlaces
<1>2. QueueOK(a) /\ \A v \in Items : PhaseIn(a, v) = IF v = u THEN "none" ELSE PhaseIn(q, v)
  BY <1>1, PutFacts
<1>3. PhaseIn(a, h) # "waiting"
  BY <1>2
<1> HIDE DEF a
<1>4. /\ QueueOK(Put(a, h, "receiving"))
      /\ \A v \in Items : PhaseIn(Put(a, h, "receiving"), v) =
                          IF v = h THEN "receiving" ELSE PhaseIn(a, v)
  <2> DEFINE p == "receiving"
  <2>1. QueueOK(a) /\ PhaseIn(a, h) # "waiting" /\ p \in Places
    BY <1>1, <1>2, <1>3
  <2> HIDE DEF p
  <2>2. QueueOK(Put(a, h, p))
    BY <2>1, PutFacts
  <2>3. \A v \in Items : PhaseIn(Put(a, h, p), v) = IF v = h THEN p ELSE PhaseIn(a, v)
    BY <2>1, PutFacts
  <2> QED BY <2>2, <2>3 DEF p
<1> QED BY <1>2, <1>4 DEF a

LEMMA SplitIntoStep ==
  ASSUME Inv, NEW j \in Jobs, at[Whole(j)] = "opening", status[j] = "active", OpenFile(j),
         UNCHANGED <<plain, onMain, logins, slots, restart, user, status, removals>>,
         NEW n \in 1..Segments, SplitInto(j, n, <<j, n>>)
  PROVE  Inv'
<1> DEFINE u == Whole(j)
           h == <<j, n>>
           m == n - 1
           f == FirstRanges(j, m, 0)
           b == Put(Put(Q, u, "none"), h, "receiving")
           s == [b EXCEPT !.work = f \o b.work]
           q == Pumped(s)
<1>1. /\ split' = [split EXCEPT ![j] = "open"]
      /\ remaining' = [remaining EXCEPT ![j] = n]
      /\ sole' = IF n = 1 THEN sole \cup {j} ELSE sole
      /\ retries' = [v \in Items |-> IF v \in RangesOf({j}) THEN 0 ELSE retries[v]]
      /\ SetQueue(q)
  <2>1. f = [k \in 1..n - 1 |-> <<j, k>>]
    BY DEF FirstRanges
  <2> HIDE DEF f
  <2> QED BY <2>1 DEF SplitInto
<1>2. /\ Phase(u) = at[u] /\ split[j] = "none"
      /\ j \notin sole \cup cleanups \cup unlinks \cup reviving \cup reviveLater
      /\ \A v \in RangesOf({j}) : Phase(v) = "none"
  BY RunFacts DEF WholeRuns
<1>3. /\ TypeOK /\ QueueOK(Q) /\ j \in Owners /\ OwnerInv(j) /\ NextTypes
      /\ Segments \in Nat /\ n \in Nat
      /\ \A v \in Items : Phase(v) = PhaseIn(Q, v)
      /\ u \in Items /\ u[2] = 0 /\ u[1] = j
      /\ \A v \in RangesOf({j}) : /\ v \in Items /\ v[1] = j /\ v[2] > 0 /\ v[2] \in Nat
                                  /\ v # u
      /\ \A v \in RangesOf({j}) : v[2] = n => v = h
      /\ MaxRetries \in Nat
  BY ItemFacts, QueueAssumption
     DEF Inv, TypeOK, NextTypes, logins, QueueAssumption, Phase, RangesOf
<1>4. /\ j \in Large /\ j \in Downloads /\ j \notin plain
      /\ h \in RangesOf({j}) /\ h \in Items /\ h # u /\ h[2] = n /\ h[1] = j
  <2>1. j \in Large /\ j \notin plain
    BY <1>2, <1>3 DEF OwnerInv, WholeInv
  <2> QED BY <1>3, <2>1, ItemFacts DEF RangesOf
<1>5. FilesCarry(j) /\ FilesTyped /\ file'[j] = "partial" /\ j \in opened'
  BY <1>4, FileSteps DEF WholeRuns
<1>6. /\ f \in Seq(Items)
      /\ \A i, k \in 1..Len(f) : f[i] = f[k] => i = k
      /\ \A v \in Items : v \in InSeq(f) <=> v \in RangesOf({j}) /\ v[2] < n
  <2>1. m \in Nat /\ m + 0 <= Segments /\ 0 \in {0, 1} /\ j \in Large
    BY <1>3, <1>4
  <2>2. 0 + 1..0 + m = 1..n - 1
    BY <1>3
  <2> HIDE DEF m
  <2>3. /\ f \in Seq(Items)
        /\ \A i, k \in 1..Len(f) : f[i] = f[k] => i = k
        /\ InSeq(f) = {v \in RangesOf({j}) : v[2] \in 0 + 1..0 + m}
    BY <2>1, FrontFacts
  <2>4. \A v \in RangesOf({j}) : v[2] \in 1..n - 1 <=> v[2] < n
    BY <1>3
  <2> HIDE DEF f
  <2> QED BY <2>2, <2>3, <2>4
<1> HIDE DEF f, m, h, u, b, s, q
<1>7. /\ QueueOK(b)
      /\ \A v \in Items : PhaseIn(b, v) = IF v = h THEN "receiving"
                                          ELSE IF v = u THEN "none" ELSE PhaseIn(Q, v)
  <2>1. PhaseIn(Q, u) # "waiting" /\ PhaseIn(Q, h) # "waiting"
    BY <1>2, <1>3, <1>4 DEF u
  <2> QED BY <1>3, <1>4, <2>1, PutTwice DEF b
<1>9. /\ QueueOK(s)
      /\ \A v \in Items : PhaseIn(s, v) = IF v \in InSeq(f) THEN "waiting" ELSE PhaseIn(b, v)
  <2>1. \A v \in InSeq(f) : PhaseIn(b, v) = "none"
    <3> TAKE v \in InSeq(f)
    <3>1. v \in Items
      BY <1>6, ElementOfSeq DEF InSeq
    <3>2. v \in RangesOf({j}) /\ v[2] < n
      BY <1>6, <3>1
    <3>3. v # h
      BY <1>3, <1>4, <3>2
    <3> QED BY <1>2, <1>3, <1>7, <3>1, <3>2, <3>3
  <2> QED BY <1>6, <1>7, <2>1, JoinedFacts DEF s
<1>10. /\ QueueOK(q) /\ NotStalled(q)
       /\ \A v \in Items : Pumps(PhaseIn(s, v), PhaseIn(q, v))
  BY <1>3, <1>9, PumpedFacts DEF q
<1>11. \A v \in Items : v[1] # j => Pumps(Phase(v), PhaseIn(q, v))
  <2> SUFFICES ASSUME NEW v \in Items, v[1] # j PROVE Pumps(Phase(v), PhaseIn(q, v))
    OBVIOUS
  <2>1. v # u /\ v # h /\ v \notin InSeq(f)
    BY <1>3, <1>4, <1>6 DEF u, h
  <2>2. Phase(v) = PhaseIn(s, v)
    BY <1>3, <1>7, <1>9, <2>1
  <2> QED BY <1>10, <2>2
<1>12. \A o \in Owners \ {j} : Alike(o)
  <2> TAKE o \in Owners \ {j}
  <2>1. o \in Jobs => split'[o] = split[o] /\ remaining'[o] = remaining[o]
    BY <1>1, <1>3 DEF TypeOK
  <2> QED BY <1>1, <1>5, <2>1 DEF Alike, FilesCarry, removals, user
<1>13. /\ QueueOK(Q)' /\ NoStall'
       /\ work' \in Seq(Items) /\ at' \in [Items -> Places] /\ strays' \in Nat
       /\ \A v \in Items : Phase(v)' = PhaseIn(q, v)
       /\ \A o \in Owners \ {j} : OwnerInv(o)'
  BY <1>1, <1>3, <1>10, <1>11, <1>12, OwnerStep
<1>14. TypeOK'
  <2>1. /\ split' \in [Jobs -> {"none", "open", "stopped", "complete", "closing", "unlinking"}]
        /\ remaining' \in [Jobs -> 0..Segments]
    BY <1>1, <1>3 DEF TypeOK
  <2>2. retries' \in [Items -> 0..MaxRetries] /\ sole' \in SUBSET Large
    BY <1>1, <1>3, <1>4 DEF TypeOK
  <2> QED BY <1>3, <1>5, <1>13, <2>1, <2>2
          DEF TypeOK, FilesTyped, logins, removals, user
<1>15. /\ split'[j] = "open" /\ remaining'[j] = n /\ status'[j] = "active"
       /\ j \in sole' => n = 1 \/ j \in sole
  BY <1>1, <1>3 DEF TypeOK
<1>16. \A v \in RangesOf({j}) :
         /\ v[2] < n => Phase(v)' \in {"waiting", "asking"}
         /\ v[2] = n => Phase(v)' = "receiving"
         /\ v[2] > n => Phase(v)' = "none"
         /\ v[2] < n \/ v[2] = n \/ v[2] > n
  <2> TAKE v \in RangesOf({j})
  <2>1. v \in Items /\ v[2] \in Nat /\ v # u
    BY <1>3
  <2>2. v \in InSeq(f) <=> v[2] < n
    BY <1>6, <2>1
  <2>3. v = h <=> v[2] = n
    BY <1>3, <1>4
  <2>4. PhaseIn(s, v) = IF v[2] < n THEN "waiting" ELSE IF v[2] = n THEN "receiving" ELSE "none"
    BY <1>2, <1>3, <1>7, <1>9, <2>1, <2>2, <2>3
  <2>5. Pumps(PhaseIn(s, v), Phase(v)')
    BY <1>10, <1>13, <2>1
  <2> QED BY <1>3, <2>1, <2>4, <2>5 DEF Pumps
<1>17. Phase(Whole(j))' = "none"
  <2>1. u \notin InSeq(f) /\ u # h
    BY <1>3, <1>4, <1>6
  <2> QED BY <1>3, <1>7, <1>9, <1>10, <1>13, <2>1 DEF Pumps, u
<1>18. OwnerInv(j)'
  <2>1. WholeInv(j)'
    BY <1>15, <1>17 DEF WholeInv, WholeRuns
  <2>2. SplitInv(j)'
    <3>1. j \notin cleanups' \cup unlinks' /\ j \notin plain'
      BY <1>2, <1>4 DEF removals
    <3>2. j \in sole' => n = 1
      BY <1>1, <1>2, <1>3, <1>15, ItemFacts DEF OwnerInv, SplitInv
    <3>3. n = 1 => \A v \in RangesOf({j}) : v[2] > 1 => Phase(v)' = "none"
      BY <1>16
    <3> QED BY <1>3, <1>4, <1>15, <1>17, <3>1, <3>2, <3>3 DEF SplitInv
  <2>3. RangesInv(j)'
    BY <1>15, <1>16 DEF RangesInv
  <2>4. CountInv(j)'
    <3>1. \A v \in RangesOf({j}) : Phase(v)' \in LivePhases <=> v[2] <= n
      BY <1>3, <1>16 DEF LivePhases
    <3> QED BY <1>4, <1>13, <1>15, <3>1, LiveUpTo DEF CountInv
  <2>5. RemovalsInv(j)'
    BY <1>2 DEF RemovalsInv, removals, user
  <2>6. FilesInv(j)'
    BY <1>2, <1>4, <1>5, <1>15, <1>17 DEF FilesInv, FilesCarry, removals
  <2> QED BY <2>1, <2>2, <2>3, <2>4, <2>5, <2>6 DEF OwnerInv
<1> QED BY <1>13, <1>14, <1>18 DEF Inv

LEMMA OpenForSplitStep ==
  ASSUME Inv, NEW j \in Jobs, OpenForSplit(j)
  PROVE  Inv'
<1>1. /\ at[Whole(j)] = "opening" /\ OpenFile(j)
      /\ UNCHANGED <<plain, onMain, logins, slots, restart, user>>
      /\ \/ /\ status[j] = "active"
            /\ \E n \in 1..Segments : SplitInto(j, n, <<j, n>>)
            /\ UNCHANGED <<status, removals>>
         \/ /\ RetryLater(j) \/ Fail(j) \/ EndCancelled(j)
            /\ UNCHANGED <<split, remaining, sole>>
  BY DEF OpenForSplit
<1>2. CASE /\ status[j] = "active"
           /\ \E n \in 1..Segments : SplitInto(j, n, <<j, n>>)
           /\ UNCHANGED <<status, removals>>
  BY <1>1, <1>2, SplitIntoStep
<1>3. CASE /\ RetryLater(j) \/ Fail(j) \/ EndCancelled(j)
           /\ UNCHANGED <<split, remaining, sole>>
  <2>1. at[Whole(j)] \in WholeRuns
    BY <1>1 DEF WholeRuns
  <2>2. j \in Downloads
    BY <1>1, <2>1, RunFacts, ItemFacts DEF Inv, OwnerInv, WholeInv
  <2>3. FilesCarry(j) /\ FilesTyped
    BY <1>1, <2>1, <2>2, FileSteps
  <2>4. onMain' \subseteq Jobs /\ UNCHANGED <<plain, logins, slots, splits, user>>
    BY <1>1, <1>3 DEF Inv, TypeOK, splits
  <2> QED BY <1>3, <2>1, <2>3, <2>4, EndsStep
<1> QED BY <1>1, <1>2, <1>3

-----------------------------------------------------------------------------
(* The end of a split, and clean-ups.                                      *)

LEMMA StillMoving ==
  ASSUME Inv, UNCHANGED hold
  PROVE  NotStalled(Q)
<1>1. Q \in QueueType /\ Q.work = work
  BY DEF Inv, QueueOK, Q
<1> QED BY <1>1, RunningIsBusy DEF Inv, NoStall, NotStalled

LEMMA PushOneFacts ==
  ASSUME NEW q, QueueOK(q), NEW u \in Items, PhaseIn(q, u) = "none"
  PROVE  /\ QueueOK(Push(q, <<u>>))
         /\ \A v \in Items : PhaseIn(Push(q, <<u>>), v) =
                             IF v = u THEN "waiting" ELSE PhaseIn(q, v)
<1> DEFINE us == <<u>>
<1>1. us \in Seq(Items) /\ Len(us) = 1 /\ us[1] = u
  OBVIOUS
<1> HIDE DEF us
<1>2. InSeq(us) = {u}
  BY <1>1 DEF InSeq
<1>3. \A i, k \in 1..Len(us) : us[i] = us[k] => i = k
  BY <1>1
<1>4. /\ QueueOK(Push(q, us))
      /\ \A v \in Items : PhaseIn(Push(q, us), v) =
                          IF v \in InSeq(us) THEN "waiting" ELSE PhaseIn(q, v)
  BY <1>1, <1>2, <1>3, PushFacts
<1> QED BY <1>2, <1>4 DEF us

(* What a run that waited for the file to be closed does to the queue: the  *)
(* split has no range left.                                                *)
LEMMA LeavesFacts ==
  ASSUME Inv, NEW j \in Large, split[j] \in {"closing", "complete", "unlinking"},
         NEW p, QueueOK(p), NotStalled(p), NextTypes,
         \A v \in Items : v # Whole(j) => Pumps(Phase(v), PhaseIn(p, v))
  PROVE  /\ QueueOK(CloserLeaves(p, j)) /\ NotStalled(CloserLeaves(p, j))
         /\ \A v \in Items : v[1] # j => Pumps(Phase(v), PhaseIn(CloserLeaves(p, j), v))
         /\ \A v \in RangesOf({j}) : PhaseIn(CloserLeaves(p, j), v) = "none"
         /\ Pumps(PhaseIn(p, Whole(j)), PhaseIn(CloserLeaves(p, j), Whole(j)))
<1> DEFINE r == CloserLeaves(p, j)
<1>1. /\ QueueOK(r) /\ NotStalled(r)
      /\ \A v \in Items :
           Pumps(IF v \in RangesOf({j}) /\ PhaseIn(p, v) = "closing" THEN "none" ELSE PhaseIn(p, v),
                 PhaseIn(r, v))
  BY CloserLeavesFacts
<1> HIDE DEF r
<1>2. /\ j \in Owners /\ j \in Jobs /\ OwnerInv(j)
      /\ Whole(j) \in Items /\ Whole(j)[1] = j /\ Whole(j) \notin RangesOf({j})
      /\ \A v \in RangesOf({j}) : v \in Items /\ v[1] = j /\ v # Whole(j)
  BY ItemFacts DEF Inv
<1>3. \A v \in RangesOf({j}) : PhaseIn(p, v) \in {"none", "closing"}
  <2>1. \A v \in RangesOf({j}) : Phase(v) \in {"none", "closing"}
    BY <1>2 DEF OwnerInv, RangesInv
  <2> QED BY <1>2, <2>1 DEF Pumps
<1>4. \A v \in RangesOf({j}) : PhaseIn(r, v) = "none"
  BY <1>1, <1>2, <1>3 DEF Pumps
<1>5. \A v \in Items : v[1] # j => Pumps(Phase(v), PhaseIn(r, v))
  <2> SUFFICES ASSUME NEW v \in Items, v[1] # j PROVE Pumps(Phase(v), PhaseIn(r, v))
    OBVIOUS
  <2>1. v # Whole(j) /\ v \notin RangesOf({j})
    BY <1>2
  <2>2. Pumps(Phase(v), PhaseIn(p, v)) /\ Pumps(PhaseIn(p, v), PhaseIn(r, v))
    BY <1>1, <2>1
  <2> QED BY <2>2 DEF Pumps
<1>6. Pumps(PhaseIn(p, Whole(j)), PhaseIn(r, Whole(j)))
  BY <1>1, <1>2
<1> QED BY <1>1, <1>4, <1>5, <1>6 DEF r

(* The other variables of a step that ends the split of j.                 *)
EndTyped(j) ==
  /\ UNCHANGED <<onMain, logins, slots, cleanups, reviving, cleared, revivals>>
  /\ status' = [status EXCEPT ![j] = status'[j]]
  /\ status'[j] \in Final \cup {"pending"}
  /\ retries' \in [Items -> 0..MaxRetries]
  /\ plain' \in SUBSET Downloads /\ \A i \in Jobs \ {j} : i \in plain' <=> i \in plain
  /\ unlinks' \in SUBSET Downloads /\ \A i \in Jobs \ {j} : i \in unlinks' <=> i \in unlinks
  /\ reviveLater' \in SUBSET Large
  /\ \A i \in Jobs \ {j} : i \in reviveLater' <=> i \in reviveLater
  /\ FilesTyped
  /\ \A i \in Downloads \ {j} : /\ file'[i] = file[i]
                                /\ i \in opened' <=> i \in opened
                                /\ i \in created' <=> i \in created

LEMMA SplitOverStep ==
  ASSUME Inv, NEW j \in Large, split[j] \in {"closing", "complete", "unlinking"},
         SplitOver(j), EndTyped(j),
         NEW q, QueueOK(q), SetQueue(q), NotStalled(q),
         \A v \in Items : v[1] # j => Pumps(Phase(v), PhaseIn(q, v)),
         \A v \in RangesOf({j}) : PhaseIn(q, v) = "none",
         WholeInv(j)', RemovalsInv(j)', FilesInv(j)'
  PROVE  Inv'
<1>1. /\ j \in Owners /\ j \in Jobs /\ j \in Downloads /\ TypeOK
      /\ Large \subseteq Jobs /\ Downloads \subseteq Jobs /\ Segments \in Nat
      /\ \A v \in RangesOf({j}) : v \in Items
  BY ItemFacts, QueueAssumption DEF Inv, QueueAssumption
<1>2. \A o \in Owners \ {j} : Alike(o)
  BY <1>1 DEF SplitOver, EndTyped, Alike, TypeOK
<1>3. /\ QueueOK(Q)' /\ NoStall'
      /\ work' \in Seq(Items) /\ at' \in [Items -> Places] /\ strays' \in Nat
      /\ \A v \in Items : Phase(v)' = PhaseIn(q, v)
      /\ \A o \in Owners \ {j} : OwnerInv(o)'
  BY <1>1, <1>2, OwnerStep
<1>4. TypeOK'
  <2>1. /\ split' \in [Jobs -> {"none", "open", "stopped", "complete", "closing", "unlinking"}]
        /\ remaining' \in [Jobs -> 0..Segments]
        /\ sole' \in SUBSET Large /\ restart' \in SUBSET Large
    BY <1>1 DEF SplitOver, TypeOK
  <2>2. status' \in [Owners -> Final \cup {"new", "pending", "active"}]
    BY <1>1 DEF EndTyped, TypeOK
  <2> QED BY <1>1, <1>3, <2>1, <2>2 DEF EndTyped, FilesTyped, TypeOK, logins
<1>5. OwnerInv(j)'
  <2>1. split'[j] = "none" /\ j \notin sole'
    BY <1>1 DEF SplitOver, TypeOK
  <2>2. \A v \in RangesOf({j}) : Phase(v)' = "none"
    BY <1>1, <1>3
  <2>3. SplitInv(j)' /\ RangesInv(j)' /\ CountInv(j)'
    BY <2>1, <2>2 DEF SplitInv, RangesInv, CountInv
  <2> QED BY <2>3 DEF OwnerInv
<1> QED BY <1>3, <1>4, <1>5 DEF Inv

LEMMA ClosedSplit ==
  ASSUME Inv, NEW j \in Jobs, split[j] \in {"closing", "complete", "unlinking"}
  PROVE  /\ j \in Large /\ j \in Downloads /\ j \in Owners /\ j \notin plain
         /\ OwnerInv(j) /\ TypeOK /\ QueueOK(Q)
         /\ Phase(Whole(j)) = "none" /\ PhaseIn(Q, Whole(j)) = "none"
         /\ j \notin cleanups \cup unlinks \cup reviving
         /\ file[j] = "partial" /\ j \in opened
         /\ Whole(j) \in Items
         /\ \A v \in Items : Pumps(Phase(v), PhaseIn(Q, v))
         /\ \A v \in Items : PhaseIn(Q, v) = Phase(v)
<1>1. OwnerInv(j) /\ TypeOK /\ QueueOK(Q) /\ j \in Owners /\ Whole(j) \in Items
  BY ItemFacts DEF Inv
<1>2. /\ j \in Large /\ j \in Downloads /\ j \notin plain /\ Phase(Whole(j)) = "none"
      /\ j \notin cleanups \cup unlinks
  BY <1>1, ItemFacts DEF OwnerInv, SplitInv
<1>3. j \notin reviving /\ file[j] = "partial" /\ j \in opened
  BY <1>1, <1>2 DEF OwnerInv, RemovalsInv, FilesInv
<1>4. \A v \in Items : PhaseIn(Q, v) = Phase(v)
  BY DEF Phase
<1> QED BY <1>1, <1>2, <1>3, <1>4 DEF Pumps

LEMMA CloseCancelledStep ==
  ASSUME Inv, NEW j \in Jobs, split[j] \in {"closing", "complete"},
         UNCHANGED <<onMain, logins, slots, opened, created, cleanups, user>>,
         SplitOver(j), SetQueue(CloserLeaves(Q, j)),
         UNCHANGED <<retries, plain>>,
         \/ /\ status[j] = "cancelled" /\ unlinks' = unlinks \cup {j}
            /\ UNCHANGED <<status, file>>
         \/ /\ status[j] = "active" /\ UNCHANGED unlinks
            /\ status' = [status EXCEPT ![j] = "completed"]
            /\ file' = [file EXCEPT ![j] = "whole"]
  PROVE  Inv'
<1> DEFINE q == CloserLeaves(Q, j)
<1>1. /\ j \in Large /\ j \in Downloads /\ j \in Owners /\ j \notin plain
      /\ OwnerInv(j) /\ TypeOK /\ QueueOK(Q)
      /\ Phase(Whole(j)) = "none" /\ PhaseIn(Q, Whole(j)) = "none"
      /\ j \notin cleanups \cup unlinks \cup reviving
      /\ file[j] = "partial" /\ j \in opened
      /\ Whole(j) \in Items
      /\ \A v \in Items : Pumps(Phase(v), PhaseIn(Q, v))
  BY ClosedSplit
<1>2. split[j] \in {"closing", "complete", "unlinking"} /\ NotStalled(Q) /\ NextTypes
  BY <1>1, StillMoving, QueueAssumption DEF logins, TypeOK, NextTypes, QueueAssumption
<1>3. /\ QueueOK(q) /\ NotStalled(q)
      /\ \A v \in Items : v[1] # j => Pumps(Phase(v), PhaseIn(q, v))
      /\ \A v \in RangesOf({j}) : PhaseIn(q, v) = "none"
      /\ PhaseIn(q, Whole(j)) = "none"
  <2>1. /\ QueueOK(q) /\ NotStalled(q)
        /\ \A v \in Items : v[1] # j => Pumps(Phase(v), PhaseIn(q, v))
        /\ \A v \in RangesOf({j}) : PhaseIn(q, v) = "none"
        /\ Pumps(PhaseIn(Q, Whole(j)), PhaseIn(q, Whole(j)))
    BY <1>1, <1>2, LeavesFacts
  <2> QED BY <1>1, <2>1 DEF Pumps
<1> HIDE DEF q
<1>4. SetQueue(q)
  BY DEF q
<1>5. Phase(Whole(j))' = "none"
  BY <1>1, <1>3, <1>4, SetQueueFacts
<1>6. \/ status[j] = "cancelled" /\ status'[j] = "cancelled" /\ file'[j] = "partial"
      \/ status[j] = "active" /\ status'[j] = "completed" /\ file'[j] = "whole" /\ unlinks' = unlinks
  BY <1>1 DEF TypeOK
<1>7. split'[j] = "none" /\ j \notin reviving' /\ j \notin reviveLater' /\ j \notin cleanups'
  BY <1>1, <1>6 DEF SplitOver, TypeOK, user, OwnerInv, RemovalsInv
<1>8. EndTyped(j)
  <2>1. FilesTyped /\ (\A i \in Downloads \ {j} : file'[i] = file[i])
    BY <1>1 DEF FilesTyped, TypeOK
  <2>2. status' = [status EXCEPT ![j] = status'[j]] /\ status'[j] \in Final \cup {"pending"}
    BY <1>1, <1>6 DEF TypeOK, Final
  <2> QED BY <1>1, <2>1, <2>2 DEF EndTyped, TypeOK, user
<1>9. WholeInv(j)'
  BY <1>5, <1>6 DEF WholeInv, WholeRuns
<1>10. RemovalsInv(j)'
  BY <1>1, <1>5, <1>6, <1>7 DEF RemovalsInv
<1>11. FilesInv(j)'
  <2>1. FilesInv(j) /\ opened' = opened /\ created' = created
    BY <1>1 DEF OwnerInv
  <2> QED BY <1>1, <1>5, <1>6, <1>7, <2>1 DEF FilesInv
<1> QED BY <1>1, <1>2, <1>3, <1>4, <1>8, <1>9, <1>10, <1>11, SplitOverStep

LEMMA CloseFailedStep ==
  ASSUME Inv, NEW j \in Jobs, split[j] = "closing", status[j] = "failed",
         UNCHANGED <<onMain, logins, slots, files, cleanups, user, status, retries, plain>>,
         UnlinkFirst(j)
  PROVE  Inv'
<1>1. /\ j \in Large /\ j \in Downloads /\ j \in Owners /\ j \notin plain
      /\ OwnerInv(j) /\ TypeOK /\ QueueOK(Q)
      /\ Phase(Whole(j)) = "none" /\ PhaseIn(Q, Whole(j)) = "none"
      /\ j \notin cleanups \cup unlinks \cup reviving
      /\ \A v \in Items : Pumps(Phase(v), PhaseIn(Q, v))
      /\ \A v \in Items : PhaseIn(Q, v) = Phase(v)
      /\ Whole(j) \in Items
  BY ClosedSplit
<1>2. SetQueue(Q) /\ NotStalled(Q)
  BY StillMoving DEF UnlinkFirst, queue, SetQueue, Q, logins
<1>3. QueueOK(Q)' /\ \A v \in Items : Phase(v)' = Phase(v)
  BY <1>1, <1>2, SetQueueFacts
<1>4. split'[j] = "unlinking" /\ split' = [split EXCEPT ![j] = "unlinking"]
  BY <1>1 DEF UnlinkFirst, TypeOK
<1>5. SplitTyped(j)
  BY <1>1, <1>4 DEF SplitTyped, UnlinkFirst, TypeOK, removals
<1>6. SplitInv(j)'
  BY <1>1, <1>3, <1>4 DEF SplitInv, UnlinkFirst
<1>7. RangesInv(j)'
  <2>1. \A v \in RangesOf({j}) : v \in Items /\ Phase(v) \in {"none", "closing"}
    BY <1>1, ItemFacts DEF OwnerInv, RangesInv
  <2> QED BY <1>3, <1>4, <2>1 DEF RangesInv
<1>8. CountInv(j)'
  BY <1>4 DEF CountInv
<1> QED BY <1>1, <1>2, <1>5, <1>6, <1>7, <1>8, SplitStep

LEMMA CloseRestartStep ==
  ASSUME Inv, NEW j \in Jobs, split[j] = "closing", status[j] = "active",
         UNCHANGED <<onMain, logins, slots, files, cleanups, unlinks, user>>,
         SplitOver(j),
         status' = [status EXCEPT ![j] = "pending"],
         retries' = [retries EXCEPT ![Whole(j)] = 0],
         plain' = plain \cup {j},
         SetQueue(CloserLeaves(Pumped(PushFront(Q, Whole(j))), j))
  PROVE  Inv'
<1> DEFINE s == PushFront(Q, Whole(j))
           p == Pumped(s)
           q == CloserLeaves(p, j)
<1>1. /\ j \in Large /\ j \in Downloads /\ j \in Owners /\ j \notin plain
      /\ OwnerInv(j) /\ TypeOK /\ QueueOK(Q)
      /\ Phase(Whole(j)) = "none" /\ PhaseIn(Q, Whole(j)) = "none"
      /\ j \notin cleanups \cup unlinks \cup reviving
      /\ file[j] = "partial" /\ j \in opened
      /\ \A v \in Items : PhaseIn(Q, v) = Phase(v)
      /\ Whole(j) \in Items
  BY ClosedSplit
<1>2. split[j] \in {"closing", "complete", "unlinking"} /\ NextTypes /\ MaxRetries \in Nat
  BY <1>1, QueueAssumption DEF logins, TypeOK, NextTypes, QueueAssumption
<1>3. /\ QueueOK(s)
      /\ \A v \in Items : PhaseIn(s, v) = IF v = Whole(j) THEN "waiting" ELSE PhaseIn(Q, v)
  BY <1>1, PushFrontFacts
<1> HIDE DEF s
<1>4. /\ QueueOK(p) /\ NotStalled(p)
      /\ \A v \in Items : Pumps(PhaseIn(s, v), PhaseIn(p, v))
  BY <1>2, <1>3, PumpedFacts
<1> HIDE DEF p
<1>5. /\ \A v \in Items : v # Whole(j) => Pumps(Phase(v), PhaseIn(p, v))
      /\ Pumps("waiting", PhaseIn(p, Whole(j)))
  BY <1>1, <1>3, <1>4
<1>6. /\ QueueOK(q) /\ NotStalled(q)
      /\ \A v \in Items : v[1] # j => Pumps(Phase(v), PhaseIn(q, v))
      /\ \A v \in RangesOf({j}) : PhaseIn(q, v) = "none"
      /\ Pumps(PhaseIn(p, Whole(j)), PhaseIn(q, Whole(j)))
  BY <1>1, <1>2, <1>4, <1>5, LeavesFacts
<1> HIDE DEF q
<1>7. SetQueue(q)
  BY DEF q, p, s
<1>8. Phase(Whole(j))' \in {"waiting", "asking"}
  BY <1>1, <1>5, <1>6, <1>7, SetQueueFacts DEF Pumps
<1>9. /\ split'[j] = "none" /\ status'[j] = "pending" /\ j \notin unlinks' \cup cleanups'
      /\ j \notin reviving' /\ j \notin reviveLater'
  BY <1>1 DEF SplitOver, TypeOK, user, OwnerInv, RemovalsInv
<1>10. EndTyped(j)
  <2>1. FilesTyped
    BY <1>1 DEF FilesTyped, TypeOK, files
  <2>2. retries' \in [Items -> 0..MaxRetries]
    BY <1>1, <1>2 DEF TypeOK
  <2> QED BY <1>1, <1>9, <2>1, <2>2 DEF EndTyped, TypeOK, user, files
<1>11. WholeInv(j)'
  BY <1>8, <1>9 DEF WholeInv, WholeRuns
<1>12. RemovalsInv(j)'
  BY <1>9 DEF RemovalsInv
<1>13. FilesInv(j)'
  <2>1. FilesInv(j) /\ opened' = opened /\ created' = created /\ file' = file
    BY <1>1 DEF OwnerInv, files
  <2> QED BY <1>1, <1>8, <1>9, <2>1 DEF FilesInv
<1> QED BY <1>1, <1>2, <1>6, <1>7, <1>10, <1>11, <1>12, <1>13, SplitOverStep

LEMMA FileClosedStep ==
  ASSUME Inv, NEW j \in Jobs, FileClosed(j)
  PROVE  Inv'
<1>1. /\ split[j] \in {"closing", "complete"}
      /\ UNCHANGED <<onMain, logins, slots, opened, created, cleanups, user>>
  BY DEF FileClosed
<1>2. LiveRanges(j) = {}
  <2>1. \A v \in RangesOf({j}) : Phase(v) \in {"none", "closing"}
    BY <1>1, ClosedSplit DEF OwnerInv, RangesInv
  <2> QED BY <2>1, LiveByPhase DEF Inv, LivePhases
<1>3. CASE /\ status[j] = "cancelled" /\ SplitOver(j) /\ unlinks' = unlinks \cup {j}
           /\ SetQueue(CloserLeaves(Q, j)) /\ UNCHANGED <<status, retries, plain, file>>
  BY <1>1, <1>3, CloseCancelledStep
<1>4. CASE /\ status[j] = "active" /\ SplitOver(j)
           /\ status' = [status EXCEPT ![j] = "completed"]
           /\ file' = [file EXCEPT ![j] = IF LiveRanges(j) = {} THEN "whole" ELSE @]
           /\ SetQueue(CloserLeaves(Q, j)) /\ UNCHANGED <<retries, plain, unlinks>>
  BY <1>1, <1>2, <1>4, CloseCancelledStep
<1>5. CASE /\ status[j] = "failed" /\ split[j] = "closing" /\ UnlinkFirst(j)
           /\ UNCHANGED <<status, retries, plain, file>>
  BY <1>1, <1>5, CloseFailedStep DEF files
<1>6. CASE /\ status[j] = "active" /\ split[j] = "closing" /\ SplitOver(j)
           /\ status' = [status EXCEPT ![j] = "pending"]
           /\ retries' = [retries EXCEPT ![Whole(j)] = 0]
           /\ plain' = plain \cup {j}
           /\ SetQueue(CloserLeaves(Pumped(PushFront(Q, Whole(j))), j))
           /\ UNCHANGED <<file, unlinks>>
  BY <1>1, <1>6, CloseRestartStep DEF files
<1> QED BY <1>3, <1>4, <1>5, <1>6 DEF FileClosed

LEMMA UnlinkFacts ==
  ASSUME TypeOK, NEW j \in Downloads, FilesInv(j), Unlink(j)
  PROVE  /\ FilesTyped
         /\ \A i \in Downloads \ {j} : /\ file'[i] = file[i]
                                       /\ i \in opened' <=> i \in opened
                                       /\ i \in created' <=> i \in created
         /\ file'[j] = "partial" => j \in opened' /\ j \in Locked
         /\ file'[j] \in {"partial", "whole"} /\ j \in Exclusive /\ j \in opened' => j \in created'
         /\ j \in created' => file'[j] \in {"partial", "whole"}
         /\ j \in opened' => j \in opened /\ file'[j] = file[j]
<1>1. CASE j \in Locked \/ j \in Exclusive \ created
  BY <1>1 DEF Unlink, files, FilesTyped, TypeOK, FilesInv
<1>2. CASE ~(j \in Locked \/ j \in Exclusive \ created)
  BY <1>2 DEF Unlink, FilesTyped, TypeOK, FilesInv
<1> QED BY <1>1, <1>2

LEMMA SplitUnlinkedStep ==
  ASSUME Inv, NEW j \in Jobs, SplitUnlinked(j)
  PROVE  Inv'
<1> DEFINE u == Whole(j)
<1>1. /\ split[j] = "unlinking" /\ Unlink(j) /\ SplitOver(j)
      /\ UNCHANGED <<logins, slots, onMain, removals, reviving, cleared, revivals>>
      /\ reviveLater' = reviveLater \ {j}
  BY DEF SplitUnlinked
<1>2. /\ j \in Large /\ j \in Downloads /\ j \in Owners /\ j \notin plain
      /\ OwnerInv(j) /\ TypeOK /\ QueueOK(Q)
      /\ Phase(u) = "none" /\ PhaseIn(Q, u) = "none"
      /\ j \notin cleanups \cup unlinks \cup reviving
      /\ file[j] = "partial" /\ j \in opened
      /\ \A v \in Items : PhaseIn(Q, v) = Phase(v)
      /\ \A v \in Items : Pumps(Phase(v), PhaseIn(Q, v))
      /\ u \in Items
  BY <1>1, ClosedSplit
<1>3. /\ split[j] \in {"closing", "complete", "unlinking"} /\ NextTypes /\ MaxRetries \in Nat
      /\ NotStalled(Q) /\ status[j] = "failed"
  BY <1>1, <1>2, StillMoving, QueueAssumption
     DEF logins, TypeOK, NextTypes, QueueAssumption, OwnerInv, SplitInv
<1>4. \E p : /\ QueueOK(p) /\ NotStalled(p) /\ SetQueue(CloserLeaves(p, j))
             /\ \A v \in Items : v # u => Pumps(Phase(v), PhaseIn(p, v))
             /\ \/ Reset({j}) /\ Pumps("waiting", PhaseIn(p, u))
                \/ UNCHANGED <<status, retries, plain>> /\ PhaseIn(p, u) = "none"
  <2>1. CASE ToRevive(j)
    <3> DEFINE s == Push(Q, <<u>>)
               p == Pumped(s)
    <3>1. Reset({j}) /\ SetQueue(CloserLeaves(p, j))
      BY <2>1 DEF SplitUnlinked
    <3> HIDE DEF s, p, u
    <3>2. /\ QueueOK(s)
          /\ \A v \in Items : PhaseIn(s, v) = IF v = u THEN "waiting" ELSE PhaseIn(Q, v)
      BY <1>2, PushOneFacts DEF s
    <3>3. /\ QueueOK(p) /\ NotStalled(p)
          /\ \A v \in Items : Pumps(PhaseIn(s, v), PhaseIn(p, v))
      BY <1>3, <3>2, PumpedFacts DEF p
    <3> QED BY <1>2, <3>1, <3>2, <3>3
  <2>2. CASE ~ToRevive(j) /\ j \in reviveLater
    <3> DEFINE p == Pumped(Q)
    <3>1. UNCHANGED <<status, retries, plain>> /\ SetQueue(CloserLeaves(p, j))
      BY <2>2 DEF SplitUnlinked
    <3>2. /\ QueueOK(p) /\ NotStalled(p)
          /\ \A v \in Items : Pumps(PhaseIn(Q, v), PhaseIn(p, v))
      BY <1>2, <1>3, PumpedFacts
    <3> HIDE DEF p, u
    <3>3. /\ \A v \in Items : v # u => Pumps(Phase(v), PhaseIn(p, v))
          /\ PhaseIn(p, u) = "none"
      BY <1>2, <3>2 DEF Pumps
    <3> QED BY <3>1, <3>2, <3>3
  <2>3. CASE ~ToRevive(j) /\ j \notin reviveLater
    <3>1. UNCHANGED <<status, retries, plain>> /\ SetQueue(CloserLeaves(Q, j))
      BY <2>3 DEF SplitUnlinked
    <3> HIDE DEF u
    <3> QED BY <1>2, <1>3, <3>1
  <2> QED BY <2>1, <2>2, <2>3
<1>5. PICK p : /\ QueueOK(p) /\ NotStalled(p) /\ SetQueue(CloserLeaves(p, j))
               /\ \A v \in Items : v # u => Pumps(Phase(v), PhaseIn(p, v))
               /\ \/ Reset({j}) /\ Pumps("waiting", PhaseIn(p, u))
                  \/ UNCHANGED <<status, retries, plain>> /\ PhaseIn(p, u) = "none"
  BY <1>4
<1> DEFINE q == CloserLeaves(p, j)
<1>6. /\ QueueOK(q) /\ NotStalled(q)
      /\ \A v \in Items : v[1] # j => Pumps(Phase(v), PhaseIn(q, v))
      /\ \A v \in RangesOf({j}) : PhaseIn(q, v) = "none"
      /\ Pumps(PhaseIn(p, u), PhaseIn(q, u))
  BY <1>2, <1>3, <1>5, LeavesFacts
<1> HIDE DEF q
<1>7. SetQueue(q)
  BY <1>5 DEF q
<1>8. Phase(u)' = PhaseIn(q, u)
  <2> HIDE DEF u
  <2> QED BY <1>2, <1>6, <1>7, SetQueueFacts
<1>9. /\ status' = [status EXCEPT ![j] = status'[j]]
      /\ retries' \in [Items -> 0..MaxRetries]
      /\ plain' \in SUBSET Downloads /\ (\A i \in Jobs \ {j} : i \in plain' <=> i \in plain)
      /\ j \notin plain'
      /\ \/ status'[j] = "pending" /\ Pumps("waiting", PhaseIn(p, u))
         \/ status'[j] = "failed" /\ PhaseIn(p, u) = "none"
  <2>1. CASE Reset({j}) /\ Pumps("waiting", PhaseIn(p, u))
    <3>1. status' = [status EXCEPT ![j] = "pending"]
      BY <1>2, <2>1 DEF Reset, TypeOK
    <3>2. retries' \in [Items -> 0..MaxRetries]
      BY <1>2, <1>3, <2>1 DEF Reset, TypeOK
    <3> QED BY <1>2, <2>1, <3>1, <3>2 DEF Reset, TypeOK
  <2>2. CASE UNCHANGED <<status, retries, plain>> /\ PhaseIn(p, u) = "none"
    BY <1>2, <1>3, <2>2 DEF TypeOK
  <2> QED BY <1>5, <2>1, <2>2
<1>10. \/ status'[j] = "pending" /\ Phase(u)' \in {"waiting", "asking"}
       \/ status'[j] = "failed" /\ Phase(u)' = "none"
  BY <1>6, <1>8, <1>9 DEF Pumps
<1>11. /\ FilesTyped
       /\ \A i \in Downloads \ {j} : /\ file'[i] = file[i]
                                     /\ i \in opened' <=> i \in opened
                                     /\ i \in created' <=> i \in created
       /\ file'[j] = "partial" => j \in opened' /\ j \in Locked
       /\ file'[j] \in {"partial", "whole"} /\ j \in Exclusive /\ j \in opened' => j \in created'
       /\ j \in created' => file'[j] \in {"partial", "whole"}
       /\ j \in opened' => j \in opened /\ file'[j] = file[j]
  BY <1>1, <1>2, UnlinkFacts DEF OwnerInv
<1>12. /\ split'[j] = "none" /\ j \notin unlinks' \cup cleanups'
       /\ j \notin reviving' /\ j \notin reviveLater'
  BY <1>1, <1>2 DEF SplitOver, TypeOK, removals
<1>13. EndTyped(j)
  BY <1>1, <1>2, <1>9, <1>11 DEF EndTyped, TypeOK, removals, Final
<1>14. WholeInv(j)'
  BY <1>10 DEF WholeInv, WholeRuns
<1>15. RemovalsInv(j)'
  BY <1>12 DEF RemovalsInv
<1>16. FilesInv(j)'
  BY <1>2, <1>10, <1>11, <1>12 DEF FilesInv
<1> QED BY <1>1, <1>2, <1>3, <1>6, <1>7, <1>13, <1>14, <1>15, <1>16, SplitOverStep

(* The other variables of a step about the file of j, which is not split.   *)
TidyTyped(j) ==
  /\ UNCHANGED <<status, retries, plain, onMain, logins, slots, splits, reviveLater, cleared, revivals>>
  /\ cleanups' \subseteq cleanups /\ unlinks' \subseteq unlinks /\ reviving' \subseteq reviving
  /\ \A i \in Jobs \ {j} : /\ i \in cleanups' <=> i \in cleanups
                           /\ i \in unlinks' <=> i \in unlinks
                           /\ i \in reviving' <=> i \in reviving
  /\ FilesTyped
  /\ \A i \in Downloads \ {j} : /\ file'[i] = file[i]
                                /\ i \in opened' <=> i \in opened
                                /\ i \in created' <=> i \in created

LEMMA TidyStep ==
  ASSUME Inv, NEW j \in Downloads, split[j] = "none", TidyTyped(j),
         NEW q, QueueOK(q), SetQueue(q), NotStalled(q),
         \A v \in Items : v # Whole(j) => Pumps(Phase(v), PhaseIn(q, v)),
         WholeInv(j)', RemovalsInv(j)', FilesInv(j)'
  PROVE  Inv'
<1>1. /\ j \in Owners /\ j \in Jobs /\ TypeOK /\ Downloads \subseteq Jobs /\ OwnerInv(j)
      /\ Whole(j)[1] = j
      /\ \A v \in RangesOf({j}) : v \in Items /\ v # Whole(j)
  BY ItemFacts DEF Inv
<1>2. \A o \in Owners \ {j} : Alike(o)
  BY <1>1 DEF TidyTyped, Alike, splits
<1>3. \A v \in Items : v[1] # j => Pumps(Phase(v), PhaseIn(q, v))
  BY <1>1
<1>4. /\ QueueOK(Q)' /\ NoStall'
      /\ work' \in Seq(Items) /\ at' \in [Items -> Places] /\ strays' \in Nat
      /\ \A v \in Items : Phase(v)' = PhaseIn(q, v)
      /\ \A o \in Owners \ {j} : OwnerInv(o)'
  BY <1>1, <1>2, <1>3, OwnerStep
<1>5. TypeOK'
  BY <1>1, <1>4 DEF TidyTyped, FilesTyped, TypeOK, logins, splits
<1>6. OwnerInv(j)'
  <2>1. split'[j] = "none" /\ j \notin sole'
    BY <1>1 DEF TidyTyped, splits, OwnerInv, SplitInv
  <2>2. \A v \in RangesOf({j}) : Phase(v)' = "none"
    <3>1. \A v \in RangesOf({j}) : Phase(v) = "none"
      BY <1>1 DEF OwnerInv, RangesInv
    <3> QED BY <1>1, <1>4, <3>1 DEF Pumps
  <2>3. SplitInv(j)' /\ RangesInv(j)' /\ CountInv(j)'
    BY <2>1, <2>2 DEF SplitInv, RangesInv, CountInv
  <2> QED BY <2>3 DEF OwnerInv
<1> QED BY <1>4, <1>5, <1>6 DEF Inv

LEMMA CleanupDoneStep ==
  ASSUME Inv, NEW j \in Jobs, CleanupDone(j)
  PROVE  Inv'
<1> DEFINE u == Whole(j)
<1>1. /\ j \in cleanups /\ Unlink(j)
      /\ cleanups' = cleanups \ {j} /\ reviving' = reviving \ {j}
      /\ UNCHANGED <<logins, slots>>
      /\ SetQueue(Revived(j))
      /\ UNCHANGED <<status, retries, plain, onMain, splits, unlinks, reviveLater, cleared, revivals>>
  BY DEF CleanupDone
<1>2. /\ TypeOK /\ QueueOK(Q) /\ j \in Owners /\ OwnerInv(j) /\ j \in Downloads
      /\ \A v \in Items : PhaseIn(Q, v) = Phase(v)
      /\ \A v \in Items : Pumps(Phase(v), PhaseIn(Q, v))
      /\ u \in Items
  BY <1>1, ItemFacts DEF Inv, TypeOK, Phase, Pumps
<1>3. /\ Phase(u) = "none" /\ status[j] \in {"failed", "pending", "cancelled"}
      /\ split[j] = "none" /\ (j \in reviving <=> status[j] = "pending")
      /\ j \notin reviveLater /\ (j \in unlinks => status[j] = "cancelled")
  BY <1>1, <1>2 DEF OwnerInv, RemovalsInv, SplitInv, WholeInv
<1>4. NextTypes /\ NotStalled(Q)
  BY <1>1, <1>2, StillMoving, QueueAssumption
     DEF logins, TypeOK, NextTypes, QueueAssumption
<1>5. \E q : /\ QueueOK(q) /\ NotStalled(q) /\ SetQueue(q)
             /\ \A v \in Items : v # u => Pumps(Phase(v), PhaseIn(q, v))
             /\ \/ j \in reviving /\ PhaseIn(q, u) \in {"waiting", "asking"}
                \/ j \notin reviving /\ PhaseIn(q, u) = "none"
  <2>1. CASE j \in reviving
    <3> DEFINE s == Push(Q, <<u>>)
               q == Pumped(s)
    <3>1. SetQueue(q)
      BY <1>1, <2>1 DEF Revived
    <3> HIDE DEF s, q, u
    <3>2. /\ QueueOK(s)
          /\ \A v \in Items : PhaseIn(s, v) = IF v = u THEN "waiting" ELSE PhaseIn(Q, v)
      BY <1>2, <1>3, PushOneFacts DEF s
    <3>3. /\ QueueOK(q) /\ NotStalled(q)
          /\ \A v \in Items : Pumps(PhaseIn(s, v), PhaseIn(q, v))
      BY <1>4, <3>2, PumpedFacts DEF q
    <3>4. PhaseIn(q, u) \in {"waiting", "asking"}
      BY <1>2, <3>2, <3>3 DEF Pumps
    <3> QED BY <1>2, <2>1, <3>1, <3>2, <3>3, <3>4
  <2>2. CASE j \notin reviving
    <3>1. SetQueue(Q)
      BY <1>1, <2>2 DEF Revived
    <3> HIDE DEF u
    <3> QED BY <1>2, <1>3, <1>4, <2>2, <3>1
  <2> QED BY <2>1, <2>2
<1>6. PICK q : /\ QueueOK(q) /\ NotStalled(q) /\ SetQueue(q)
               /\ \A v \in Items : v # u => Pumps(Phase(v), PhaseIn(q, v))
               /\ \/ j \in reviving /\ PhaseIn(q, u) \in {"waiting", "asking"}
                  \/ j \notin reviving /\ PhaseIn(q, u) = "none"
  BY <1>5
<1>7. Phase(u)' = PhaseIn(q, u)
  <2> HIDE DEF u
  <2> QED BY <1>2, <1>6, SetQueueFacts
<1>8. /\ FilesTyped
      /\ \A i \in Downloads \ {j} : /\ file'[i] = file[i]
                                    /\ i \in opened' <=> i \in opened
                                    /\ i \in created' <=> i \in created
      /\ file'[j] = "partial" => j \in opened' /\ j \in Locked
      /\ file'[j] \in {"partial", "whole"} /\ j \in Exclusive /\ j \in opened' => j \in created'
      /\ j \in created' => file'[j] \in {"partial", "whole"}
      /\ j \in opened' => j \in opened /\ file'[j] = file[j]
  BY <1>1, <1>2, UnlinkFacts DEF OwnerInv
<1>9. TidyTyped(j)
  BY <1>1, <1>8 DEF TidyTyped
<1>10. WholeInv(j)'
  BY <1>1, <1>3, <1>6, <1>7 DEF WholeInv, WholeRuns
<1>11. RemovalsInv(j)'
  BY <1>1, <1>3, <1>6, <1>7 DEF RemovalsInv
<1>12. FilesInv(j)'
  BY <1>1, <1>2, <1>3, <1>6, <1>7, <1>8 DEF OwnerInv, FilesInv, splits
<1> QED BY <1>2, <1>3, <1>6, <1>9, <1>10, <1>11, <1>12, TidyStep

LEMMA CancelUnlinkedStep ==
  ASSUME Inv, NEW j \in Jobs, CancelUnlinked(j)
  PROVE  Inv'
<1>1. /\ j \in unlinks /\ Unlink(j) /\ unlinks' = unlinks \ {j}
      /\ UNCHANGED <<status, queue, retries, plain, onMain, logins, slots, splits, cleanups, user>>
  BY DEF CancelUnlinked
<1>2. /\ TypeOK /\ QueueOK(Q) /\ j \in Owners /\ OwnerInv(j) /\ j \in Downloads
      /\ \A v \in Items : PhaseIn(Q, v) = Phase(v)
      /\ \A v \in Items : Pumps(Phase(v), PhaseIn(Q, v))
      /\ Whole(j) \in Items
  BY <1>1, ItemFacts DEF Inv, TypeOK, Phase, Pumps
<1>3. /\ Phase(Whole(j)) = "none" /\ status[j] = "cancelled"
      /\ split[j] = "none" /\ j \notin reviving /\ j \notin reviveLater
  BY <1>1, <1>2 DEF OwnerInv, RemovalsInv, SplitInv
<1>4. SetQueue(Q) /\ NotStalled(Q)
  BY <1>1, StillMoving DEF queue, SetQueue, Q, logins
<1>5. Phase(Whole(j))' = "none"
  BY <1>2, <1>3, <1>4, SetQueueFacts
<1>6. /\ FilesTyped
      /\ \A i \in Downloads \ {j} : /\ file'[i] = file[i]
                                    /\ i \in opened' <=> i \in opened
                                    /\ i \in created' <=> i \in created
      /\ file'[j] = "partial" => j \in opened' /\ j \in Locked
      /\ file'[j] \in {"partial", "whole"} /\ j \in Exclusive /\ j \in opened' => j \in created'
      /\ j \in created' => file'[j] \in {"partial", "whole"}
      /\ j \in opened' => j \in opened /\ file'[j] = file[j]
  BY <1>1, <1>2, UnlinkFacts DEF OwnerInv
<1>7. TidyTyped(j)
  BY <1>1, <1>6 DEF TidyTyped, user
<1>8. WholeInv(j)'
  BY <1>1, <1>3, <1>5 DEF WholeInv, WholeRuns
<1>9. RemovalsInv(j)'
  BY <1>1, <1>3, <1>5 DEF RemovalsInv, user
<1>10. FilesInv(j)'
  BY <1>1, <1>2, <1>3, <1>5, <1>6 DEF OwnerInv, FilesInv, splits
<1> QED BY <1>2, <1>3, <1>4, <1>7, <1>8, <1>9, <1>10, TidyStep

LEMMA FileAppearsStep ==
  ASSUME Inv, NEW j \in Jobs, FileAppears(j)
  PROVE  Inv'
<1>1. /\ j \in Exclusive /\ file[j] = "absent" /\ file' = [file EXCEPT ![j] = "theirs"]
      /\ UNCHANGED <<status, queue, retries, plain, onMain, logins, slots, splits, opened, created,
                     removals, user>>
  BY DEF FileAppears
<1>2. /\ TypeOK /\ QueueOK(Q) /\ j \in Owners /\ OwnerInv(j) /\ j \in Downloads
      /\ \A v \in Items : Pumps(Phase(v), PhaseIn(Q, v))
      /\ \A v \in Items : PhaseIn(Q, v) = Phase(v)
      /\ Whole(j) \in Items
  BY <1>1, ItemFacts, QueueAssumption DEF Inv, QueueAssumption, Phase, Pumps
<1>3. split[j] = "none"
  BY <1>1, <1>2 DEF OwnerInv, FilesInv
<1>4. SetQueue(Q) /\ NotStalled(Q)
  BY <1>1, StillMoving DEF queue, SetQueue, Q, logins
<1>5. Phase(Whole(j))' = Phase(Whole(j))
  BY <1>2, <1>4, SetQueueFacts
<1>6. file'[j] = "theirs" /\ FilesTyped /\ (\A i \in Downloads \ {j} : file'[i] = file[i])
  BY <1>1, <1>2 DEF FilesTyped, TypeOK
<1>7. TidyTyped(j)
  BY <1>1, <1>6 DEF TidyTyped, user, removals
<1>8. WholeInv(j)'
  BY <1>1, <1>2, <1>5 DEF OwnerInv, WholeInv, user
<1>9. RemovalsInv(j)'
  BY <1>1, <1>2, <1>5, ItemFacts DEF OwnerInv, RemovalsInv, user, splits, removals
<1>10. FilesInv(j)'
  BY <1>1, <1>2, <1>5, <1>6 DEF OwnerInv, FilesInv, splits, removals
<1> QED BY <1>2, <1>3, <1>4, <1>7, <1>8, <1>9, <1>10, TidyStep

-----------------------------------------------------------------------------
(* acquire() answers without a client.                                     *)

LEMMA GivenBackStep ==
  ASSUME Inv, NEW q, QueueOK(q), \A u \in Items : ShufflesTo(u, PhaseIn(q, u)),
         SetQueue(Pumped(q)), NextTypes, failures' \in 0..MaxLoginFailures - 1,
         UNCHANGED <<status, retries, plain, onMain, splits, files, removals, user>>
  PROVE  Inv'
<1> DEFINE r == Pumped(q)
<1>1. /\ QueueOK(r) /\ NotStalled(r)
      /\ \A u \in Items : Pumps(PhaseIn(q, u), PhaseIn(r, u))
  BY PumpedFacts
<1> HIDE DEF r
<1>2. \A u \in Items : ShufflesTo(u, PhaseIn(r, u))
  BY <1>1, PumpedShuffle
<1>3. SetQueue(r)
  BY DEF r
<1> QED BY <1>1, <1>2, <1>3, ShuffleStep

LEMMA ReturnedFacts ==
  ASSUME Inv, NEW u \in Items, at[u] = "asking"
  PROVE  /\ QueueOK(Returned(u))
         /\ \A v \in Items : ShufflesTo(v, PhaseIn(Returned(u), v))
<1> DEFINE s == Put(Q, u, "none")
<1>1. /\ QueueOK(Q) /\ Phase(u) = "asking" /\ PhaseIn(Q, u) = "asking"
      /\ \A v \in Items : PhaseIn(Q, v) = Phase(v)
  BY PhaseOfRun DEF Inv
<1>2. QueueOK(s) /\ \A v \in Items : PhaseIn(s, v) = IF v = u THEN "none" ELSE PhaseIn(Q, v)
  <2>1. QueueOK(Q) /\ PhaseIn(Q, u) # "waiting" /\ "none" \in Places
    BY <1>1 DEF Places
  <2> QED BY <2>1, PutFacts
<1>3. Returned(u) = IF Runnable(u) THEN PushFront(s, u) ELSE s
  BY DEF Returned
<1> HIDE DEF s
<1>4. CASE Runnable(u)
  <2>1. /\ QueueOK(PushFront(s, u))
        /\ \A v \in Items : PhaseIn(PushFront(s, u), v) = IF v = u THEN "waiting" ELSE PhaseIn(s, v)
    BY <1>2, PushFrontFacts
  <2> QED BY <1>1, <1>2, <1>3, <1>4, <2>1 DEF ShufflesTo
<1>5. CASE ~Runnable(u)
  BY <1>1, <1>2, <1>3, <1>5 DEF ShufflesTo
<1> QED BY <1>4, <1>5

LEMMA StrayLeftFacts ==
  ASSUME Inv, strays > 0
  PROVE  /\ QueueOK(StrayLeft)
         /\ \A v \in Items : ShufflesTo(v, PhaseIn(StrayLeft, v))
<1>1. /\ QueueOK(Q) /\ strays \in Nat
      /\ Q = [work |-> work, at |-> at, strays |-> strays]
      /\ StrayLeft = [work |-> work, at |-> at, strays |-> strays - 1]
  <2>1. StrayLeft = [Q EXCEPT !.strays = strays - 1]
    BY DEF StrayLeft
  <2> QED BY <2>1 DEF Inv, TypeOK, Q
<1>2. QueueOK(StrayLeft)
  BY <1>1 DEF QueueOK, QueueType, InSeq
<1>3. \A v \in Items : PhaseIn(StrayLeft, v) = Phase(v)
  BY <1>1 DEF Phase, PhaseIn, InSeq
<1> QED BY <1>2, <1>3 DEF ShufflesTo

LEMMA LimitedStep ==
  ASSUME Inv, NEW q, QueueOK(q), \A u \in Items : ShufflesTo(u, PhaseIn(q, u)), Limited(q)
  PROVE  Inv'
<1>1. /\ NextTypes /\ failures' \in 0..MaxLoginFailures - 1
      /\ UNCHANGED <<status, retries, plain, onMain, splits, files, removals, user>>
  BY QueueAssumption DEF Inv, TypeOK, NextTypes, Limited, logins, QueueAssumption
<1>2. CASE Alone(q)
  BY <1>1, <1>2, GivenBackStep DEF Limited
<1>3. CASE ~Alone(q)
  <2>1. q \in QueueType /\ Running(q) # 0 /\ SetQueue(q)
    BY <1>3 DEF QueueOK, Alone, Limited
  <2>2. NotStalled(q)
    BY <2>1, RunningIsBusy DEF NotStalled
  <2> QED BY <1>1, <2>1, <2>2, ShuffleStep
<1> QED BY <1>2, <1>3

LEMMA FailPendingStep ==
  ASSUME Inv, NEW q, QueueOK(q), \A u \in Items : ShufflesTo(u, PhaseIn(q, u)),
         FailPending(q), NextTypes, failures' \in 0..MaxLoginFailures - 1,
         UNCHANGED <<retries, plain, onMain, remaining, sole, restart, files, unlinks, user>>
  PROVE  Inv'
<1> DEFINE wholes == {u[1] : u \in {w \in InSeq(q.work) : w[2] = 0}}
           torn == {u[1] : u \in {w \in InSeq(q.work) : w[2] > 0}}
           rest == [q EXCEPT !.work = <<>>]
           s == Stopped(rest, torn)
           r == Pumped(s)
<1>1. /\ status' = [j \in Owners |-> IF j \in wholes \cup torn THEN "failed" ELSE status[j]]
      /\ cleanups' = cleanups \cup (wholes \cap opened)
      /\ split' = StoppedSplit(rest, torn)
      /\ SetQueue(r)
  BY Zenon DEF FailPending, FailedOwners, OpenedBy
<1>2. InSeq(q.work) \subseteq Items /\ TypeOK /\ QueueOK(Q)
  BY ElementOfSeq DEF QueueOK, QueueType, InSeq, Inv
<1>3. \A o \in Owners : o \in wholes <=> PhaseIn(q, Whole(o)) = "waiting"
  BY <1>2, ItemFacts DEF PhaseIn, QueueOK, QueueType, Places, RunPlaces
<1>4. \A o : o \in torn => o \in Large /\ \E u \in RangesOf({o}) : PhaseIn(q, u) = "waiting"
  BY <1>2, ItemFacts DEF PhaseIn
<1>5. \A o \in Owners : \A u \in RangesOf({o}) : PhaseIn(q, u) = "waiting" => o \in torn
  BY <1>2, ItemFacts DEF PhaseIn, QueueOK, QueueType, Places, RunPlaces
<1> HIDE DEF wholes, torn
<1>6. /\ QueueOK(rest)
      /\ \A u \in Items : PhaseIn(rest, u) = IF PhaseIn(q, u) = "waiting" THEN "none" ELSE PhaseIn(q, u)
  <2>1. /\ q \in QueueType /\ \A u \in InSeq(q.work) : q.at[u] = "none"
        /\ q.at \in [Items -> Places] /\ q.strays \in Nat
    BY DEF QueueOK, QueueType
  <2>2. rest = [work |-> <<>>, at |-> q.at, strays |-> q.strays]
    BY <2>1 DEF QueueType
  <2>3. <<>> \in Seq(Items) /\ InSeq(<<>>) = {} /\ Len(<<>>) = 0
    BY DEF InSeq
  <2> HIDE DEF rest
  <2>4. rest.work = <<>> /\ rest.at = q.at /\ rest \in QueueType
    BY <2>1, <2>2, <2>3 DEF QueueType
  <2>5. QueueOK(rest)
    BY <2>3, <2>4 DEF QueueOK
  <2>6. \A u \in Items : PhaseIn(rest, u) = IF PhaseIn(q, u) = "waiting" THEN "none" ELSE PhaseIn(q, u)
    BY <2>1, <2>3, <2>4 DEF PhaseIn, Places, RunPlaces
  <2> QED BY <2>5, <2>6
<1> HIDE DEF rest
<1>7. /\ QueueOK(s)
      /\ \A u \in Items : PhaseIn(s, u) =
           IF u \in RangesOf(torn) /\ PhaseIn(rest, u) \in Droppable THEN "none" ELSE PhaseIn(rest, u)
  BY <1>6, StoppedFacts
<1> HIDE DEF s
<1>8. /\ QueueOK(r) /\ NotStalled(r)
      /\ \A u \in Items : Pumps(PhaseIn(s, u), PhaseIn(r, u))
  BY <1>7, PumpedFacts
<1> HIDE DEF r
<1>9. /\ QueueOK(Q)' /\ NoStall'
      /\ work' \in Seq(Items) /\ at' \in [Items -> Places] /\ strays' \in Nat
      /\ \A u \in Items : Phase(u)' = PhaseIn(r, u)
  BY <1>1, <1>8, SetQueueFacts
<1>10. \A u \in Items : Phase(u)' =
         IF \/ PhaseIn(q, u) = "waiting"
            \/ (u \in RangesOf(torn) /\ PhaseIn(q, u) \in Droppable)
         THEN "none" ELSE PhaseIn(q, u)
  <2> TAKE u \in Items
  <2>1. Pumps(PhaseIn(s, u), Phase(u)')
    BY <1>8, <1>9
  <2>2. PhaseIn(s, u) =
          IF u \in RangesOf(torn) /\ PhaseIn(rest, u) \in Droppable THEN "none" ELSE PhaseIn(rest, u)
    BY <1>7
  <2>3. PhaseIn(rest, u) = IF PhaseIn(q, u) = "waiting" THEN "none" ELSE PhaseIn(q, u)
    BY <1>6
  <2> QED BY <2>1, <2>2, <2>3 DEF Pumps, Droppable
<1>11. \A o \in wholes : /\ o \in Owners => status[o] = "pending" /\ Phase(Whole(o)) # "none"
  BY <1>3, ItemFacts DEF ShufflesTo, Runnable, Inv, OwnerInv, WholeInv
<1>12. \A o \in torn : split[o] = "open" /\ status[o] = "active" /\ o \in Large /\ o \in Owners
  <2> TAKE o \in torn
  <2>1. PICK u \in RangesOf({o}) : PhaseIn(q, u) = "waiting"
    BY <1>4
  <2>2. o \in Large /\ o \in Jobs /\ o \in Owners /\ u \in Items
    BY <1>4, <2>1, ItemFacts
  <2>3. Phase(u) \in {"waiting", "asking", "backoff"}
    BY <2>1, <2>2 DEF ShufflesTo
  <2>4. split[o] = "open"
    BY <2>1, <2>2, <2>3 DEF Inv, OwnerInv, RangesInv
  <2> QED BY <2>2, <2>4 DEF Inv, OwnerInv, SplitInv
<1>13. TypeOK'
  <2>1. split' \in [Jobs -> {"none", "open", "stopped", "complete", "closing", "unlinking"}]
    BY <1>1, <1>2 DEF StoppedSplit, TypeOK
  <2>2. status' \in [Owners -> Final \cup {"new", "pending", "active"}]
    BY <1>1, <1>2 DEF TypeOK, Final
  <2>3. cleanups' \in SUBSET Downloads
    BY <1>1, <1>2 DEF TypeOK
  <2> QED BY <1>2, <1>9, <2>1, <2>2, <2>3 DEF TypeOK, NextTypes, files, user
<1>14. \A o \in Owners \ (wholes \cup torn) : OwnerInv(o)'
  <2> TAKE o \in Owners \ (wholes \cup torn)
  <2>1. /\ Whole(o) \in Items /\ Whole(o) \notin RangesOf(torn) /\ PhaseIn(q, Whole(o)) # "waiting"
        /\ \A u \in RangesOf({o}) : u \in Items /\ u \notin RangesOf(torn) /\ PhaseIn(q, u) # "waiting"
    BY <1>3, <1>5, ItemFacts
  <2>2. ShufflesTo(Whole(o), Phase(Whole(o))')
    BY <1>10, <2>1
  <2>3. \A u \in RangesOf({o}) : ShufflesTo(u, Phase(u)')
    BY <1>10, <2>1
  <2>4. Alike(o)
    <3>1. status'[o] = status[o] /\ (o \in cleanups' <=> o \in cleanups)
      BY <1>1
    <3>2. o \in Jobs => split'[o] = split[o]
      BY <1>1 DEF StoppedSplit
    <3> QED BY <3>1, <3>2 DEF Alike, files, user
  <2> QED BY <1>9, <2>2, <2>3, <2>4, UntouchedKeeps DEF Untouched
<1>15. ASSUME NEW o \in Owners, o \in wholes
       PROVE  OwnerInv(o)'
  <2>1. /\ status[o] = "pending" /\ Phase(Whole(o)) # "none" /\ OwnerInv(o)
        /\ o \notin torn /\ status'[o] = "failed" /\ Whole(o) \in Items
    BY <1>1, <1>11, <1>12, <1>15, ItemFacts DEF Inv
  <2>2. Phase(Whole(o))' = "none"
    BY <1>3, <1>10, <1>15, <2>1
  <2>3. WholeInv(o)'
    BY <2>1, <2>2 DEF WholeInv, WholeRuns
  <2> SUFFICES ASSUME o \in Jobs
               PROVE  /\ SplitInv(o)' /\ RangesInv(o)' /\ CountInv(o)' /\ RemovalsInv(o)'
                      /\ o \in Downloads => FilesInv(o)'
    BY <2>3, ItemFacts DEF OwnerInv
  <2>4. /\ split[o] = "none" /\ o \notin sole /\ o \notin cleanups /\ o \notin unlinks
        /\ o \notin reviving /\ o \notin reviveLater
    BY <2>1 DEF OwnerInv, SplitInv, RemovalsInv
  <2>5. split'[o] = "none"
    BY <1>1, <2>1, <2>4 DEF StoppedSplit
  <2>6. \A u \in RangesOf({o}) : Phase(u)' = "none"
    <3> TAKE u \in RangesOf({o})
    <3>1. u \in Items /\ Phase(u) = "none"
      BY <2>1, <2>4, ItemFacts DEF OwnerInv, RangesInv
    <3> QED BY <1>10, <3>1 DEF ShufflesTo
  <2>7. SplitInv(o)' /\ RangesInv(o)' /\ CountInv(o)'
    BY <2>4, <2>5, <2>6 DEF SplitInv, RangesInv, CountInv
  <2>8. RemovalsInv(o)'
    BY <2>1, <2>2, <2>4 DEF RemovalsInv, user
  <2>9. ASSUME o \in Downloads PROVE FilesInv(o)'
    BY <1>1, <1>15, <2>1, <2>2, <2>4, <2>5, <2>9 DEF OwnerInv, FilesInv, files
  <2> QED BY <2>7, <2>8, <2>9
<1>16. ASSUME NEW o \in torn
       PROVE  OwnerInv(o)'
  <2>1. /\ split[o] = "open" /\ status[o] = "active" /\ o \in Large /\ o \in Owners /\ o \in Jobs
        /\ OwnerInv(o) /\ Whole(o) \in Items
        /\ \A u \in RangesOf({o}) : u \in Items /\ u \in RangesOf(torn)
    BY <1>12, ItemFacts DEF Inv
  <2>2. /\ Phase(Whole(o)) = "none" /\ o \notin plain /\ o \notin cleanups \cup unlinks
        /\ o \notin wholes
    BY <1>11, <2>1 DEF OwnerInv, SplitInv
  <2>3. Phase(Whole(o))' = "none" /\ status'[o] = "failed"
    BY <1>1, <1>10, <2>1, <2>2, ItemFacts DEF ShufflesTo
  <2>4. \A u \in RangesOf({o}) :
          /\ PhaseIn(rest, u) \in {"none", "asking", "backoff", "receiving"}
          /\ Phase(u)' = IF PhaseIn(rest, u) = "receiving" THEN "receiving" ELSE "none"
    <3> TAKE u \in RangesOf({o})
    <3>1. u \in Items /\ Phase(u) \in {"none", "waiting", "asking", "backoff", "receiving"}
      BY <2>1 DEF OwnerInv, RangesInv
    <3>2. PhaseIn(q, u) \in {"none", "waiting", "asking", "backoff", "receiving"}
      BY <3>1 DEF ShufflesTo
    <3> QED BY <1>6, <1>10, <2>1, <3>1, <3>2 DEF Droppable
  <2>5. split'[o] = IF \E u \in RangesOf({o}) : PhaseIn(rest, u) = "receiving"
                    THEN "stopped" ELSE "closing"
    BY <1>1, <1>6, <2>1, ReceivingByPhase DEF StoppedSplit
  <2>6. SplitInv(o)'
    BY <2>1, <2>2, <2>3, <2>4, <2>5, <1>1 DEF SplitInv
  <2>7. RangesInv(o)'
    BY <2>4, <2>5 DEF RangesInv
  <2>8. CountInv(o)'
    BY <2>5 DEF CountInv
  <2>9. o \in cleanups' => o \in cleanups
    BY <1>1, <2>2
  <2> QED BY <2>1, <2>3, <2>5, <2>6, <2>7, <2>8, <2>9, SplitGoesOn
<1> QED BY <1>9, <1>13, <1>14, <1>15, <1>16 DEF Inv

LEMMA LoginFailsStep ==
  ASSUME Inv, NEW q, QueueOK(q), \A u \in Items : ShufflesTo(u, PhaseIn(q, u)), LoginFails(q)
  PROVE  Inv'
<1>1. /\ UNCHANGED <<slots, retries, plain, onMain, remaining, sole, restart, files, unlinks, user>>
      /\ failures \in 0..MaxLoginFailures - 1 /\ hold \in BOOLEAN
      /\ slots \in 1..MaxSlots /\ MaxLoginFailures \in Nat \ {0}
  BY QueueAssumption DEF LoginFails, Inv, TypeOK, QueueAssumption
<1>2. CASE /\ hold \/ (~LastRound /\ failures' = failures + 1 /\ hold' = TRUE)
           /\ hold => UNCHANGED logins
           /\ UNCHANGED <<status, cleanups, split>> /\ SetQueue(Pumped(q))
  <2>1. failures' \in 0..MaxLoginFailures - 1 /\ hold' \in BOOLEAN
    <3>1. CASE UNCHANGED logins
      BY <1>1, <3>1 DEF logins
    <3>2. CASE ~LastRound /\ failures' = failures + 1 /\ hold' = TRUE
      BY <1>1, <3>2 DEF LastRound
    <3> QED BY <1>2, <3>1, <3>2
  <2>2. NextTypes
    BY <1>1, <2>1 DEF NextTypes
  <2>3. UNCHANGED <<status, retries, plain, onMain, splits, files, removals, user>>
    BY <1>1, <1>2 DEF splits, removals
  <2> QED BY <1>2, <2>1, <2>2, <2>3, GivenBackStep
<1>3. CASE ~hold /\ LastRound /\ failures' = 0 /\ UNCHANGED hold /\ FailPending(q)
  <2>1. failures' \in 0..MaxLoginFailures - 1 /\ NextTypes
    BY <1>1, <1>3 DEF NextTypes
  <2> QED BY <1>1, <1>3, <2>1, FailPendingStep
<1> QED BY <1>2, <1>3 DEF LoginFails

LEMMA QueueMayShuffle ==
  ASSUME Inv
  PROVE  QueueOK(Q) /\ \A u \in Items : ShufflesTo(u, PhaseIn(Q, u)) /\ PhaseIn(Q, u) = Phase(u)
BY DEF Inv, ShufflesTo, Phase

LEMMA TimerSteps ==
  ASSUME Inv, LoginHoldEnds \/ ProbeWake
  PROVE  Inv'
<1>1. /\ NextTypes /\ failures' \in 0..MaxLoginFailures - 1 /\ SetQueue(Pumped(Q))
      /\ UNCHANGED <<status, retries, plain, onMain, splits, files, removals, user>>
  <2>1. /\ failures \in 0..MaxLoginFailures - 1 /\ failures \in Nat
        /\ hold \in BOOLEAN /\ slots \in 1..MaxSlots
    BY QueueAssumption DEF Inv, TypeOK, QueueAssumption
  <2>2. CASE LoginHoldEnds
    BY <2>1, <2>2 DEF LoginHoldEnds, NextTypes
  <2>3. CASE ProbeWake
    BY <2>1, <2>3 DEF ProbeWake, NextTypes, logins
  <2> QED BY <2>2, <2>3
<1> QED BY <1>1, QueueMayShuffle, GivenBackStep

LEMMA BackoffEndsStep ==
  ASSUME Inv, NEW u \in Items, BackoffEnds(u)
  PROVE  Inv'
<1> DEFINE s == Put(Q, u, "none")
           q == IF Runnable(u) THEN Push(s, <<u>>) ELSE s
<1>1. /\ at[u] = "backoff" /\ SetQueue(Pumped(q))
      /\ NextTypes /\ failures' \in 0..MaxLoginFailures - 1
      /\ UNCHANGED <<status, retries, plain, onMain, splits, files, removals, user>>
  BY QueueAssumption DEF BackoffEnds, Inv, TypeOK, NextTypes, logins, QueueAssumption
<1>2. /\ QueueOK(Q) /\ Phase(u) = "backoff" /\ PhaseIn(Q, u) = "backoff"
      /\ \A v \in Items : PhaseIn(Q, v) = Phase(v)
  BY <1>1, PhaseOfRun DEF Inv
<1>3. QueueOK(s) /\ \A v \in Items : PhaseIn(s, v) = IF v = u THEN "none" ELSE PhaseIn(Q, v)
  <2>1. QueueOK(Q) /\ PhaseIn(Q, u) # "waiting" /\ "none" \in Places
    BY <1>2 DEF Places
  <2> QED BY <2>1, PutFacts
<1> HIDE DEF s
<1>4. QueueOK(q) /\ \A v \in Items : ShufflesTo(v, PhaseIn(q, v))
  <2>1. CASE Runnable(u)
    <3>1. /\ QueueOK(Push(s, <<u>>))
          /\ \A v \in Items : PhaseIn(Push(s, <<u>>), v) = IF v = u THEN "waiting" ELSE PhaseIn(s, v)
      BY <1>3, PushOneFacts
    <3> QED BY <1>2, <1>3, <2>1, <3>1 DEF ShufflesTo
  <2>2. CASE ~Runnable(u)
    BY <1>2, <1>3, <2>2 DEF ShufflesTo
  <2> QED BY <2>1, <2>2
<1> HIDE DEF q
<1> QED BY <1>1, <1>4, GivenBackStep

LEMMA SlotsChangeStep ==
  ASSUME Inv, SlotsChange
  PROVE  Inv'
<1>1. /\ slots' \in 1..MaxSlots
      /\ UNCHANGED <<status, queue, retries, plain, onMain, logins, splits, files, removals, user>>
  BY DEF SlotsChange
<1>2. NextTypes /\ failures' \in 0..MaxLoginFailures - 1 /\ SetQueue(Q) /\ NotStalled(Q)
  BY <1>1, StillMoving, QueueAssumption
     DEF Inv, TypeOK, NextTypes, logins, queue, SetQueue, Q, QueueAssumption
<1> QED BY <1>1, <1>2, QueueMayShuffle, ShuffleStep

LEMMA AcquireAnswersStep ==
  ASSUME Inv, NEW u \in Items, AcquireFails(u) \/ AcquireLimited(u)
  PROVE  Inv'
BY ReturnedFacts, LoginFailsStep, LimitedStep DEF AcquireFails, AcquireLimited

LEMMA StrayAnsweredStep ==
  ASSUME Inv, StrayAnswered
  PROVE  Inv'
<1>1. strays > 0 /\ QueueOK(StrayLeft) /\ \A v \in Items : ShufflesTo(v, PhaseIn(StrayLeft, v))
  BY StrayLeftFacts DEF StrayAnswered
<1>2. CASE LoginFails(StrayLeft) \/ Limited(StrayLeft)
  BY <1>1, <1>2, LoginFailsStep, LimitedStep
<1>3. CASE \E fresh \in BOOLEAN : LoginWorks(fresh) /\ GrantStray
  <2> DEFINE p == Pumped(Q)
             s == [p EXCEPT !.strays = p.strays - 1]
  <2>1. /\ SetQueue(Pumped(s)) /\ NextTypes /\ failures' \in 0..MaxLoginFailures - 1
        /\ UNCHANGED <<status, retries, plain, onMain, splits, files, removals, user>>
    BY <1>3, QueueAssumption
       DEF GrantStray, LoginWorks, Inv, TypeOK, NextTypes, QueueAssumption
  <2>2. /\ QueueOK(p) /\ p.strays = strays
        /\ \A u \in Items : Pumps(PhaseIn(Q, u), PhaseIn(p, u))
    BY <2>1, QueueMayShuffle, PumpedFacts DEF Q
  <2> HIDE DEF p
  <2>3. s = [work |-> p.work, at |-> p.at, strays |-> strays - 1] /\ strays \in Nat
    <3>1. p = [work |-> p.work, at |-> p.at, strays |-> strays]
      BY <2>2 DEF QueueOK, QueueType
    <3>2. strays \in Nat
      BY DEF Inv, TypeOK
    <3>3. s = [p EXCEPT !.strays = strays - 1]
      BY <2>2
    <3> HIDE DEF s
    <3> QED BY <3>1, <3>2, <3>3
  <2> HIDE DEF s
  <2>4. QueueOK(s)
    BY <1>1, <2>2, <2>3 DEF QueueOK, QueueType, InSeq
  <2>5. \A u \in Items : PhaseIn(s, u) = PhaseIn(p, u)
    BY <2>3 DEF PhaseIn, InSeq
  <2>6. \A u \in Items : ShufflesTo(u, PhaseIn(s, u))
    BY <2>2, <2>5, QueueMayShuffle, PumpedShuffle
  <2> QED BY <2>1, <2>4, <2>6, GivenBackStep
<1> QED BY <1>2, <1>3 DEF StrayAnswered

-----------------------------------------------------------------------------
(* acquire() answers with a client.                                        *)

LEMMA GrantedFacts ==
  ASSUME Inv, NEW u \in Items, at[u] = "asking", NextTypes, NEW p \in Places
  PROVE  /\ QueueOK(Put(Pumped(Q), u, p))
         /\ \A v \in Items : v # u => Pumps(Phase(v), PhaseIn(Put(Pumped(Q), u, p), v))
         /\ PhaseIn(Put(Pumped(Q), u, p), u) = p
         /\ p \in RunPlaces => NotStalled(Put(Pumped(Q), u, p))
         /\ QueueOK(Finished(Pumped(Q), u)) /\ NotStalled(Finished(Pumped(Q), u))
         /\ \A v \in Items : v # u => Pumps(Phase(v), PhaseIn(Finished(Pumped(Q), u), v))
         /\ PhaseIn(Finished(Pumped(Q), u), u) = "none"
<1> DEFINE r == Pumped(Q)
<1>1. /\ QueueOK(Q) /\ Phase(u) = "asking"
      /\ \A v \in Items : PhaseIn(Q, v) = Phase(v)
  BY QueueMayShuffle, PhaseOfRun
<1>2. /\ QueueOK(r) /\ \A v \in Items : Pumps(PhaseIn(Q, v), PhaseIn(r, v))
  BY <1>1, PumpedFacts
<1> HIDE DEF r
<1>3. PhaseIn(r, u) = "asking" /\ \A v \in Items : Pumps(Phase(v), PhaseIn(r, v))
  BY <1>1, <1>2 DEF Pumps
<1>4. PhaseIn(r, u) # "waiting"
  BY <1>3
<1>5. /\ QueueOK(Put(r, u, p)) /\ Put(r, u, p).at = [r.at EXCEPT ![u] = p]
      /\ \A v \in Items : PhaseIn(Put(r, u, p), v) = IF v = u THEN p ELSE PhaseIn(r, v)
  BY <1>2, <1>4, PutFacts
<1>6. p \in RunPlaces => NotStalled(Put(r, u, p))
  <2>1. Put(r, u, p).at[u] = p
    BY <1>2, <1>5 DEF QueueOK, QueueType
  <2> QED BY <2>1 DEF NotStalled, Busy
<1>7. /\ QueueOK(Finished(r, u)) /\ NotStalled(Finished(r, u))
      /\ \A v \in Items : Pumps(IF v = u THEN "none" ELSE PhaseIn(r, v), PhaseIn(Finished(r, u), v))
  BY <1>2, <1>4, FinishedFacts
<1>8. /\ \A v \in Items : v # u => Pumps(Phase(v), PhaseIn(Finished(r, u), v))
      /\ PhaseIn(Finished(r, u), u) = "none"
  BY <1>3, <1>7 DEF Pumps
<1>9. /\ \A v \in Items : v # u => Pumps(Phase(v), PhaseIn(Put(r, u, p), v))
      /\ PhaseIn(Put(r, u, p), u) = p
  BY <1>3, <1>5
<1> QED BY <1>5, <1>6, <1>7, <1>8, <1>9 DEF r

LEMMA LoginWorksTypes ==
  ASSUME Inv, NEW fresh \in BOOLEAN, LoginWorks(fresh)
  PROVE  NextTypes /\ failures' \in 0..MaxLoginFailures - 1 /\ slots' \in 1..MaxSlots
<1>1. /\ failures \in 0..MaxLoginFailures - 1 /\ hold \in BOOLEAN /\ slots \in 1..MaxSlots
      /\ MaxLoginFailures \in Nat \ {0}
  BY QueueAssumption DEF Inv, TypeOK, QueueAssumption
<1> QED BY <1>1 DEF LoginWorks, NextTypes

(* A whole item whose owner has no ranges then changes hands.              *)
LEMMA WholeStep ==
  ASSUME Inv, NEW o \in Owners, Phase(Whole(o)) # "none",
         NEW q, QueueOK(q), SetQueue(q), NotStalled(q),
         \A v \in Items : v # Whole(o) => Pumps(Phase(v), PhaseIn(q, v)),
         NextTypes, failures' \in 0..MaxLoginFailures - 1,
         status' = [status EXCEPT ![o] = status'[o]],
         status'[o] \in Final \cup {"pending", "active"},
         onMain' \subseteq Jobs,
         UNCHANGED <<retries, plain, splits, files, removals, user>>,
         WholeInv(o)', o \in Jobs => RemovalsInv(o)', o \in Downloads => FilesInv(o)'
  PROVE  Inv'
<1>1. /\ TypeOK /\ OwnerInv(o) /\ Whole(o)[1] = o /\ Downloads \subseteq Jobs
      /\ \A v \in RangesOf({o}) : v \in Items /\ v # Whole(o)
  BY ItemFacts DEF Inv
<1>2. \A i \in Owners \ {o} : Alike(i)
  <2>1. \A i \in Owners \ {o} : status'[i] = status[i]
    BY <1>1 DEF TypeOK
  <2> QED BY <2>1 DEF Alike, splits, files, removals, user
<1>3. \A v \in Items : v[1] # o => Pumps(Phase(v), PhaseIn(q, v))
  BY <1>1
<1>4. /\ QueueOK(Q)' /\ NoStall'
      /\ work' \in Seq(Items) /\ at' \in [Items -> Places] /\ strays' \in Nat
      /\ \A v \in Items : Phase(v)' = PhaseIn(q, v)
      /\ \A i \in Owners \ {o} : OwnerInv(i)'
  BY <1>2, <1>3, OwnerStep
<1>5. TypeOK'
  <2>1. status' \in [Owners -> Final \cup {"new", "pending", "active"}]
    BY <1>1 DEF TypeOK
  <2> QED BY <1>1, <1>4, <2>1 DEF TypeOK, NextTypes, splits, files, removals, user
<1>6. OwnerInv(o)'
  <2> SUFFICES ASSUME o \in Jobs PROVE SplitInv(o)' /\ RangesInv(o)' /\ CountInv(o)'
    BY <1>1 DEF OwnerInv
  <2>1. split[o] = "none" /\ o \notin sole
    BY <1>1 DEF OwnerInv, SplitInv
  <2>2. \A v \in RangesOf({o}) : Phase(v)' = "none"
    <3>1. \A v \in RangesOf({o}) : Phase(v) = "none"
      BY <1>1, <2>1 DEF OwnerInv, RangesInv
    <3> QED BY <1>1, <1>4, <3>1 DEF Pumps
  <2> QED BY <2>1, <2>2 DEF SplitInv, RangesInv, CountInv, splits
<1> QED BY <1>4, <1>5, <1>6 DEF Inv

LEMMA GrantBorrowStep ==
  ASSUME Inv, NEW b \in Borrows, NEW main \in BOOLEAN, NEW fresh \in BOOLEAN,
         LoginWorks(fresh), GrantBorrow(b, main)
  PROVE  Inv'
<1> DEFINE u == Whole(b)
<1>1. /\ at[u] = "asking" /\ UNCHANGED <<retries, plain, onMain, splits, files, removals, user>>
      /\ NextTypes /\ failures' \in 0..MaxLoginFailures - 1
  BY LoginWorksTypes DEF GrantBorrow
<1>2. /\ b \in Owners /\ b \notin Jobs /\ b \notin Downloads /\ u \in Items
      /\ TypeOK /\ QueueOK(Q) /\ OwnerInv(b)
  BY ItemFacts, QueueAssumption DEF Inv, Owners, QueueAssumption
<1>3. Phase(u) = "asking" /\ status[b] \in {"pending", "cancelled"}
  <2>1. Phase(u) = "asking"
    <3> HIDE DEF u
    <3> QED BY <1>1, <1>2, PhaseOfRun
  <2> QED BY <1>2, <2>1 DEF OwnerInv, WholeInv
<1>4. onMain' \subseteq Jobs /\ "lent" \in Places /\ "lent" \in RunPlaces
  BY <1>1, <1>2 DEF TypeOK, Places, RunPlaces
<1>5. \E q : /\ QueueOK(q) /\ NotStalled(q) /\ SetQueue(q)
             /\ \A v \in Items : v # u => Pumps(Phase(v), PhaseIn(q, v))
             /\ \/ /\ PhaseIn(q, u) = "lent" /\ status' = [status EXCEPT ![b] = "active"]
                \/ /\ PhaseIn(q, u) = "none"
                   /\ status' = [status EXCEPT ![b] = IF @ = "pending" THEN "completed" ELSE @]
  <2> HIDE DEF u
  <2>1. CASE status[b] = "pending" /\ ~main
    <3> DEFINE q == Put(Pumped(Q), u, "lent")
    <3>1. /\ QueueOK(q) /\ NotStalled(q) /\ PhaseIn(q, u) = "lent"
          /\ \A v \in Items : v # u => Pumps(Phase(v), PhaseIn(q, v))
      BY <1>1, <1>2, <1>4, GrantedFacts
    <3>2. SetQueue(q) /\ status' = [status EXCEPT ![b] = "active"]
      BY <2>1 DEF GrantBorrow, u
    <3> HIDE DEF q
    <3> QED BY <3>1, <3>2
  <2>2. CASE ~(status[b] = "pending" /\ ~main)
    <3> DEFINE q == Finished(Pumped(Q), u)
    <3>1. /\ QueueOK(q) /\ NotStalled(q) /\ PhaseIn(q, u) = "none"
          /\ \A v \in Items : v # u => Pumps(Phase(v), PhaseIn(q, v))
      BY <1>1, <1>2, <1>4, GrantedFacts
    <3>2. /\ SetQueue(q)
          /\ status' = [status EXCEPT ![b] = IF @ = "pending" THEN "completed" ELSE @]
      BY <2>2 DEF GrantBorrow, NotLent, u
    <3> HIDE DEF q
    <3> QED BY <3>1, <3>2
  <2> QED BY <2>1, <2>2
<1>6. PICK q : /\ QueueOK(q) /\ NotStalled(q) /\ SetQueue(q)
               /\ \A v \in Items : v # u => Pumps(Phase(v), PhaseIn(q, v))
               /\ \/ /\ PhaseIn(q, u) = "lent" /\ status' = [status EXCEPT ![b] = "active"]
                  \/ /\ PhaseIn(q, u) = "none"
                     /\ status' = [status EXCEPT ![b] = IF @ = "pending" THEN "completed" ELSE @]
  BY <1>5
<1>7. /\ status' = [status EXCEPT ![b] = status'[b]]
      /\ \/ PhaseIn(q, u) = "lent" /\ status'[b] = "active"
         \/ PhaseIn(q, u) = "none" /\ status'[b] \in {"completed", "cancelled"}
  BY <1>2, <1>3, <1>6 DEF TypeOK
<1>8. Phase(u)' = PhaseIn(q, u)
  <2> HIDE DEF u
  <2> QED BY <1>2, <1>6, SetQueueFacts
<1>9. WholeInv(b)'
  BY <1>7, <1>8 DEF WholeInv, WholeRuns
<1> QED BY <1>1, <1>2, <1>3, <1>4, <1>6, <1>7, <1>9, WholeStep DEF Final

LEMMA GrantJobStep ==
  ASSUME Inv, NEW j \in Jobs, NEW main \in BOOLEAN, NEW fresh \in BOOLEAN,
         LoginWorks(fresh), GrantJob(j, main)
  PROVE  Inv'
<1> DEFINE u == Whole(j)
<1>1. /\ at[u] = "asking" /\ UNCHANGED <<retries, plain, splits, files, removals, user>>
      /\ NextTypes /\ failures' \in 0..MaxLoginFailures - 1
  BY LoginWorksTypes DEF GrantJob
<1>2. j \in Owners /\ u \in Items /\ TypeOK /\ QueueOK(Q) /\ OwnerInv(j)
  BY ItemFacts DEF Inv
<1>3. Phase(u) = "asking" /\ status[j] \in {"pending", "cancelled"}
  <2>1. Phase(u) = "asking"
    <3> HIDE DEF u
    <3> QED BY <1>1, <1>2, PhaseOfRun
  <2> QED BY <1>2, <2>1 DEF OwnerInv, WholeInv
<1>4. /\ onMain' \subseteq Jobs
      /\ \A p \in FirstPlaces(j, main) :
           /\ p \in Places /\ p \in RunPlaces /\ p \in {"moving", "toOpen", "sizing"}
           /\ p = "moving" => j \notin Downloads
           /\ p = "toOpen" => j \in Downloads
           /\ p = "sizing" => j \in Large \ plain
      /\ "none" \in Places
  BY <1>2 DEF GrantJob, TypeOK, FirstPlaces, Places, RunPlaces
<1>5. \E q : /\ QueueOK(q) /\ NotStalled(q) /\ SetQueue(q)
             /\ \A v \in Items : v # u => Pumps(Phase(v), PhaseIn(q, v))
             /\ \/ /\ PhaseIn(q, u) \in FirstPlaces(j, main)
                   /\ status[j] = "pending" /\ status' = [status EXCEPT ![j] = "active"]
                \/ PhaseIn(q, u) = "none" /\ status[j] = "cancelled" /\ status' = status
  <2> HIDE DEF u
  <2>1. CASE status[j] = "pending"
    <3>1. PICK p \in FirstPlaces(j, main) : SetQueue(Put(Pumped(Q), u, p))
      BY <2>1 DEF GrantJob, u
    <3> DEFINE q == Put(Pumped(Q), u, p)
    <3>2. /\ QueueOK(q) /\ NotStalled(q) /\ PhaseIn(q, u) = p
          /\ \A v \in Items : v # u => Pumps(Phase(v), PhaseIn(q, v))
      BY <1>1, <1>2, <1>4, GrantedFacts
    <3>3. SetQueue(q) /\ status' = [status EXCEPT ![j] = "active"]
      BY <2>1, <3>1 DEF GrantJob
    <3> HIDE DEF q
    <3> QED BY <2>1, <3>1, <3>2, <3>3
  <2>2. CASE status[j] # "pending"
    <3> DEFINE q == Finished(Pumped(Q), u)
    <3>1. /\ QueueOK(q) /\ NotStalled(q) /\ PhaseIn(q, u) = "none"
          /\ \A v \in Items : v # u => Pumps(Phase(v), PhaseIn(q, v))
      BY <1>1, <1>2, <1>4, GrantedFacts
    <3>2. SetQueue(q) /\ status' = status /\ status[j] = "cancelled"
      BY <1>3, <2>2 DEF GrantJob, u
    <3> HIDE DEF q
    <3> QED BY <3>1, <3>2
  <2> QED BY <2>1, <2>2
<1>6. PICK q : /\ QueueOK(q) /\ NotStalled(q) /\ SetQueue(q)
               /\ \A v \in Items : v # u => Pumps(Phase(v), PhaseIn(q, v))
               /\ \/ /\ PhaseIn(q, u) \in FirstPlaces(j, main)
                     /\ status[j] = "pending" /\ status' = [status EXCEPT ![j] = "active"]
                  \/ PhaseIn(q, u) = "none" /\ status[j] = "cancelled" /\ status' = status
  BY <1>5
<1>7. /\ status' = [status EXCEPT ![j] = status'[j]]
      /\ \/ PhaseIn(q, u) \in FirstPlaces(j, main) /\ status[j] = "pending" /\ status'[j] = "active"
         \/ PhaseIn(q, u) = "none" /\ status'[j] = "cancelled"
  BY <1>2, <1>6 DEF TypeOK
<1>8. Phase(u)' = PhaseIn(q, u)
  <2> HIDE DEF u
  <2> QED BY <1>2, <1>6, SetQueueFacts
<1>9. /\ j \notin cleanups \cup unlinks \cup reviving \cup reviveLater /\ split[j] = "none"
  BY <1>2, <1>3 DEF OwnerInv, RemovalsInv, SplitInv
<1>10. WholeInv(j)'
  BY <1>1, <1>4, <1>7, <1>8 DEF WholeInv, WholeRuns
<1>11. RemovalsInv(j)'
  BY <1>1, <1>9 DEF RemovalsInv, removals, user
<1>12. j \in Downloads => FilesInv(j)'
  <2> SUFFICES ASSUME j \in Downloads PROVE FilesInv(j)'
    OBVIOUS
  <2>1. FilesInv(j) /\ UNCHANGED <<file, opened, created, split, cleanups>>
    BY <1>1, <1>2 DEF OwnerInv, files, splits, removals
  <2>2. Phase(u)' # "moving" /\ status'[j] \in {"active", "cancelled"}
      /\ (status'[j] = "active" => status[j] = "pending")
    BY <1>4, <1>7, <1>8
  <2> QED BY <1>3, <1>9, <2>1, <2>2 DEF FilesInv
<1> QED BY <1>1, <1>2, <1>3, <1>4, <1>6, <1>7, <1>10, <1>11, <1>12, WholeStep DEF Final

(* A range that got the main client: the split stops and the file will be   *)
(* received as one stream.                                                  *)
LEMMA GrantRangeStep ==
  ASSUME Inv, NEW u \in Items, NEW main \in BOOLEAN, NEW fresh \in BOOLEAN,
         LoginWorks(fresh), GrantRange(u, main)
  PROVE  Inv'
<1> DEFINE j == u[1]
           p == IF main THEN "none" ELSE "receiving"
           s == Put(Pumped(Q), u, p)
<1>1. /\ at[u] = "asking" /\ u[2] > 0
      /\ UNCHANGED <<status, retries, plain, onMain, remaining, sole, files, removals, user>>
      /\ NextTypes /\ failures' \in 0..MaxLoginFailures - 1
  BY LoginWorksTypes DEF GrantRange
<1>2. /\ j \in Large /\ j \in Jobs /\ j \in Owners /\ TypeOK /\ OwnerInv(j)
      /\ u \in RangesOf({j}) /\ Whole(j) \in Items /\ Whole(j)[2] = 0 /\ Whole(j)[1] = j
      /\ \A v \in RangesOf({j}) : v \in Items /\ v[1] = j /\ v[2] > 0
      /\ \A v \in Items : v[1] # j => v # u
  BY <1>1, ItemFacts DEF Inv
<1>3. Phase(u) = "asking" /\ "none" \in Places /\ "receiving" \in Places /\ "receiving" \in RunPlaces
  BY <1>1, PhaseOfRun DEF Inv, Places, RunPlaces
<1> HIDE DEF j
<1>4. /\ split[j] = "open" /\ status[j] = "active" /\ remaining[j] > 0
      /\ j \notin plain /\ Phase(Whole(j)) = "none" /\ j \notin cleanups \cup unlinks
  BY <1>2, <1>3 DEF OwnerInv, RangesInv, SplitInv
<1>5. p \in Places /\ (~main => p \in RunPlaces)
  BY <1>3
<1> HIDE DEF p
<1>6. /\ QueueOK(s) /\ PhaseIn(s, u) = p /\ (~main => NotStalled(s))
      /\ \A v \in Items : v # u => Pumps(Phase(v), PhaseIn(s, v))
  BY <1>1, <1>5, GrantedFacts
<1> HIDE DEF s
<1>7. \A v \in RangesOf({j}) :
        /\ v # u => \/ PhaseIn(s, v) = Phase(v)
                    \/ Phase(v) = "waiting" /\ PhaseIn(s, v) = "asking"
        /\ Phase(v) \in {"none", "waiting", "asking", "backoff", "receiving"}
  <2> TAKE v \in RangesOf({j})
  <2>1. v \in Items /\ (v # u => Pumps(Phase(v), PhaseIn(s, v)))
    BY <1>2, <1>6
  <2>2. Phase(v) \in {"none", "waiting", "asking", "backoff", "receiving"}
    BY <1>2, <1>4 DEF OwnerInv, RangesInv
  <2> QED BY <2>1, <2>2 DEF Pumps
<1>8. PhaseIn(s, Whole(j)) = "none"
  BY <1>1, <1>2, <1>4, <1>6 DEF Pumps
<1>9. CASE ~main
  <2>1. SetQueue(s) /\ UNCHANGED <<split, restart>> /\ p = "receiving"
    BY <1>9 DEF GrantRange, s, p
  <2>2. QueueOK(Q)' /\ \A v \in Items : Phase(v)' = PhaseIn(s, v)
    BY <1>6, <2>1, SetQueueFacts
  <2>3. SplitTyped(j)
    BY <1>1, <1>2, <1>4, <2>1 DEF SplitTyped, TypeOK
  <2>4. SplitInv(j)'
    <3>1. j \in sole => remaining[j] = 1 /\ \A v \in RangesOf({j}) : v[2] > 1 => Phase(v) = "none"
      BY <1>2, <1>4 DEF OwnerInv, SplitInv
    <3>2. j \in sole => \A v \in RangesOf({j}) : v[2] > 1 => Phase(v)' = "none"
      BY <1>2, <1>3, <1>7, <2>2, <3>1
    <3> QED BY <1>1, <1>2, <1>4, <1>8, <2>1, <2>2, <3>1, <3>2 DEF SplitInv, removals
  <2>5. RangesInv(j)'
    BY <1>2, <1>4, <1>6, <1>7, <2>1, <2>2 DEF RangesInv
  <2>6. CountInv(j)'
    <3>1. \A v \in RangesOf({j}) : Phase(v) \in LivePhases <=> Phase(v)' \in LivePhases
      BY <1>2, <1>3, <1>6, <1>7, <2>1, <2>2 DEF LivePhases
    <3>2. LiveRanges(j)' = LiveRanges(j)
      BY <2>2, <3>1, SameCount DEF Inv
    <3> QED BY <1>1, <1>2, <1>4, <3>2 DEF OwnerInv, CountInv
  <2>7. \A v \in Items : v[1] # j => Pumps(Phase(v), PhaseIn(s, v))
    BY <1>2, <1>6
  <2> QED BY <1>1, <1>2, <1>4, <1>6, <1>8, <1>9, <2>1, <2>3, <2>4, <2>5, <2>6, <2>7, SplitMovesStep
<1>10. CASE main
  <2> DEFINE t == Stopped(s, {j})
             q == Pumped(t)
  <2>1. /\ split' = StoppedSplit(s, {j}) /\ restart' = restart \cup {j}
        /\ SetQueue(q) /\ p = "none"
    BY <1>10 DEF GrantRange, s, p, j
  <2>2. /\ QueueOK(t)
        /\ \A v \in Items : PhaseIn(t, v) =
             IF v \in RangesOf({j}) /\ PhaseIn(s, v) \in Droppable THEN "none" ELSE PhaseIn(s, v)
    BY <1>6, StoppedFacts
  <2> HIDE DEF t
  <2>3. /\ QueueOK(q) /\ NotStalled(q)
        /\ \A v \in Items : Pumps(PhaseIn(t, v), PhaseIn(q, v))
    BY <1>1, <2>2, PumpedFacts
  <2> HIDE DEF q
  <2>4. \A v \in Items : v \notin RangesOf({j}) => Pumps(Phase(v), PhaseIn(q, v))
    <3> TAKE v \in Items
    <3>1. CASE v \notin RangesOf({j})
      <4>1. v # u /\ PhaseIn(t, v) = PhaseIn(s, v)
        BY <1>2, <2>2, <3>1
      <4>2. Pumps(Phase(v), PhaseIn(s, v)) /\ Pumps(PhaseIn(t, v), PhaseIn(q, v))
        BY <1>6, <2>3, <4>1
      <4> QED BY <4>1, <4>2 DEF Pumps
    <3> QED BY <3>1
  <2>5. \A v \in RangesOf({j}) :
          PhaseIn(q, v) = IF PhaseIn(s, v) = "receiving" THEN "receiving" ELSE "none"
    <3> TAKE v \in RangesOf({j})
    <3>1. v \in Items /\ PhaseIn(s, v) \in {"none", "waiting", "asking", "backoff", "receiving"}
      BY <1>2, <1>6, <1>7, <2>1
    <3> QED BY <2>2, <2>3, <3>1 DEF Droppable, Pumps
  <2>6. QueueOK(Q)' /\ \A v \in Items : Phase(v)' = PhaseIn(q, v)
    BY <2>1, <2>3, SetQueueFacts
  <2>7. /\ split' = [split EXCEPT ![j] = split'[j]]
        /\ split'[j] = IF \E v \in RangesOf({j}) : PhaseIn(s, v) = "receiving"
                       THEN "stopped" ELSE "closing"
    BY <1>2, <1>6, <2>1, StoppedSplitFacts
  <2>8. SplitTyped(j)
    BY <1>1, <1>2, <1>4, <2>1, <2>7 DEF SplitTyped, TypeOK
  <2>9. SplitInv(j)'
    <3>1. Phase(Whole(j))' = "none"
      BY <1>2, <1>4, <2>4, <2>6, ItemFacts DEF Pumps
    <3>2. split'[j] = "stopped" => \E v \in RangesOf({j}) : Phase(v)' = "receiving"
      BY <1>2, <2>5, <2>6, <2>7
    <3> QED BY <1>1, <1>2, <1>4, <2>7, <3>1, <3>2 DEF SplitInv, removals
  <2>10. RangesInv(j)'
    BY <1>2, <2>5, <2>6, <2>7 DEF RangesInv
  <2>11. CountInv(j)'
    BY <2>7 DEF CountInv
  <2>12. /\ \A v \in Items : v[1] # j => Pumps(Phase(v), PhaseIn(q, v))
         /\ PhaseIn(q, Whole(j)) = "none"
    BY <1>2, <1>4, <2>4, ItemFacts DEF Pumps
  <2> QED BY <1>1, <1>2, <1>4, <2>1, <2>3, <2>8, <2>9, <2>10, <2>11, <2>12, SplitMovesStep
<1> QED BY <1>9, <1>10

LEMMA AcquireGrantsStep ==
  ASSUME Inv, NEW u \in Items, AcquireGrants(u)
  PROVE  Inv'
<1>1. PICK fresh \in BOOLEAN, main \in BOOLEAN :
        /\ LoginWorks(fresh)
        /\ \/ u[1] \in Borrows /\ GrantBorrow(u[1], main)
           \/ GrantRange(u, main)
           \/ u[1] \in Jobs /\ u[2] = 0 /\ GrantJob(u[1], main)
  BY DEF AcquireGrants
<1> QED BY <1>1, GrantBorrowStep, GrantRangeStep, GrantJobStep

-----------------------------------------------------------------------------
(* Calls from the user and the relay lane.                                 *)

(* Owners with nothing in the queue are queued together.                   *)
LEMMA QueuedFacts ==
  ASSUME Inv, NextTypes, NEW s \in Seq(Owners),
         \A i, k \in 1..Len(s) : s[i] = s[k] => i = k,
         \A o \in InSeq(s) : Phase(Whole(o)) = "none",
         SetQueue(Pumped(Push(Q, Items0(s))))
  PROVE  /\ QueueOK(Q)' /\ NoStall'
         /\ work' \in Seq(Items) /\ at' \in [Items -> Places] /\ strays' \in Nat
         /\ \A o \in InSeq(s) : Phase(Whole(o))' \in {"waiting", "asking"}
         /\ \A v \in Items : v[2] > 0 \/ v[1] \notin InSeq(s) => Pumps(Phase(v), Phase(v)')
<1> DEFINE us == Items0(s)
           r == Push(Q, us)
           q == Pumped(r)
<1>1. /\ Len(s) \in Nat /\ InSeq(s) \subseteq Owners
      /\ \A i \in 1..Len(s) : s[i] \in Owners
  BY ElementOfSeq, LenProperties DEF InSeq
<1>2. /\ us = [i \in 1..Len(s) |-> Whole(s[i])]
      /\ \A i \in 1..Len(s) : us[i] = Whole(s[i]) /\ us[i] \in Items /\ us[i][1] = s[i]
  BY <1>1, ItemFacts DEF Items0
<1>3. us \in Seq(Items) /\ Len(us) = Len(s)
  BY <1>1, <1>2, SeqDef
<1> HIDE DEF us
<1>4. \A i, k \in 1..Len(us) : us[i] = us[k] => i = k
  <2> SUFFICES ASSUME NEW i \in 1..Len(s), NEW k \in 1..Len(s), us[i] = us[k]
               PROVE  i = k
    BY <1>3
  <2> QED BY <1>2
<1>5. /\ \A o \in InSeq(s) : Whole(o) \in InSeq(us)
      /\ \A u \in InSeq(us) : u \in Items /\ u[1] \in InSeq(s) /\ u = Whole(u[1])
  BY <1>1, <1>2, <1>3 DEF InSeq
<1>6. \A u \in InSeq(us) : PhaseIn(Q, u) = "none"
  BY <1>5 DEF Phase
<1>7. QueueOK(Q) /\ \A v \in Items : PhaseIn(Q, v) = Phase(v)
  BY QueueMayShuffle
<1>8. /\ QueueOK(r)
      /\ \A u \in Items : PhaseIn(r, u) = IF u \in InSeq(us) THEN "waiting" ELSE PhaseIn(Q, u)
  BY <1>3, <1>4, <1>6, <1>7, PushFacts
<1> HIDE DEF r
<1>9. /\ QueueOK(q) /\ NotStalled(q)
      /\ \A u \in Items : Pumps(PhaseIn(r, u), PhaseIn(q, u))
  BY <1>8, PumpedFacts
<1>10. SetQueue(q)
  BY DEF r, us
<1> HIDE DEF q
<1>11. /\ QueueOK(Q)' /\ NoStall'
       /\ work' \in Seq(Items) /\ at' \in [Items -> Places] /\ strays' \in Nat
       /\ \A u \in Items : Phase(u)' = PhaseIn(q, u)
  BY <1>9, <1>10, SetQueueFacts
<1>12. \A o \in InSeq(s) : Phase(Whole(o))' \in {"waiting", "asking"}
  BY <1>5, <1>8, <1>9, <1>11 DEF Pumps
<1>13. \A v \in Items : v[2] > 0 \/ v[1] \notin InSeq(s) => Pumps(Phase(v), Phase(v)')
  <2> SUFFICES ASSUME NEW v \in Items, v[2] > 0 \/ v[1] \notin InSeq(s)
               PROVE  Pumps(Phase(v), Phase(v)')
    OBVIOUS
  <2>1. v \notin InSeq(us)
    BY <1>1, <1>5, ItemFacts
  <2> QED BY <1>7, <1>8, <1>9, <1>11, <2>1
<1> QED BY <1>11, <1>12, <1>13

(* An owner the step does not name, while others are queued.               *)
LEMMA BystanderKeeps ==
  ASSUME Inv, QueueOK(Q)', NEW o \in Owners, Alike(o),
         \A v \in Items : v[1] = o => Pumps(Phase(v), Phase(v)')
  PROVE  OwnerInv(o)'
<1>1. /\ Whole(o) \in Items /\ Whole(o)[1] = o
      /\ \A v \in RangesOf({o}) : v \in Items /\ v[1] = o
  BY ItemFacts
<1>2. \A v \in Items : v[1] = o => ShufflesTo(v, Phase(v)')
  <2> SUFFICES ASSUME NEW v \in Items, v[1] = o PROVE ShufflesTo(v, Phase(v)')
    OBVIOUS
  <2>1. ShufflesTo(v, Phase(v))
    BY DEF ShufflesTo
  <2>2. Pumps(Phase(v), Phase(v)')
    OBVIOUS
  <2> QED BY <2>1, <2>2, PumpedShuffle
<1> QED BY <1>1, <1>2, UntouchedKeeps DEF Untouched

LEMMA EnqueueStep ==
  ASSUME Inv, NEW s \in Seq(Owners), \A i, k \in 1..Len(s) : s[i] = s[k] => i = k,
         \A o \in InSeq(s) : status[o] = "new",
         status' = [o \in Owners |-> IF o \in InSeq(s) THEN "pending" ELSE status[o]],
         SetQueue(Pumped(Push(Q, Items0(s)))),
         UNCHANGED <<logins, slots, retries, plain, onMain, splits, files, removals, user>>
  PROVE  Inv'
<1>1. TypeOK /\ NextTypes /\ failures' \in 0..MaxLoginFailures - 1 /\ InSeq(s) \subseteq Owners
  BY QueueAssumption, ElementOfSeq, LenProperties
     DEF Inv, TypeOK, NextTypes, logins, QueueAssumption, InSeq
<1>2. \A o \in InSeq(s) :
        /\ Phase(Whole(o)) = "none" /\ OwnerInv(o)
        /\ o \in Jobs => /\ split[o] = "none"
                         /\ o \notin cleanups \cup unlinks \cup reviving \cup reviveLater
  BY <1>1 DEF Inv, OwnerInv, WholeInv, SplitInv, RemovalsInv, WholeRuns, TypeOK
<1>3. /\ QueueOK(Q)' /\ NoStall'
      /\ work' \in Seq(Items) /\ at' \in [Items -> Places] /\ strays' \in Nat
      /\ \A o \in InSeq(s) : Phase(Whole(o))' \in {"waiting", "asking"}
      /\ \A v \in Items : v[2] > 0 \/ v[1] \notin InSeq(s) => Pumps(Phase(v), Phase(v)')
  BY <1>1, <1>2, QueuedFacts
<1>4. TypeOK'
  <2>1. status' \in [Owners -> Final \cup {"new", "pending", "active"}]
    BY <1>1 DEF TypeOK, Final
  <2> QED BY <1>1, <1>3, <2>1 DEF TypeOK, NextTypes, logins, splits, files, removals, user
<1>5. ASSUME NEW o \in Owners, o \notin InSeq(s) PROVE OwnerInv(o)'
  <2>1. Alike(o)
    BY <1>5 DEF Alike, splits, files, removals, user
  <2> QED BY <1>3, <1>5, <2>1, BystanderKeeps
<1>6. ASSUME NEW o \in Owners, o \in InSeq(s) PROVE OwnerInv(o)'
  <2>1. /\ status[o] = "new" /\ status'[o] = "pending" /\ OwnerInv(o)
        /\ Phase(Whole(o))' \in {"waiting", "asking"}
        /\ o \in Jobs => /\ split[o] = "none"
                         /\ o \notin cleanups \cup unlinks \cup reviving \cup reviveLater
    BY <1>2, <1>3, <1>6
  <2>2. WholeInv(o)'
    BY <2>1 DEF WholeInv, WholeRuns
  <2>3. ASSUME o \in Jobs
        PROVE  SplitInv(o)' /\ RangesInv(o)' /\ CountInv(o)' /\ RemovalsInv(o)'
    <3>1. \A v \in RangesOf({o}) : Phase(v)' = "none"
      <4>1. \A v \in RangesOf({o}) : v \in Items /\ v[2] > 0 /\ Phase(v) = "none"
        BY <2>1, <2>3, ItemFacts DEF OwnerInv, RangesInv
      <4> QED BY <1>3, <4>1 DEF Pumps
    <3>2. o \notin sole
      BY <2>1, <2>3 DEF OwnerInv, SplitInv
    <3> QED BY <2>1, <2>3, <3>1, <3>2
            DEF SplitInv, RangesInv, CountInv, RemovalsInv, splits, removals, user
  <2>4. ASSUME o \in Downloads PROVE FilesInv(o)'
    <3>1. o \in Jobs
      BY <2>4, ItemFacts
    <3> QED BY <2>1, <2>4, <3>1 DEF OwnerInv, FilesInv, splits, files, removals
  <2> QED BY <2>2, <2>3, <2>4 DEF OwnerInv
<1> QED BY <1>3, <1>4, <1>5, <1>6 DEF Inv

LEMMA EnqueueBatchStep ==
  ASSUME Inv, NEW b \in Batches, EnqueueBatch(b)
  PROVE  Inv'
<1>1. b \in Seq(Owners) /\ \A i, k \in 1..Len(b) : b[i] = b[k] => i = k
  <2>1. b \in Seq(Jobs) /\ \A i, k \in 1..Len(b) : b[i] = b[k] => i = k
    BY QueueAssumption DEF QueueAssumption
  <2>2. b \in Seq(Owners)
    BY <2>1, ItemFacts
  <2> QED BY <2>1, <2>2
<1> QED BY <1>1, EnqueueStep DEF EnqueueBatch

LEMMA BorrowStep ==
  ASSUME Inv, NEW b \in Borrows, Borrow(b)
  PROVE  Inv'
<1> DEFINE s == <<b>>
<1>1. b \in Owners /\ s \in Seq(Owners) /\ InSeq(s) = {b} /\ Len(s) = 1 /\ s[1] = b
  BY DEF Owners, InSeq
<1>2. Items0(s) = <<Whole(b)>>
  BY <1>1 DEF Items0
<1>3. status' = [o \in Owners |-> IF o \in InSeq(s) THEN "pending" ELSE status[o]]
  BY <1>1 DEF Borrow, Inv, TypeOK
<1>4. \A i, k \in 1..Len(s) : s[i] = s[k] => i = k
  BY <1>1
<1>5. \A o \in InSeq(s) : status[o] = "new"
  BY <1>1 DEF Borrow
<1>6. /\ SetQueue(Pumped(Push(Q, Items0(s))))
      /\ UNCHANGED <<logins, slots, retries, plain, onMain, splits, files, removals, user>>
  BY <1>2 DEF Borrow
<1> HIDE DEF s
<1> QED BY <1>1, <1>3, <1>4, <1>5, <1>6, EnqueueStep

(* cancel() of a job that is not split.                                    *)
LEMMA CancelWholeStep ==
  ASSUME Inv, NEW j \in Jobs, split[j] = "none", status[j] \in {"pending", "active"},
         status' = [status EXCEPT ![j] = "cancelled"], reviving' = reviving \ {j},
         NEW q, QueueOK(q), SetQueue(q), NotStalled(q),
         \A v \in Items : PhaseIn(q, v) = IF v = Whole(j) /\ Phase(v) = "waiting"
                                          THEN "none" ELSE Phase(v),
         UNCHANGED <<retries, plain, onMain, logins, slots, splits, files, removals,
                     reviveLater, cleared, revivals>>
  PROVE  Inv'
<1>1. /\ TypeOK /\ j \in Owners /\ OwnerInv(j) /\ Whole(j) \in Items /\ Whole(j)[1] = j
      /\ Whole(j)[2] = 0 /\ \A v \in RangesOf({j}) : v \in Items /\ v # Whole(j)
  BY ItemFacts DEF Inv
<1>2. \A o \in Owners \ {j} : Alike(o)
  BY <1>1 DEF TypeOK, Alike, splits, files, removals
<1>3. \A v \in Items : v[1] # j => Pumps(Phase(v), PhaseIn(q, v))
  BY <1>1 DEF Pumps
<1>4. /\ QueueOK(Q)' /\ NoStall'
      /\ work' \in Seq(Items) /\ at' \in [Items -> Places] /\ strays' \in Nat
      /\ \A v \in Items : Phase(v)' = PhaseIn(q, v)
      /\ \A o \in Owners \ {j} : OwnerInv(o)'
  BY <1>1, <1>2, <1>3, OwnerStep
<1>5. TypeOK'
  <2>1. status' \in [Owners -> Final \cup {"new", "pending", "active"}]
    BY <1>1 DEF TypeOK, Final
  <2>2. reviving' \in SUBSET Jobs
    BY <1>1 DEF TypeOK
  <2> QED BY <1>1, <1>4, <2>1, <2>2 DEF TypeOK, logins, splits, files, removals
<1>6. /\ status'[j] = "cancelled"
      /\ Phase(Whole(j))' = IF Phase(Whole(j)) = "waiting" THEN "none" ELSE Phase(Whole(j))
      /\ \A v \in RangesOf({j}) : Phase(v)' = "none" /\ Phase(v) = "none"
  BY <1>1, <1>4 DEF TypeOK, OwnerInv, RangesInv
<1>7. WholeInv(j)'
  <2>1. j \notin Borrows
    BY QueueAssumption DEF QueueAssumption
  <2> QED BY <1>1, <1>6, <2>1 DEF OwnerInv, WholeInv, WholeRuns
<1>8. SplitInv(j)' /\ RangesInv(j)' /\ CountInv(j)'
  BY <1>1, <1>6 DEF OwnerInv, SplitInv, RangesInv, CountInv, splits
<1>9. RemovalsInv(j)'
  BY <1>1, <1>6 DEF OwnerInv, RemovalsInv, removals
<1>10. j \in Downloads => FilesInv(j)'
  BY <1>1, <1>6 DEF OwnerInv, FilesInv, files, splits, removals
<1> QED BY <1>4, <1>5, <1>7, <1>8, <1>9, <1>10 DEF OwnerInv, Inv

LEMMA DroppedWhole ==
  ASSUME Inv, NEW u \in Items, work' = Only(work, Items \ {u}), UNCHANGED <<at, strays, logins, slots>>
  PROVE  \E q : /\ QueueOK(q) /\ SetQueue(q) /\ NotStalled(q)
                /\ \A v \in Items : PhaseIn(q, v) = IF v = u /\ Phase(v) = "waiting"
                                                    THEN "none" ELSE Phase(v)
<1> DEFINE q == [Q EXCEPT !.work = Only(Q.work, Items \ {u})]
<1>1. QueueOK(Q) /\ NotStalled(Q) /\ \A v \in Items : PhaseIn(Q, v) = Phase(v)
  BY StillMoving, QueueMayShuffle DEF logins
<1>2. /\ QueueOK(q) /\ q.work = Only(Q.work, Items \ {u}) /\ q.at = Q.at /\ q.strays = Q.strays
      /\ \A v \in Items : PhaseIn(q, v) =
           IF v = u /\ PhaseIn(Q, v) = "waiting" THEN "none" ELSE PhaseIn(Q, v)
      /\ NotStalled(Q) => NotStalled(q)
  BY <1>1, DroppedFacts
<1> HIDE DEF q
<1>3. SetQueue(q)
  BY <1>2 DEF SetQueue, Q
<1> QED BY <1>1, <1>2, <1>3

LEMMA CancelSplitStep ==
  ASSUME Inv, NEW j \in Jobs, split[j] # "none", Cancel(j)
  PROVE  Inv'
<1>1. OwnerInv(j) /\ TypeOK /\ j \in Owners
  BY ItemFacts DEF Inv
<1>2. /\ status[j] = "active" /\ status' = [status EXCEPT ![j] = "cancelled"]
      /\ IF split[j] = "open"
         THEN SetQueue(Stopped(Q, {j})) /\ split' = StoppedSplit(Q, {j})
         ELSE UNCHANGED <<queue, split>>
      /\ UNCHANGED <<retries, plain, onMain, logins, slots, remaining, sole, restart, files,
                     removals, user>>
  <2>1. status[j] # "pending"
    BY <1>1 DEF OwnerInv, SplitInv, TypeOK
  <2> QED BY <2>1 DEF Cancel, CancelPending, CancelActive, user
<1>3. /\ j \in Large /\ j \notin plain /\ Phase(Whole(j)) = "none" /\ j \notin cleanups \cup unlinks
      /\ split[j] \in {"open", "stopped", "complete", "closing"} /\ status'[j] = "cancelled"
  BY <1>1, <1>2 DEF OwnerInv, SplitInv, TypeOK
<1>4. /\ Whole(j) \in Items /\ Whole(j)[2] = 0 /\ Whole(j) \notin RangesOf({j})
      /\ \A v \in RangesOf({j}) : v \in Items /\ v[1] = j
  BY <1>1, ItemFacts
<1>5. QueueOK(Q) /\ NotStalled(Q) /\ \A v \in Items : PhaseIn(Q, v) = Phase(v)
  BY <1>2, StillMoving, QueueMayShuffle DEF logins
<1>6. UNCHANGED <<logins, slots>>
  BY <1>2
<1>7. CASE split[j] = "open"
  <2> DEFINE q == Stopped(Q, {j})
  <2>1. SetQueue(q) /\ split' = StoppedSplit(Q, {j})
    BY <1>2, <1>7
  <2>2. /\ QueueOK(q) /\ NotStalled(q)
        /\ \A v \in Items : PhaseIn(q, v) =
             IF v \in RangesOf({j}) /\ PhaseIn(Q, v) \in Droppable THEN "none" ELSE PhaseIn(Q, v)
    BY <1>5, StoppedFacts
  <2> HIDE DEF q
  <2>3. /\ split' = [split EXCEPT ![j] = split'[j]]
        /\ split'[j] = IF \E v \in RangesOf({j}) : PhaseIn(Q, v) = "receiving"
                       THEN "stopped" ELSE "closing"
    BY <1>1, <1>5, <2>1, StoppedSplitFacts
  <2>4. QueueOK(Q)' /\ \A v \in Items : Phase(v)' = PhaseIn(q, v)
    BY <2>1, <2>2, SetQueueFacts
  <2>5. \A v \in RangesOf({j}) :
          /\ PhaseIn(Q, v) \in {"none", "waiting", "asking", "backoff", "receiving"}
          /\ Phase(v)' = IF PhaseIn(Q, v) = "receiving" THEN "receiving" ELSE "none"
    <3> TAKE v \in RangesOf({j})
    <3>1. v \in Items /\ PhaseIn(Q, v) \in {"none", "waiting", "asking", "backoff", "receiving"}
      BY <1>1, <1>4, <1>5, <1>7 DEF OwnerInv, RangesInv
    <3> QED BY <2>2, <2>4, <3>1 DEF Droppable
  <2>6. PhaseIn(q, Whole(j)) = "none" /\ Phase(Whole(j))' = "none"
    BY <1>3, <1>4, <1>5, <2>2, <2>4
  <2>7. \A v \in Items : v[1] # j => Pumps(Phase(v), PhaseIn(q, v))
    BY <1>4, <1>5, <2>2 DEF Pumps
  <2>8. SplitTyped(j)
    BY <1>1, <1>2, <1>3, <2>3 DEF SplitTyped, TypeOK
  <2>9. SplitInv(j)'
    BY <1>2, <1>3, <2>3, <2>5, <2>6 DEF SplitInv, removals
  <2>10. RangesInv(j)' /\ CountInv(j)'
    BY <2>3, <2>5 DEF RangesInv, CountInv
  <2> QED BY <1>3, <1>6, <1>7, <2>1, <2>2, <2>6, <2>7, <2>8, <2>9, <2>10, SplitStep
<1>8. CASE split[j] # "open"
  <2>1. SetQueue(Q) /\ split' = split
    BY <1>2, <1>8 DEF queue, SetQueue, Q
  <2>2. QueueOK(Q)' /\ \A v \in Items : Phase(v)' = Phase(v)
    BY <1>5, <2>1, SetQueueFacts
  <2>3. PhaseIn(Q, Whole(j)) = "none" /\ Phase(Whole(j))' = "none"
    BY <1>3, <1>4, <1>5, <2>2
  <2>4. SplitTyped(j)
    BY <1>1, <1>2, <1>3, <1>8, <2>1 DEF SplitTyped, TypeOK
  <2>5. SplitInv(j)'
    <3>1. split[j] = "stopped" => \E v \in RangesOf({j}) : Phase(v)' = "receiving"
      BY <1>1, <1>4, <2>2 DEF OwnerInv, SplitInv
    <3> QED BY <1>2, <1>3, <1>8, <2>1, <2>3, <3>1 DEF SplitInv, removals
  <2>6. RangesInv(j)' /\ CountInv(j)'
    BY <1>1, <1>4, <1>8, <2>1, <2>2 DEF OwnerInv, RangesInv, CountInv
  <2>7. \A v \in Items : v[1] # j => Pumps(Phase(v), PhaseIn(Q, v))
    BY <1>5 DEF Pumps
  <2> QED BY <1>3, <1>5, <1>6, <2>1, <2>3, <2>4, <2>5, <2>6, <2>7, SplitStep
<1> QED BY <1>7, <1>8

LEMMA CancelStep ==
  ASSUME Inv, NEW j \in Jobs, Cancel(j)
  PROVE  Inv'
<1>1. OwnerInv(j) /\ TypeOK /\ j \in Owners /\ Whole(j) \in Items
  BY ItemFacts DEF Inv
<1>2. /\ UNCHANGED <<retries, plain, onMain, logins, slots, remaining, sole, restart, files,
                     removals, reviveLater, cleared, revivals>>
      /\ CancelPending(j) \/ CancelActive(j)
  BY DEF Cancel
<1>3. CASE CancelPending(j)
  <2>1. split[j] = "none" /\ UNCHANGED splits
    BY <1>1, <1>2, <1>3 DEF CancelPending, OwnerInv, SplitInv, TypeOK, splits
  <2>2. PICK q : /\ QueueOK(q) /\ SetQueue(q) /\ NotStalled(q)
                 /\ \A v \in Items : PhaseIn(q, v) = IF v = Whole(j) /\ Phase(v) = "waiting"
                                                     THEN "none" ELSE Phase(v)
    BY <1>1, <1>2, <1>3, DroppedWhole DEF CancelPending
  <2> QED BY <1>2, <1>3, <2>1, <2>2, CancelWholeStep DEF CancelPending
<1>4. CASE CancelActive(j) /\ split[j] = "none"
  <2>1. /\ status[j] = "active" /\ status' = [status EXCEPT ![j] = "cancelled"]
        /\ UNCHANGED <<queue, splits>> /\ reviving' = reviving
    BY <1>2, <1>4 DEF CancelActive, splits
  <2>2. reviving' = reviving \ {j} /\ Phase(Whole(j)) # "waiting"
    BY <1>1, <2>1 DEF OwnerInv, RemovalsInv, WholeInv
  <2>3. QueueOK(Q) /\ NotStalled(Q) /\ \A v \in Items : PhaseIn(Q, v) = Phase(v)
    BY <1>2, StillMoving, QueueMayShuffle DEF logins
  <2>4. SetQueue(Q)
    BY <2>1 DEF queue, SetQueue, Q
  <2> QED BY <1>2, <1>4, <2>1, <2>2, <2>3, <2>4, CancelWholeStep
<1>5. CASE split[j] # "none"
  BY <1>5, CancelSplitStep
<1> QED BY <1>2, <1>3, <1>4, <1>5

LEMMA AbortBorrowStep ==
  ASSUME Inv, NEW b \in Borrows, AbortBorrow(b)
  PROVE  Inv'
<1>1. /\ status[b] = "pending" /\ status' = [status EXCEPT ![b] = "cancelled"]
      /\ work' = Only(work, Items \ {Whole(b)})
      /\ UNCHANGED <<at, strays, retries, plain, onMain, logins, slots, splits, files, removals, user>>
  BY DEF AbortBorrow
<1>2. /\ TypeOK /\ b \in Owners /\ b \notin Jobs /\ b \notin Downloads /\ Whole(b) \in Items
      /\ OwnerInv(b) /\ reviving \subseteq Jobs
  BY ItemFacts, QueueAssumption DEF Inv, TypeOK, Owners, QueueAssumption
<1>3. Phase(Whole(b)) \in {"waiting", "asking", "backoff"}
  BY <1>1, <1>2 DEF OwnerInv, WholeInv
<1>4. PICK q : /\ QueueOK(q) /\ SetQueue(q) /\ NotStalled(q)
               /\ \A v \in Items : PhaseIn(q, v) = IF v = Whole(b) /\ Phase(v) = "waiting"
                                                   THEN "none" ELSE Phase(v)
  BY <1>1, <1>2, DroppedWhole
<1>5. Phase(Whole(b))' = IF Phase(Whole(b)) = "waiting" THEN "none" ELSE Phase(Whole(b))
  BY <1>2, <1>4, SetQueueFacts
<1>6. status'[b] = "cancelled" /\ status' = [status EXCEPT ![b] = status'[b]]
  BY <1>1, <1>2 DEF TypeOK
<1>7. WholeInv(b)'
  BY <1>2, <1>3, <1>5, <1>6 DEF OwnerInv, WholeInv, WholeRuns
<1>8. /\ NextTypes /\ failures' \in 0..MaxLoginFailures - 1 /\ onMain' \subseteq Jobs
      /\ UNCHANGED <<retries, plain, splits, files, removals, user>>
  BY <1>1, <1>2, QueueAssumption DEF TypeOK, NextTypes, logins, QueueAssumption
<1>9. \A v \in Items : v # Whole(b) => Pumps(Phase(v), PhaseIn(q, v))
  BY <1>4 DEF Pumps
<1> QED BY <1>2, <1>3, <1>4, <1>6, <1>7, <1>8, <1>9, WholeStep DEF Final

LEMMA BorrowDoneStep ==
  ASSUME Inv, NEW b \in Borrows, BorrowDone(b)
  PROVE  Inv'
<1> DEFINE u == Whole(b)
           q == Finished(Q, u)
<1>1. /\ at[u] = "lent" /\ status' = [status EXCEPT ![b] = "completed"] /\ SetQueue(q)
      /\ UNCHANGED <<retries, plain, onMain, logins, slots, splits, files, removals, user>>
  BY DEF BorrowDone
<1>2. /\ TypeOK /\ b \in Owners /\ b \notin Jobs /\ b \notin Downloads /\ u \in Items
      /\ OwnerInv(b) /\ reviving \subseteq Jobs /\ QueueOK(Q)
      /\ \A v \in Items : PhaseIn(Q, v) = Phase(v)
  BY ItemFacts, QueueAssumption DEF Inv, TypeOK, Owners, QueueAssumption, Phase
<1>3. Phase(u) = "lent"
  <2> HIDE DEF u
  <2> QED BY <1>1, <1>2, PhaseOfRun
<1>4. /\ NextTypes /\ failures' \in 0..MaxLoginFailures - 1 /\ onMain' \subseteq Jobs
  BY <1>1, <1>2, QueueAssumption DEF TypeOK, NextTypes, logins, QueueAssumption
<1>5. /\ QueueOK(q) /\ NotStalled(q)
      /\ \A v \in Items : Pumps(IF v = u THEN "none" ELSE PhaseIn(Q, v), PhaseIn(q, v))
  <2>1. u \in Items /\ PhaseIn(Q, u) # "waiting"
    BY <1>2, <1>3 DEF Phase
  <2> HIDE DEF u
  <2> QED BY <1>2, <1>4, <2>1, FinishedFacts
<1> HIDE DEF q
<1>6. /\ \A v \in Items : v # u => Pumps(Phase(v), PhaseIn(q, v))
      /\ Phase(u)' = "none"
  <2> HIDE DEF u
  <2>1. Phase(u)' = PhaseIn(q, u)
    BY <1>1, <1>2, <1>5, SetQueueFacts
  <2> QED BY <1>2, <1>5, <2>1 DEF Pumps
<1>7. status'[b] = "completed" /\ status' = [status EXCEPT ![b] = status'[b]]
  BY <1>1, <1>2 DEF TypeOK
<1>8. WholeInv(b)'
  BY <1>2, <1>6, <1>7 DEF WholeInv, WholeRuns
<1>9. Phase(u) # "none"
  BY <1>3
<1> QED BY <1>1, <1>2, <1>4, <1>5, <1>6, <1>7, <1>8, <1>9, WholeStep DEF Final

LEMMA ClearCompletedStep ==
  ASSUME Inv, ClearCompleted
  PROVE  Inv'
<1>1. /\ UNCHANGED <<status, queue, retries, plain, onMain, logins, slots, splits, files, removals,
                     reviving, reviveLater, revivals>>
      /\ cleared' \in SUBSET Jobs
  BY DEF ClearCompleted, Inv, TypeOK
<1>2. TypeOK'
  BY <1>1 DEF Inv, TypeOK, queue, logins, splits, files, removals
<1>3. QueueOK(Q) /\ NotStalled(Q) /\ SetQueue(Q) /\ \A v \in Items : PhaseIn(Q, v) = Phase(v)
  BY <1>1, StillMoving, QueueMayShuffle DEF logins, queue, SetQueue, Q
<1>4. QueueOK(Q)' /\ NoStall' /\ \A v \in Items : Phase(v)' = Phase(v)
  BY <1>3, SetQueueFacts
<1>5. \A o \in Owners : OwnerInv(o)'
  <2> TAKE o \in Owners
  <2>1. Alike(o)
    BY <1>1 DEF Alike, splits, files, removals
  <2>2. \A v \in Items : v[1] = o => Pumps(Phase(v), Phase(v)')
    BY <1>4 DEF Pumps
  <2> QED BY <1>4, <2>1, <2>2, BystanderKeeps
<1> QED BY <1>2, <1>4, <1>5 DEF Inv

(* retry(): the jobs retried now, those that wait for their clean-up, and    *)
(* those that wait for their split to close.                               *)
LEMMA RetryStep ==
  ASSUME Inv, NEW s \in Orders, Retry(s)
  PROVE  Inv'
<1> DEFINE ids == {j \in InSeq(s) : status[j] = "failed" /\ j \notin cleared}
           now == {j \in ids : split[j] = "none"}
           qs == Only(s, now \ cleanups)
<1>1. /\ revivals < MaxRevivals /\ revivals' = revivals + 1
      /\ reviveLater' = reviveLater \cup (ids \ now)
      /\ status' = [o \in Owners |-> IF o \in now THEN "pending" ELSE status[o]]
      /\ retries' = [u \in Items |-> IF u[1] \in now THEN 0 ELSE retries[u]]
      /\ plain' = plain \ now
      /\ reviving' = reviving \cup (now \cap cleanups)
      /\ SetQueue(Pumped(Push(Q, Items0(qs))))
      /\ UNCHANGED <<logins, slots, onMain, splits, files, removals, cleared>>
  BY DEF Retry, Reset, HeldBack
<1>2. s \in Seq(Jobs) /\ \A i, k \in 1..Len(s) : s[i] = s[k] => i = k
  <2>1. PICK n \in Nat : s \in [1..n -> Jobs] /\ \A i, k \in DOMAIN s : s[i] = s[k] => i = k
    <3>1. PICK n \in 1..Cardinality(Jobs) : s \in [1..n -> Jobs]
      BY DEF Orders
    <3> QED BY <3>1 DEF Orders
  <2>2. s \in Seq(Jobs) /\ DOMAIN s = 1..n
    BY <2>1, SeqDef
  <2>3. 1..Len(s) = DOMAIN s
    BY <2>2, LenProperties
  <2> QED BY <2>1, <2>2, <2>3
<1>3. /\ TypeOK /\ NextTypes /\ failures' \in 0..MaxLoginFailures - 1
      /\ ids \subseteq Jobs /\ Jobs \subseteq Owners /\ Large \subseteq Jobs
      /\ cleanups \subseteq Jobs
  <2>1. InSeq(s) \subseteq Jobs
    BY <1>2, ElementOfSeq DEF InSeq
  <2> QED BY <1>1, <2>1, QueueAssumption, ItemFacts
          DEF Inv, TypeOK, NextTypes, logins, QueueAssumption
<1>4. /\ \A o \in ids : o \in Jobs /\ o \in Owners /\ OwnerInv(o) /\ status[o] = "failed"
      /\ \A o \in now : o \in ids /\ split[o] = "none"
      /\ \A o \in ids \ now : split[o] # "none"
  BY <1>3 DEF Inv
<1>5. /\ qs \in Seq(Owners) /\ InSeq(qs) = now \ cleanups
      /\ \A i, k \in 1..Len(qs) : qs[i] = qs[k] => i = k
  <2>1. now \subseteq InSeq(s)
    OBVIOUS
  <2> HIDE DEF now
  <2>2. /\ qs \in Seq(Jobs) /\ InSeq(qs) = InSeq(s) \cap (now \ cleanups)
        /\ \A i, k \in 1..Len(qs) : qs[i] = qs[k] => i = k
    BY <1>2, OnlyFacts DEF Once
  <2> HIDE DEF qs
  <2>3. qs \in Seq(Owners)
    BY <1>3, <2>2
  <2> QED BY <2>1, <2>2, <2>3
<1> HIDE DEF ids, now, qs
<1>6. \A o \in ids : Phase(Whole(o)) = "none"
  BY <1>4 DEF OwnerInv, WholeInv, WholeRuns
<1>7. /\ QueueOK(Q)' /\ NoStall'
      /\ work' \in Seq(Items) /\ at' \in [Items -> Places] /\ strays' \in Nat
      /\ \A o \in now \ cleanups : Phase(Whole(o))' \in {"waiting", "asking"}
      /\ \A v \in Items : v[2] > 0 \/ v[1] \notin now \ cleanups => Pumps(Phase(v), Phase(v)')
  BY <1>1, <1>3, <1>4, <1>5, <1>6, QueuedFacts
<1>8. TypeOK'
  <2>1. status' \in [Owners -> Final \cup {"new", "pending", "active"}]
    BY <1>1, <1>3 DEF TypeOK, Final
  <2>2. retries' \in [Items -> 0..MaxRetries]
    BY <1>1, <1>3, QueueAssumption DEF TypeOK, QueueAssumption
  <2>3. reviveLater' \in SUBSET Large
    BY <1>1, <1>3, <1>4 DEF TypeOK, OwnerInv, SplitInv
  <2>4. reviving' \in SUBSET Jobs /\ plain' \in SUBSET Downloads
    BY <1>1, <1>3 DEF TypeOK
  <2>5. revivals' \in 0..MaxRevivals
    BY <1>1, <1>3, QueueAssumption DEF TypeOK, QueueAssumption
  <2> QED BY <1>1, <1>3, <1>7, <2>1, <2>2, <2>3, <2>4, <2>5
          DEF TypeOK, NextTypes, logins, splits, files, removals
<1>9. ASSUME NEW o \in Owners, o \notin ids PROVE OwnerInv(o)'
  <2>1. Alike(o)
    BY <1>1, <1>4, <1>9 DEF Alike, splits, files, removals
  <2> QED BY <1>4, <1>7, <1>9, <2>1, BystanderKeeps
<1>10. ASSUME NEW o \in ids PROVE \A v \in RangesOf({o}) : Pumps(Phase(v), Phase(v)') /\ v \in Items
  BY <1>7, ItemFacts
<1>11. ASSUME NEW o \in now PROVE OwnerInv(o)'
  <2>1. /\ o \in ids /\ o \in Jobs /\ o \in Owners /\ OwnerInv(o) /\ Whole(o) \in Items
        /\ Whole(o)[1] = o /\ status[o] = "failed" /\ split[o] = "none" /\ status'[o] = "pending"
        /\ Phase(Whole(o)) = "none"
    BY <1>1, <1>4, <1>6, <1>11, ItemFacts
  <2>2. /\ o \notin unlinks /\ o \notin reviveLater /\ o \notin sole /\ o \notin reviving
    BY <2>1 DEF OwnerInv, RemovalsInv, SplitInv
  <2>3. \A v \in RangesOf({o}) : Phase(v)' = "none"
    BY <1>10, <2>1 DEF OwnerInv, RangesInv, Pumps
  <2>4. \/ o \in cleanups /\ o \in reviving' /\ Phase(Whole(o))' = "none"
        \/ o \notin cleanups /\ o \notin reviving' /\ Phase(Whole(o))' \in {"waiting", "asking"}
    BY <1>1, <1>7, <1>11, <2>1, <2>2 DEF Pumps
  <2>5. WholeInv(o)'
    BY <2>1, <2>4 DEF WholeInv, WholeRuns
  <2>6. SplitInv(o)' /\ RangesInv(o)' /\ CountInv(o)'
    BY <1>1, <2>1, <2>2, <2>3 DEF SplitInv, RangesInv, CountInv, splits
  <2>7. RemovalsInv(o)'
    BY <1>1, <1>4, <1>11, <2>1, <2>2, <2>4 DEF RemovalsInv, removals
  <2>8. o \in Downloads => FilesInv(o)'
    BY <1>1, <2>1, <2>4 DEF OwnerInv, FilesInv, files, splits, removals
  <2> QED BY <2>5, <2>6, <2>7, <2>8 DEF OwnerInv
<1>12. ASSUME NEW o \in ids, o \notin now PROVE OwnerInv(o)'
  <2>1. /\ o \in Jobs /\ o \in Owners /\ OwnerInv(o) /\ Whole(o) \in Items
        /\ Whole(o)[1] = o /\ status[o] = "failed" /\ split[o] # "none" /\ status'[o] = "failed"
        /\ Phase(Whole(o)) = "none"
    BY <1>1, <1>4, <1>6, <1>12, ItemFacts
  <2>2. Phase(Whole(o))' = "none"
    BY <1>7, <1>12, <2>1 DEF Pumps
  <2>3. split[o] # "open" /\ \A v \in RangesOf({o}) : Phase(v)' = Phase(v)
    BY <1>10, <2>1 DEF OwnerInv, SplitInv, RangesInv, Pumps
  <2>4. WholeInv(o)'
    BY <2>1, <2>2 DEF WholeInv, WholeRuns
  <2>5. SplitInv(o)' /\ RangesInv(o)' /\ CountInv(o)'
    BY <1>1, <2>1, <2>2, <2>3 DEF OwnerInv, SplitInv, RangesInv, CountInv, splits, removals
  <2>6. RemovalsInv(o)'
    BY <1>1, <1>12, <2>1, <2>2 DEF OwnerInv, RemovalsInv, splits, removals
  <2>7. o \in Downloads => FilesInv(o)'
    BY <1>1, <2>1, <2>2 DEF OwnerInv, FilesInv, files, splits, removals
  <2> QED BY <2>4, <2>5, <2>6, <2>7 DEF OwnerInv
<1> QED BY <1>7, <1>8, <1>9, <1>11, <1>12 DEF Inv

-----------------------------------------------------------------------------
(* The theorems.                                                           *)

LEMMA InitInv == Init => Inv
<1> SUFFICES ASSUME Init PROVE Inv
  OBVIOUS
<1>1. /\ QueueOK(Q) /\ work = <<>> /\ NoStall
      /\ \A v \in Items : Phase(v) = "none"
  <2>1. work = <<>> /\ <<>> \in Seq(Items) /\ Len(<<>>) = 0 /\ InSeq(<<>>) = {}
    BY DEF Init, InSeq
  <2>2. at \in [Items -> Places] /\ strays = 0 /\ \A v \in Items : at[v] = "none"
    BY DEF Init, Places
  <2> QED BY <2>1, <2>2 DEF QueueOK, QueueType, Q, NoStall, Phase, PhaseIn
<1>2. TypeOK
  <2>1. MaxSlots \in 1..MaxSlots /\ 0 \in 0..MaxRetries /\ 0 \in 0..MaxLoginFailures - 1
        /\ 0 \in 0..MaxRevivals /\ 0 \in 0..Segments
    BY QueueAssumption DEF QueueAssumption
  <2>2. work \in Seq(Items) /\ at \in [Items -> Places] /\ strays \in Nat
    BY <1>1 DEF QueueOK, QueueType, Q
  <2> QED BY <2>1, <2>2 DEF Init, TypeOK
<1>3. ASSUME NEW o \in Owners PROVE OwnerInv(o)
  <2>1. /\ Phase(Whole(o)) = "none" /\ \A v \in RangesOf({o}) : Phase(v) = "none"
        /\ status[o] = "new" /\ (o \in Jobs => split[o] = "none")
    BY <1>1, ItemFacts DEF Init
  <2>2. WholeInv(o)
    BY <2>1 DEF WholeInv, WholeRuns
  <2>3. o \in Jobs => SplitInv(o) /\ RangesInv(o) /\ CountInv(o) /\ RemovalsInv(o)
    BY <2>1 DEF Init, SplitInv, RangesInv, CountInv, RemovalsInv
  <2>4. o \in Downloads => FilesInv(o)
    BY <2>1, ItemFacts DEF Init, FilesInv
  <2> QED BY <2>2, <2>3, <2>4 DEF OwnerInv
<1> QED BY <1>1, <1>2, <1>3 DEF Inv

LEMMA StutterInv == Inv /\ UNCHANGED vars => Inv'
<1> SUFFICES ASSUME Inv, UNCHANGED vars PROVE Inv'
  OBVIOUS
<1>1. /\ NextTypes /\ failures' \in 0..MaxLoginFailures - 1 /\ SetQueue(Q) /\ NotStalled(Q)
      /\ UNCHANGED <<status, retries, plain, onMain, splits, files, removals, user>>
  BY StillMoving, QueueAssumption
     DEF vars, Inv, TypeOK, NextTypes, SetQueue, Q, QueueAssumption, splits, files, removals, user
<1> QED BY <1>1, QueueMayShuffle, ShuffleStep

LEMMA NextInv == Inv /\ Next => Inv'
<1> SUFFICES ASSUME Inv, Next PROVE Inv'
  OBVIOUS
<1>1. CASE UserStep
  BY <1>1, EnqueueBatchStep, CancelStep, RetryStep, ClearCompletedStep, BorrowStep,
     AbortBorrowStep, BorrowDoneStep DEF UserStep
<1>2. CASE AcquireStep
  BY <1>2, AcquireAnswersStep, AcquireGrantsStep, StrayAnsweredStep DEF AcquireStep
<1>3. ASSUME NEW j \in Jobs, JobStep(j) PROVE Inv'
  BY <1>3, SizeAnswersStep, RunEndsStep, OpenOneStreamStep, OpenForSplitStep,
     TransferSucceedsStep, ProbeSplitStep, FileClosedStep, SplitUnlinkedStep,
     CleanupDoneStep, CancelUnlinkedStep, FileAppearsStep DEF JobStep
<1>4. ASSUME NEW u \in RangesOf(Jobs), SegmentEnds(u) PROVE Inv'
  BY <1>4, SegmentEndsStep
<1>5. ASSUME NEW u \in Items, BackoffEnds(u) PROVE Inv'
  BY <1>5, BackoffEndsStep
<1>6. CASE LoginHoldEnds \/ ProbeWake \/ SlotsChange
  BY <1>6, TimerSteps, SlotsChangeStep
<1> QED BY <1>1, <1>2, <1>3, <1>4, <1>5, <1>6 DEF Next

(* The inductive invariant holds in every state of the queue.              *)
THEOREM QueueInvariance == Spec => []Inv
<1>1. Inv /\ [Next]_vars => Inv'
  BY NextInv, StutterInv
<1> QED BY <1>1, InitInv, PTL DEF Spec

(* The queue's state is always of its type; above all the count of refused  *)
(* logins stays below its limit and no count of attempts exceeds MaxRetries. *)
THEOREM TypeCorrect == Spec => []TypeOK
<1>1. Inv => TypeOK
  BY DEF Inv
<1> QED BY <1>1, QueueInvariance, PTL

LEMMA LiveIsAPhase ==
  ASSUME Inv, NEW u \in Items
  PROVE  /\ Live(u) <=> Phase(u) # "none"
         /\ u \in Waiting <=> Phase(u) = "waiting"
         /\ Phase(u) # "waiting" => at[u] = Phase(u)
  BY DEF Inv, QueueOK, QueueType, Q, Live, Waiting, Phase, PhaseIn, Places, RunPlaces

(* Work that could run is never left with nobody to start it, and a pending *)
(* job or slot request always has an item, a timer or a clean-up under way  *)
(* that will start it, whatever is cancelled, refused or dropped meanwhile. *)
THEOREM NothingIsForgotten == Spec => []NothingForgotten
<1>1. Inv => NothingForgotten
  <2> SUFFICES ASSUME Inv, NEW o \in Owners, status[o] = "pending"
               PROVE  \/ <<o, 0>> \in Waiting \/ at[<<o, 0>>] \in {"asking", "backoff"}
                      \/ o \in reviving \cap cleanups
    BY DEF NothingForgotten, PendingIsScheduled, Inv
  <2>1. OwnerInv(o) /\ Whole(o) = <<o, 0>> /\ Whole(o) \in Items /\ reviving \subseteq Jobs
    BY ItemFacts DEF Inv, TypeOK, Whole
  <2>2. Phase(Whole(o)) \in {"waiting", "asking", "backoff"} \/ o \in reviving
    BY <2>1 DEF OwnerInv, WholeInv
  <2>3. o \in reviving => o \in cleanups
    BY <2>1 DEF OwnerInv, RemovalsInv
  <2> QED BY <2>1, <2>2, <2>3, LiveIsAPhase
<1> QED BY <1>1, QueueInvariance, PTL

(* No job is tried twice at a time: its item is queued once, or runs, or     *)
(* waits for its timer, and never beside the ranges of a split or a retry   *)
(* that waits for the clean-up.                                            *)
THEOREM OneAttemptAtATime == Spec => []OneAttempt
<1>1. Inv => OneAttempt
  <2> SUFFICES ASSUME Inv PROVE OneAttempt
    OBVIOUS
  <2>1. \A i, k \in 1..Len(work) : work[i] = work[k] => i = k
    BY DEF Inv, QueueOK, Q
  <2>2. Waiting \subseteq Items
    BY ElementOfSeq DEF Inv, TypeOK, Waiting, InSeq
  <2>3. ASSUME NEW u \in Waiting PROVE at[u] = "none" /\ Runnable(u)
    <3>1. u \in Items /\ Phase(u) = "waiting" /\ OwnerInv(u[1])
      BY <2>2, LiveIsAPhase, ItemFacts DEF Inv
    <3>2. at[u] = "none"
      BY DEF Inv, QueueOK, Q, Waiting
    <3>3. Runnable(u)
      BY <3>1, ItemFacts DEF OwnerInv, WholeInv, Runnable
    <3> QED BY <3>2, <3>3
  <2>4. ASSUME NEW j \in Jobs, Live(Whole(j)) PROVE split[j] = "none" /\ j \notin reviving
    <3>1. j \in Owners /\ Phase(Whole(j)) # "none" /\ OwnerInv(j)
      BY <2>4, LiveIsAPhase, ItemFacts DEF Inv
    <3> QED BY <3>1 DEF OwnerInv, SplitInv, RemovalsInv
  <2>5. TypeOK
    BY DEF Inv
  <2> QED BY <2>1, <2>3, <2>4, <2>5 DEF OneAttempt
<1> QED BY <1>1, QueueInvariance, PTL

(* remaining counts exactly the ranges that wait, run or will be retried,   *)
(* and none is left once a split is over: a split ends when, and only when, *)
(* all of the file was received, for any number of ranges.                 *)
THEOREM RangesStayTracked == Spec => []RangesTracked
<1>1. Inv => RangesTracked
  <2> SUFFICES ASSUME Inv, NEW j \in Jobs
               PROVE  /\ split[j] = "open" => remaining[j] = Cardinality(LiveRanges(j)) /\ remaining[j] > 0
                      /\ split[j] = "stopped" => Receiving(at, j)
                      /\ split[j] \in {"none", "complete", "closing", "unlinking"} => LiveRanges(j) = {}
    BY DEF RangesTracked
  <2>1. OwnerInv(j) /\ QueueOK(Q) /\ \A u \in RangesOf({j}) : u \in Items
    BY ItemFacts DEF Inv
  <2>2. split[j] = "stopped" => Receiving(at, j)
    <3>1. \A u \in Items : Phase(u) = PhaseIn(Q, u)
      BY DEF Phase
    <3> QED BY <2>1, <3>1, ReceivingByPhase DEF OwnerInv, SplitInv, Q
  <2>3. split[j] \in {"none", "complete", "closing", "unlinking"} => LiveRanges(j) = {}
    BY <2>1, LiveByPhase DEF OwnerInv, RangesInv, LivePhases
  <2> QED BY <2>1, <2>2, <2>3 DEF OwnerInv, CountInv, SplitInv
<1> QED BY <1>1, QueueInvariance, PTL

(* A download that failed for good leaves no partial file once its clean-up *)
(* is over, unless the file cannot be removed.                             *)
THEOREM FailuresLeaveNothing == Spec => []FailedLeavesNothing
<1>1. Inv => FailedLeavesNothing
  BY ItemFacts DEF Inv, OwnerInv, FilesInv, FailedLeavesNothing
<1> QED BY <1>1, QueueInvariance, PTL

(* The file of a completed download is whole, and no removal of it is under *)
(* way or can still begin.                                                 *)
THEOREM CompletedStayIntact == Spec => []CompletedIntact
<1>1. Inv => CompletedIntact
  BY ItemFacts DEF Inv, OwnerInv, FilesInv, RemovalsInv, CompletedIntact
<1> QED BY <1>1, QueueInvariance, PTL

(* While the file of an earlier attempt is being removed no new attempt is   *)
(* queued or runs.                                                         *)
THEOREM RemovalsAreNeverLate == Spec => []NoLateRemoval
<1>1. Inv => NoLateRemoval
  <2> SUFFICES ASSUME Inv, NEW j \in Jobs,
                      j \in cleanups \cup unlinks \/ split[j] \in {"closing", "complete", "unlinking"},
                      NEW u \in ItemsOf(j)
               PROVE  u \notin Waiting /\ at[u] \in {"none", "closing"}
    BY DEF NoLateRemoval
  <2>1. OwnerInv(j) /\ Whole(j) \in Items /\ (u = Whole(j) \/ u \in RangesOf({j})) /\ u \in Items
    BY ItemFacts DEF Inv, ItemsOf, Whole
  <2>2. Phase(Whole(j)) = "none" /\ split[j] \notin {"open", "stopped"}
    BY <2>1 DEF OwnerInv, SplitInv, RemovalsInv
  <2>3. Phase(u) \in {"none", "closing"}
    BY <2>1, <2>2 DEF OwnerInv, RangesInv
  <2> QED BY <2>1, <2>3, LiveIsAPhase
<1> QED BY <1>1, QueueInvariance, PTL

-----------------------------------------------------------------------------
(* The refinement: every step of the queue is one of JobLifecycle, or none. *)
(* First what each of the abstract steps asks for in terms of the queue.   *)

Mapped == Lifecycle!Next \/ UNCHANGED Lifecycle!vars

SameStatus == \A j \in Jobs : status'[j] = status[j]
SameTries == \A j \in Jobs : retries'[Whole(j)] = retries[Whole(j)]

(* The jobs S, and no others, change their status.                         *)
Moves(S, from, to) ==
  /\ S \subseteq Jobs
  /\ \A j \in S : status[j] \in from
  /\ \A j \in Jobs : status'[j] = IF j \in S THEN to ELSE status[j]

(* The files of the jobs S are left as an attempt or a removal leaves them. *)
Left(S) ==
  /\ file' \in [Downloads -> {"absent", "theirs", "partial", "whole"}]
  /\ \A j \in Downloads : file'[j] # file[j] =>
       /\ j \in S
       /\ \/ file'[j] = "absent" /\ file[j] = "partial"
          \/ file'[j] = "partial" /\ status[j] = "active" /\ (j \in Exclusive => file[j] # "theirs")

LEMMA LifeOf ==
  ASSUME NEW S, NEW from, NEW to, Moves(S, from, to)
  PROVE  S # {} => Lifecycle!Move(S, from, to)
BY DEF Moves, Lifecycle!Move

LEMMA TriesKept ==
  ASSUME SameTries
  PROVE  [j \in Jobs |-> retries[Whole(j)]]' = [j \in Jobs |-> retries[Whole(j)]]
BY DEF SameTries, Whole

LEMMA LifeKept ==
  ASSUME SameStatus
  PROVE  [j \in Jobs |-> status[j]]' = [j \in Jobs |-> status[j]]
BY DEF SameStatus

LEMMA MapsToNothing ==
  ASSUME SameStatus, SameTries, UNCHANGED <<plain, file>>
  PROVE  Mapped
BY LifeKept, TriesKept DEF Mapped, Lifecycle!vars

LEMMA MapsToSubmit ==
  ASSUME NEW S, Moves(S, {"new"}, "pending"), SameTries, UNCHANGED <<plain, file>>
  PROVE  Mapped
<1>1. CASE S = {}
  BY <1>1, MapsToNothing DEF Moves, SameStatus
<1>2. CASE S # {}
  <2>1. Lifecycle!Submit(S) /\ S \in SUBSET Jobs
    BY <1>2, LifeOf, TriesKept DEF Lifecycle!Submit, Moves
  <2> QED BY <2>1 DEF Mapped, Lifecycle!Next
<1> QED BY <1>1, <1>2

LEMMA MapsToFail ==
  ASSUME NEW S, Moves(S, {"pending", "active"}, "failed"), SameTries, plain' = plain,
         TypeOK, Left(S), S = {} => file' = file
  PROVE  Mapped
<1>1. CASE S = {}
  BY <1>1, MapsToNothing DEF Moves, SameStatus
<1>2. CASE S # {}
  <2>1. S \in SUBSET Jobs /\ Lifecycle!Move(S, Lifecycle!Open, "failed")
    BY <1>2, LifeOf DEF Moves, Lifecycle!Open
  <2>2. Lifecycle!FilesLeft(S)
    BY QueueAssumption DEF Left, Lifecycle!FilesLeft, QueueAssumption
  <2>3. Lifecycle!Fail(S)
    BY <2>1, <2>2, TriesKept DEF Lifecycle!Fail
  <2> QED BY <2>1, <2>3 DEF Mapped, Lifecycle!Next
<1> QED BY <1>1, <1>2

LEMMA MapsToRevive ==
  ASSUME NEW S, Moves(S, {"failed"}, "pending"), Left(S), S = {} => file' = file,
         \A j \in Jobs : retries'[Whole(j)] = IF j \in S THEN 0 ELSE retries[Whole(j)],
         plain' = plain \ S
  PROVE  Mapped
<1>1. CASE S = {}
  BY <1>1, MapsToNothing DEF Moves, SameStatus, SameTries
<1>2. CASE S # {}
  <2>1. S \in SUBSET Jobs /\ Lifecycle!Move(S, {"failed"}, "pending")
    BY <1>2, LifeOf DEF Moves
  <2>2. Lifecycle!FilesLeft(S)
    BY QueueAssumption DEF Left, Lifecycle!FilesLeft, QueueAssumption
  <2>3. [j \in Jobs |-> retries[Whole(j)]]' =
          [j \in Jobs |-> IF j \in S THEN 0 ELSE [i \in Jobs |-> retries[Whole(i)]][j]]
    BY DEF Whole
  <2>4. Lifecycle!Revive(S)
    BY <2>1, <2>2, <2>3 DEF Lifecycle!Revive
  <2> QED BY <2>1, <2>4 DEF Mapped, Lifecycle!Next
<1> QED BY <1>1, <1>2

LEMMA MapsToBegin ==
  ASSUME NEW j \in Jobs, Moves({j}, {"pending"}, "active"), SameTries, UNCHANGED <<plain, file>>
  PROVE  Mapped
<1>1. Lifecycle!Begin(j)
  BY LifeOf, TriesKept DEF Lifecycle!Begin
<1> QED BY <1>1 DEF Mapped, Lifecycle!Next

LEMMA MapsToCancel ==
  ASSUME NEW j \in Jobs, Moves({j}, {"pending", "active"}, "cancelled"), SameTries,
         UNCHANGED <<plain, file>>
  PROVE  Mapped
<1>1. Lifecycle!Cancel(j)
  BY LifeOf, TriesKept DEF Lifecycle!Cancel, Lifecycle!Open
<1> QED BY <1>1 DEF Mapped, Lifecycle!Next

LEMMA MapsToComplete ==
  ASSUME NEW j \in Jobs, Moves({j}, {"active"}, "completed"), SameTries, plain' = plain,
         file' = [i \in Downloads |-> IF i = j THEN "whole" ELSE file[i]]
  PROVE  Mapped
<1>1. Lifecycle!Complete(j)
  BY LifeOf, TriesKept DEF Lifecycle!Complete
<1> QED BY <1>1 DEF Mapped, Lifecycle!Next

LEMMA MapsToTryAgain ==
  ASSUME NEW j \in Jobs, Moves({j}, {"active"}, "pending"), Left({j}),
         \A i \in Jobs \ {j} : retries'[Whole(i)] = retries[Whole(i)],
         \/ /\ retries[Whole(j)] < MaxRetries
            /\ retries'[Whole(j)] = retries[Whole(j)] + 1 /\ plain' = plain
         \/ retries'[Whole(j)] = retries[Whole(j)] /\ plain' = plain
         \/ j \notin plain /\ plain' = plain \cup {j} /\ retries'[Whole(j)] = 0
  PROVE  Mapped
<1> DEFINE tries == [i \in Jobs |-> retries[Whole(i)]]
<1>1. Lifecycle!Move({j}, {"active"}, "pending") /\ Lifecycle!FilesLeft({j})
  BY LifeOf, QueueAssumption DEF Left, Lifecycle!FilesLeft, QueueAssumption
<1>2. tries' = [tries EXCEPT ![j] = retries'[Whole(j)]] /\ tries[j] = retries[Whole(j)]
  BY DEF Whole
<1>3. Lifecycle!TryAgain(j)
  <2>1. \/ tries[j] < MaxRetries /\ tries' = [tries EXCEPT ![j] = tries[j] + 1] /\ plain' = plain
        \/ tries' = tries /\ plain' = plain
        \/ j \notin plain /\ plain' = plain \cup {j} /\ tries' = [tries EXCEPT ![j] = 0]
    BY <1>2
  <2> QED BY <1>1, <2>1 DEF Lifecycle!TryAgain
<1> QED BY <1>3 DEF Mapped, Lifecycle!Next

LEMMA MapsToWrite ==
  ASSUME NEW j \in Downloads, SameStatus, SameTries, plain' = plain,
         status[j] \in {"active", "cancelled"}, j \in Exclusive => file[j] # "theirs",
         NEW f \in {"partial", "whole"}, file' = [file EXCEPT ![j] = f]
  PROVE  Mapped
<1>1. Lifecycle!Write(j)
  BY LifeKept, TriesKept, QueueAssumption DEF Lifecycle!Write, QueueAssumption
<1> QED BY <1>1 DEF Mapped, Lifecycle!Next

LEMMA MapsToCleanUp ==
  ASSUME NEW j \in Downloads, SameStatus, SameTries, plain' = plain,
         \/ status[j] \in {"failed", "pending"} /\ file[j] = "partial"
         \/ status[j] = "cancelled" /\ (j \in Exclusive => file[j] # "theirs"),
         file' = [file EXCEPT ![j] = "absent"]
  PROVE  Mapped
<1>1. Lifecycle!CleanUp(j)
  BY LifeKept, TriesKept, QueueAssumption DEF Lifecycle!CleanUp, QueueAssumption
<1> QED BY <1>1 DEF Mapped, Lifecycle!Next

LEMMA MapsToFileAppears ==
  ASSUME NEW j \in Downloads, SameStatus, SameTries, plain' = plain,
         file[j] = "absent", file' = [file EXCEPT ![j] = "theirs"]
  PROVE  Mapped
<1>1. Lifecycle!FileAppears(j)
  BY LifeKept, TriesKept DEF Lifecycle!FileAppears
<1> QED BY <1>1 DEF Mapped, Lifecycle!Next

-----------------------------------------------------------------------------
(* The steps of the queue, one by one.                                     *)

LEMMA UnchangedLeft ==
  ASSUME TypeOK, file' = file, NEW S
  PROVE  Left(S)
BY DEF TypeOK, Left

(* A field of the records and functions of the model, one job at a time.   *)
LEMMA StatusAt ==
  ASSUME TypeOK, NEW j \in Jobs, NEW to, status' = [status EXCEPT ![j] = to]
  PROVE  /\ status'[j] = to
         /\ \A from : status[j] \in from => Moves({j}, from, to)
BY ItemFacts DEF TypeOK, Moves

LEMMA RetriesAt ==
  ASSUME TypeOK, NEW j \in Jobs, NEW n, retries' = [retries EXCEPT ![Whole(j)] = n]
  PROVE  /\ retries'[Whole(j)] = n
         /\ \A i \in Jobs \ {j} : retries'[Whole(i)] = retries[Whole(i)]
BY ItemFacts DEF TypeOK, Whole

LEMMA SilentSteps ==
  ASSUME Inv,
         \/ ClearCompleted
         \/ \E b \in Borrows : Borrow(b) \/ AbortBorrow(b) \/ BorrowDone(b)
         \/ \E b \in Borrows, main \in BOOLEAN : GrantBorrow(b, main)
         \/ \E u \in Items, main \in BOOLEAN : GrantRange(u, main)
         \/ \E u \in Items : AcquireLimited(u) \/ BackoffEnds(u)
         \/ Limited(StrayLeft) \/ GrantStray
         \/ \E j \in Jobs : ProbeSplit(j)
         \/ LoginHoldEnds \/ ProbeWake \/ SlotsChange
  PROVE  Mapped
<1>1. \A b \in Borrows : b \notin Jobs
  BY QueueAssumption DEF QueueAssumption
<1>2. CASE \E b \in Borrows : \/ Borrow(b) \/ AbortBorrow(b) \/ BorrowDone(b)
                              \/ \E main \in BOOLEAN : GrantBorrow(b, main)
  <2>1. PICK b \in Borrows : \/ Borrow(b) \/ AbortBorrow(b) \/ BorrowDone(b)
                             \/ \E main \in BOOLEAN : GrantBorrow(b, main)
    BY <1>2
  <2>2. UNCHANGED <<retries, plain, file>> /\ \E to : status' = [status EXCEPT ![b] = to]
    BY <2>1 DEF Borrow, AbortBorrow, BorrowDone, GrantBorrow, files
  <2>3. SameStatus
    BY <1>1, <2>2, ItemFacts DEF SameStatus, Inv, TypeOK
  <2> QED BY <2>2, <2>3, MapsToNothing DEF SameTries
<1>3. CASE /\ UNCHANGED <<status, retries, plain, file>>
  BY <1>3, MapsToNothing DEF SameStatus, SameTries
<1> QED BY <1>2, <1>3
        DEF ClearCompleted, GrantRange, AcquireLimited, BackoffEnds, Limited, GrantStray,
            ProbeSplit, LoginHoldEnds, ProbeWake, SlotsChange, files

LEMMA EnqueueMaps ==
  ASSUME Inv, NEW b \in Batches, EnqueueBatch(b)
  PROVE  Mapped
<1>1. InSeq(b) \subseteq Jobs
  BY QueueAssumption, ElementOfSeq DEF QueueAssumption, InSeq
<1>2. Moves(InSeq(b), {"new"}, "pending")
  BY <1>1, ItemFacts DEF EnqueueBatch, Moves
<1>3. SameTries /\ UNCHANGED <<plain, file>>
  BY DEF EnqueueBatch, SameTries, files
<1> QED BY <1>2, <1>3, MapsToSubmit

LEMMA CancelMaps ==
  ASSUME Inv, NEW j \in Jobs, Cancel(j)
  PROVE  Mapped
<1>1. /\ TypeOK /\ status[j] \in {"pending", "active"}
      /\ status' = [status EXCEPT ![j] = "cancelled"] /\ UNCHANGED <<retries, plain, file>>
  BY DEF Inv, Cancel, CancelPending, CancelActive, files
<1>2. Moves({j}, {"pending", "active"}, "cancelled") /\ SameTries
  BY <1>1, StatusAt DEF SameTries
<1> QED BY <1>1, <1>2, MapsToCancel

LEMMA RetryMaps ==
  ASSUME Inv, NEW s \in Orders, Retry(s)
  PROVE  Mapped
<1> DEFINE ids == {j \in InSeq(s) : status[j] = "failed" /\ j \notin cleared}
           now == {j \in ids : split[j] = "none"}
<1>1. /\ status' = [o \in Owners |-> IF o \in now THEN "pending" ELSE status[o]]
      /\ retries' = [u \in Items |-> IF u[1] \in now THEN 0 ELSE retries[u]]
      /\ plain' = plain \ now /\ file' = file
  BY DEF Retry, Reset, files
<1>2. now \subseteq Jobs /\ \A j \in now : status[j] = "failed"
  <2>1. PICK n \in 1..Cardinality(Jobs) : s \in [1..n -> Jobs]
    BY DEF Orders
  <2>2. s \in Seq(Jobs)
    BY <2>1, SeqDef
  <2> QED BY <2>2, ElementOfSeq DEF InSeq
<1> HIDE DEF ids, now
<1>3. Moves(now, {"failed"}, "pending")
  BY <1>1, <1>2, ItemFacts DEF Moves
<1>4. \A j \in Jobs : retries'[Whole(j)] = IF j \in now THEN 0 ELSE retries[Whole(j)]
  BY <1>1, ItemFacts
<1> QED BY <1>1, <1>3, <1>4, UnchangedLeft, MapsToRevive DEF Inv

LEMMA GrantJobMaps ==
  ASSUME Inv, NEW j \in Jobs, NEW main \in BOOLEAN, GrantJob(j, main)
  PROVE  Mapped
<1>1. /\ TypeOK /\ UNCHANGED <<retries, plain, file>>
      /\ \/ status[j] = "pending" /\ status' = [status EXCEPT ![j] = "active"]
         \/ status' = status
  BY DEF Inv, GrantJob, files
<1>2. CASE status' = status
  BY <1>1, <1>2, MapsToNothing DEF SameStatus, SameTries
<1>3. CASE status[j] = "pending" /\ status' = [status EXCEPT ![j] = "active"]
  BY <1>1, <1>3, StatusAt, MapsToBegin DEF SameTries
<1> QED BY <1>1, <1>2, <1>3

LEMMA LoginFailsMaps ==
  ASSUME Inv, NEW q, QueueOK(q), \A u \in Items : ShufflesTo(u, PhaseIn(q, u)), LoginFails(q)
  PROVE  Mapped
<1>1. UNCHANGED <<retries, plain, file>> /\ (status' = status \/ FailPending(q))
  BY DEF LoginFails, files
<1>2. CASE status' = status
  BY <1>1, <1>2, MapsToNothing DEF SameStatus, SameTries
<1>3. CASE FailPending(q)
  <2> DEFINE wholes == {u[1] : u \in {w \in InSeq(q.work) : w[2] = 0}}
             torn == {u[1] : u \in {w \in InSeq(q.work) : w[2] > 0}}
             S == (wholes \cup torn) \cap Jobs
  <2>1. status' = [j \in Owners |-> IF j \in wholes \cup torn THEN "failed" ELSE status[j]]
    BY <1>3, Zenon DEF FailPending, FailedOwners
  <2>2. InSeq(q.work) \subseteq Items
    BY ElementOfSeq DEF QueueOK, QueueType, InSeq
  <2>3. ASSUME NEW u \in InSeq(q.work), u[1] \in Jobs
        PROVE  status[u[1]] \in {"pending", "active"}
    <3>1. /\ u \in Items /\ OwnerInv(u[1]) /\ (u[2] = 0 => u = Whole(u[1]))
          /\ (u[2] > 0 => u \in RangesOf({u[1]})) /\ u[2] \in Nat
      BY <2>2, <2>3, ItemFacts DEF Inv
    <3>2. Phase(u) \in {"waiting", "asking", "backoff"} /\ (Phase(u) # "waiting" => Runnable(u))
      <4>1. PhaseIn(q, u) = "waiting"
        BY DEF PhaseIn
      <4> QED BY <3>1, <4>1 DEF ShufflesTo
    <3>3. CASE u[2] = 0
      BY <3>1, <3>2, <3>3 DEF OwnerInv, WholeInv, Runnable
    <3>4. CASE u[2] > 0
      BY <2>3, <3>1, <3>2, <3>4 DEF OwnerInv, RangesInv, SplitInv
    <3> QED BY <3>1, <3>3, <3>4
  <2>4. \A j \in S : status[j] \in {"pending", "active"}
    BY <2>3
  <2> HIDE DEF wholes, torn
  <2>5. Moves(S, {"pending", "active"}, "failed")
    BY <2>1, <2>4, ItemFacts DEF Moves
  <2> HIDE DEF S
  <2>6. SameTries /\ TypeOK /\ Left(S)
    BY <1>1, UnchangedLeft DEF SameTries, Inv
  <2> QED BY <1>1, <2>5, <2>6, MapsToFail
<1> QED BY <1>1, <1>2, <1>3

LEMMA AcquireMaps ==
  ASSUME Inv, AcquireStep
  PROVE  Mapped
<1>1. ASSUME NEW u \in Items, AcquireFails(u) PROVE Mapped
  BY <1>1, ReturnedFacts, LoginFailsMaps DEF AcquireFails
<1>2. ASSUME NEW u \in Items, AcquireLimited(u) PROVE Mapped
  BY <1>2, SilentSteps
<1>3. ASSUME NEW u \in Items, AcquireGrants(u) PROVE Mapped
  BY <1>3, SilentSteps, GrantJobMaps DEF AcquireGrants
<1>4. ASSUME StrayAnswered PROVE Mapped
  BY <1>4, StrayLeftFacts, LoginFailsMaps, SilentSteps DEF StrayAnswered
<1> QED BY <1>1, <1>2, <1>3, <1>4 DEF AcquireStep

(* How the run() of a whole job ends, its file being left in order.        *)
LEMMA EndMaps ==
  ASSUME Inv, NEW j \in Jobs, Left({j}), plain' = plain,
         RetryLater(j) \/ Fail(j) \/ Requeue(j)
  PROVE  Mapped
<1>1. TypeOK /\ status[j] = "active"
  BY DEF Inv, RetryLater, Fail, Requeue
<1>2. CASE RetryLater(j)
  <2>1. /\ retries[Whole(j)] < MaxRetries
        /\ retries' = [retries EXCEPT ![Whole(j)] = retries[Whole(j)] + 1]
        /\ status' = [status EXCEPT ![j] = "pending"]
    BY <1>2 DEF RetryLater, NextAttempt
  <2>2. /\ Moves({j}, {"active"}, "pending") /\ retries'[Whole(j)] = retries[Whole(j)] + 1
        /\ \A i \in Jobs \ {j} : retries'[Whole(i)] = retries[Whole(i)]
    BY <1>1, <2>1, StatusAt, RetriesAt
  <2> QED BY <2>1, <2>2, MapsToTryAgain
<1>3. CASE Requeue(j)
  <2>1. retries' = retries /\ Moves({j}, {"active"}, "pending")
    BY <1>1, <1>3, StatusAt DEF Requeue
  <2> QED BY <2>1, MapsToTryAgain
<1>4. CASE Fail(j)
  <2>1. SameTries /\ Moves({j}, {"pending", "active"}, "failed")
    BY <1>1, <1>4, StatusAt DEF Fail, SameTries
  <2> QED BY <1>1, <2>1, MapsToFail
<1> QED BY <1>2, <1>3, <1>4

LEMMA RunMaps ==
  ASSUME Inv, NEW j \in Jobs, SizeAnswers(j) \/ OpenFails(j)
  PROVE  Mapped
<1>1. TypeOK /\ file' = file /\ plain' = plain /\ Left({j})
  BY UnchangedLeft DEF Inv, SizeAnswers, OpenFails, RunEnds, files
<1>2. CASE UNCHANGED <<status, retries>>
  BY <1>1, <1>2, MapsToNothing DEF SameStatus, SameTries
<1>3. CASE RetryLater(j) \/ Fail(j)
  BY <1>1, <1>3, EndMaps
<1> QED BY <1>2, <1>3 DEF SizeAnswers, OpenFails, EndCancelled

(* What opening the local file does to it.                                 *)
LEMMA OpenedFile ==
  ASSUME Inv, NEW j \in Jobs, at[Whole(j)] \in {"toOpen", "opening"}, OpenFile(j)
  PROVE  /\ j \in Downloads /\ status[j] \in {"active", "cancelled"}
         /\ j \in Exclusive => file[j] # "theirs"
         /\ file' = [file EXCEPT ![j] = "partial"]
         /\ status[j] = "active" => Left({j})
<1>1. at[Whole(j)] \in WholeRuns
  BY DEF WholeRuns
<1>2. /\ Phase(Whole(j)) = at[Whole(j)] /\ status[j] \in {"active", "cancelled"}
      /\ OwnerInv(j) /\ TypeOK
  BY <1>1, RunFacts, ItemFacts DEF Inv
<1>3. j \in Downloads
  BY <1>2, ItemFacts DEF OwnerInv, WholeInv
<1>4. file' = [file EXCEPT ![j] = "partial"] /\ (j \in Exclusive \ created => file[j] = "absent")
  BY DEF OpenFile, MayOpen
<1>5. j \in Exclusive => file[j] # "theirs"
  BY <1>2, <1>3, <1>4 DEF OwnerInv, FilesInv
<1>6. status[j] = "active" => Left({j})
  BY <1>2, <1>3, <1>4, <1>5 DEF TypeOK, Left
<1> QED BY <1>2, <1>3, <1>4, <1>5, <1>6

LEMMA OpenMaps ==
  ASSUME Inv, NEW j \in Jobs, OpenOneStream(j) \/ OpenForSplit(j)
  PROVE  Mapped
<1>1. /\ at[Whole(j)] \in {"toOpen", "opening"} /\ OpenFile(j) /\ plain' = plain
  BY DEF OpenOneStream, OpenForSplit
<1>2. /\ j \in Downloads /\ status[j] \in {"active", "cancelled"}
      /\ j \in Exclusive => file[j] # "theirs"
      /\ file' = [file EXCEPT ![j] = "partial"]
      /\ status[j] = "active" => Left({j})
  BY <1>1, OpenedFile
<1>3. CASE SameStatus /\ SameTries
  BY <1>1, <1>2, <1>3, MapsToWrite
<1>4. CASE RetryLater(j) \/ Fail(j)
  <2>1. status[j] = "active"
    BY <1>4 DEF RetryLater, Fail
  <2> QED BY <1>1, <1>2, <1>4, <2>1, EndMaps
<1>5. ASSUME NEW n \in 1..Segments, SplitInto(j, n, <<j, n>>), UNCHANGED status
      PROVE  Mapped
  <2>1. \A i \in Jobs : Whole(i) \in Items /\ Whole(i) \notin RangesOf({j})
    BY ItemFacts
  <2>2. SameTries
    BY <1>5, <2>1 DEF SplitInto, SameTries
  <2> QED BY <1>3, <1>5, <2>2 DEF SameStatus
<1>6. CASE UNCHANGED <<status, retries>>
  BY <1>3, <1>6 DEF SameStatus, SameTries
<1> QED BY <1>4, <1>5, <1>6 DEF OpenOneStream, OpenForSplit, EndCancelled

LEMMA TransferSucceedsMaps ==
  ASSUME Inv, NEW j \in Jobs, TransferSucceeds(j)
  PROVE  Mapped
<1>1. /\ at[Whole(j)] = "moving" /\ plain' = plain /\ retries' = retries
      /\ file' = IF j \in Downloads THEN [file EXCEPT ![j] = "whole"] ELSE file
  BY DEF TransferSucceeds, RunEnds, Complete, EndCancelled
<1>2. TypeOK /\ status[j] \in {"active", "cancelled"} /\ (j \in Downloads => file[j] = "partial")
  <2>1. at[Whole(j)] \in WholeRuns
    BY <1>1 DEF WholeRuns
  <2> QED BY <1>1, <2>1, RunFacts, ItemFacts DEF Inv, OwnerInv, FilesInv
<1>3. CASE Complete(j)
  <2>1. Moves({j}, {"active"}, "completed")
    BY <1>2, <1>3, StatusAt DEF Complete, NotCancelled
  <2>2. file' = [i \in Downloads |-> IF i = j THEN "whole" ELSE file[i]]
    BY <1>1, <1>2 DEF TypeOK
  <2> QED BY <1>1, <2>1, <2>2, MapsToComplete DEF SameTries
<1>4. CASE status' = status
  <2>1. CASE j \in Downloads
    BY <1>1, <1>2, <1>4, <2>1, MapsToWrite DEF SameStatus, SameTries
  <2>2. CASE j \notin Downloads
    BY <1>1, <1>4, <2>2, MapsToNothing DEF SameStatus, SameTries
  <2> QED BY <2>1, <2>2
<1> QED BY <1>3, <1>4 DEF TransferSucceeds, EndCancelled

LEMMA TransferFailsMaps ==
  ASSUME Inv, NEW j \in Jobs, TransferFails(j) \/ TransferRequeued(j)
  PROVE  Mapped
<1>1. TypeOK /\ plain' = plain /\ (UNCHANGED files \/ RemoveEmpty(j))
  BY DEF Inv, TransferFails, TransferRequeued, RunEnds
<1>2. Left({j})
  BY <1>1, UnchangedLeft DEF files, RemoveEmpty, TypeOK, Left
<1>3. CASE RetryLater(j) \/ Fail(j) \/ Requeue(j)
  BY <1>1, <1>2, <1>3, EndMaps
<1>4. CASE EndCancelled(j)
  <2>1. SameStatus /\ SameTries /\ status[j] = "cancelled"
    BY <1>4 DEF EndCancelled, SameStatus, SameTries
  <2>2. CASE UNCHANGED files
    BY <1>1, <2>1, <2>2, MapsToNothing DEF files
  <2>3. CASE RemoveEmpty(j)
    BY <1>1, <2>1, <2>3, MapsToCleanUp DEF RemoveEmpty
  <2> QED BY <1>1, <2>2, <2>3
<1> QED BY <1>3, <1>4 DEF TransferFails, TransferRequeued

LEMMA SegmentMaps ==
  ASSUME Inv, NEW u \in RangesOf(Jobs), SegmentEnds(u)
  PROVE  Mapped
<1>1. TypeOK /\ plain' = plain /\ file' = file /\ u[1] \in Jobs /\ u[2] > 0 /\ OwnerInv(u[1])
  BY ItemFacts DEF Inv, SegmentEnds, files
<1>2. CASE UNCHANGED <<status, retries>>
  BY <1>1, <1>2, MapsToNothing DEF SameStatus, SameTries
<1>3. CASE RangeRetried(u)
  <2>1. SameTries
    <3>1. \A i \in Jobs : Whole(i) \in Items /\ Whole(i)[2] = 0
      BY ItemFacts
    <3>2. \A i \in Jobs : Whole(i) # u
      BY <1>1, <3>1
    <3> QED BY <1>1, <1>3, <3>1, <3>2 DEF RangeRetried, SameTries, TypeOK
  <2> QED BY <1>1, <1>3, <2>1, MapsToNothing DEF RangeRetried, SameStatus
<1>4. CASE split[u[1]] = "open" /\ RangeFailed(u)
  <2>1. status[u[1]] = "active"
    BY <1>1, <1>4 DEF OwnerInv, SplitInv
  <2>2. SameTries /\ Moves({u[1]}, {"pending", "active"}, "failed")
    BY <1>1, <1>4, <2>1, StatusAt DEF RangeFailed, StopFrom, SameTries
  <2> QED BY <1>1, <2>2, UnchangedLeft, MapsToFail
<1> QED BY <1>2, <1>3, <1>4
        DEF SegmentEnds, RangeDone, RestRefused, RangeStopped, StopFrom

LEMMA FileClosedMaps ==
  ASSUME Inv, NEW j \in Jobs, FileClosed(j)
  PROVE  Mapped
<1>1. /\ split[j] \in {"closing", "complete"} /\ TypeOK /\ j \in Downloads /\ j \notin plain
  BY ClosedSplit DEF FileClosed
<1>2. CASE UNCHANGED <<status, retries, plain, file>>
  BY <1>2, MapsToNothing DEF SameStatus, SameTries
<1>3. CASE /\ status[j] = "active" /\ status' = [status EXCEPT ![j] = "completed"]
           /\ file' = [file EXCEPT ![j] = IF LiveRanges(j) = {} THEN "whole" ELSE @]
           /\ UNCHANGED <<retries, plain>>
  <2>1. LiveRanges(j) = {}
    <3>1. \A v \in RangesOf({j}) : Phase(v) \in {"none", "closing"}
      BY <1>1, ClosedSplit DEF OwnerInv, RangesInv
    <3> QED BY <3>1, LiveByPhase DEF Inv, LivePhases
  <2>2. file' = [i \in Downloads |-> IF i = j THEN "whole" ELSE file[i]]
    BY <1>1, <1>3, <2>1 DEF TypeOK
  <2>3. Moves({j}, {"active"}, "completed") /\ SameTries
    BY <1>1, <1>3, StatusAt DEF SameTries
  <2> QED BY <1>3, <2>2, <2>3, MapsToComplete
<1>4. CASE /\ status[j] = "active" /\ status' = [status EXCEPT ![j] = "pending"]
           /\ retries' = [retries EXCEPT ![Whole(j)] = 0]
           /\ plain' = plain \cup {j} /\ file' = file
  <2>1. /\ Moves({j}, {"active"}, "pending") /\ Left({j}) /\ retries'[Whole(j)] = 0
        /\ \A i \in Jobs \ {j} : retries'[Whole(i)] = retries[Whole(i)]
    BY <1>1, <1>4, StatusAt, RetriesAt, UnchangedLeft
  <2> QED BY <1>1, <1>4, <2>1, MapsToTryAgain
<1> QED BY <1>2, <1>3, <1>4 DEF FileClosed

(* A removal maps to the clean-up of a file that may be removed.           *)
LEMMA UnlinkedFile ==
  ASSUME TypeOK, NEW j \in Downloads, FilesInv(j), Unlink(j)
  PROVE  \/ file' = file
         \/ /\ file' = [file EXCEPT ![j] = "absent"]
            /\ j \in Exclusive => file[j] # "theirs"
BY DEF Unlink, files, FilesInv

LEMMA SplitUnlinkedMaps ==
  ASSUME Inv, NEW j \in Jobs, SplitUnlinked(j)
  PROVE  Mapped
<1>1. /\ split[j] = "unlinking" /\ TypeOK /\ j \in Downloads /\ OwnerInv(j) /\ Unlink(j)
      /\ file[j] = "partial"
  BY ClosedSplit DEF SplitUnlinked
<1>2. status[j] = "failed" /\ FilesInv(j)
  BY <1>1 DEF OwnerInv, SplitInv
<1>3. file' = file \/ file' = [file EXCEPT ![j] = "absent"]
  BY <1>1, <1>2, UnlinkedFile
<1>4. CASE UNCHANGED <<status, retries, plain>>
  <2>1. SameStatus /\ SameTries
    BY <1>4 DEF SameStatus, SameTries
  <2> QED BY <1>1, <1>2, <1>3, <1>4, <2>1, MapsToNothing, MapsToCleanUp
<1>5. CASE Reset({j})
  <2>1. Left({j})
    BY <1>1, <1>3 DEF Left, TypeOK
  <2>2. Moves({j}, {"failed"}, "pending")
    BY <1>2, <1>5, ItemFacts DEF Reset, Moves
  <2>3. /\ plain' = plain \ {j}
        /\ \A i \in Jobs : retries'[Whole(i)] = IF i \in {j} THEN 0 ELSE retries[Whole(i)]
    BY <1>5, ItemFacts DEF Reset
  <2> QED BY <2>1, <2>2, <2>3, MapsToRevive
<1> QED BY <1>4, <1>5 DEF SplitUnlinked

LEMMA RemovalMaps ==
  ASSUME Inv, NEW j \in Jobs, CleanupDone(j) \/ CancelUnlinked(j)
  PROVE  Mapped
<1>1. /\ TypeOK /\ j \in Downloads /\ OwnerInv(j) /\ Unlink(j)
      /\ j \in cleanups \/ j \in unlinks
      /\ UNCHANGED <<status, retries, plain>>
  BY ItemFacts DEF Inv, TypeOK, CleanupDone, CancelUnlinked
<1>2. /\ FilesInv(j) /\ SameStatus /\ SameTries
      /\ \/ status[j] = "cancelled"
         \/ status[j] \in {"failed", "pending"} /\ file[j] = "partial"
  BY <1>1 DEF OwnerInv, RemovalsInv, FilesInv, SameStatus, SameTries
<1>3. \/ file' = file
      \/ /\ file' = [file EXCEPT ![j] = "absent"]
         /\ j \in Exclusive => file[j] # "theirs"
  BY <1>1, <1>2, UnlinkedFile
<1> QED BY <1>1, <1>2, <1>3, MapsToNothing, MapsToCleanUp

LEMMA FileAppearsMaps ==
  ASSUME Inv, NEW j \in Jobs, FileAppears(j)
  PROVE  Mapped
<1>1. /\ j \in Downloads /\ SameStatus /\ SameTries /\ plain' = plain
      /\ file[j] = "absent" /\ file' = [file EXCEPT ![j] = "theirs"]
  BY QueueAssumption DEF FileAppears, SameStatus, SameTries, QueueAssumption
<1> QED BY <1>1, MapsToFileAppears

LEMMA NextMaps == Inv /\ [Next]_vars => Mapped
<1> SUFFICES ASSUME Inv, [Next]_vars PROVE Mapped
  OBVIOUS
<1>1. CASE UserStep
  BY <1>1, EnqueueMaps, CancelMaps, RetryMaps, SilentSteps DEF UserStep
<1>2. CASE AcquireStep
  BY <1>2, AcquireMaps
<1>3. ASSUME NEW j \in Jobs, JobStep(j) PROVE Mapped
  BY <1>3, RunMaps, OpenMaps, TransferSucceedsMaps, TransferFailsMaps, SilentSteps,
     FileClosedMaps, SplitUnlinkedMaps, RemovalMaps, FileAppearsMaps DEF JobStep
<1>4. ASSUME NEW u \in RangesOf(Jobs), SegmentEnds(u) PROVE Mapped
  BY <1>4, SegmentMaps
<1>5. CASE (\E u \in Items : BackoffEnds(u)) \/ LoginHoldEnds \/ ProbeWake \/ SlotsChange
  BY <1>5, SilentSteps
<1>6. CASE UNCHANGED vars
  BY <1>6, MapsToNothing DEF vars, SameStatus, SameTries
<1> QED BY <1>1, <1>2, <1>3, <1>4, <1>5, <1>6 DEF Next

(* The queue does what JobLifecycle promises its callers, for any jobs,     *)
(* slots, ranges and retries: every step of the scheduler, the splits and   *)
(* the clean-ups is one step of the life of the jobs and their files, or    *)
(* none that a caller can see.                                             *)
THEOREM LifecycleKept == Spec => KeepsLifecycle
<1>1. Init => Lifecycle!Init
  BY ItemFacts DEF Init, Lifecycle!Init
<1>2. Inv /\ [Next]_vars => [Lifecycle!Next]_(Lifecycle!vars)
  BY NextMaps DEF Mapped
<1> QED BY <1>1, <1>2, QueueInvariance, PTL DEF Spec, KeepsLifecycle, Lifecycle!Spec
=============================================================================
