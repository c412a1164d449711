------------------------------ MODULE RelayLane ------------------------------
(***************************************************************************)
(* Server-to-server copies (src/main/transfer/RelayLane.ts).  A job        *)
(* borrows one client of the queue of each of its two servers, always that *)
(* of the lesser key first, makes the directory of its target, and pipes   *)
(* RETR into STOR.  A failed attempt is repeated from the start; after the *)
(* last one the truncated target is removed.                               *)
(*                                                                         *)
(* Servers are numbers, ordered like their keys.  A queue is its FIFO of   *)
(* borrowers and its clients; its own transfers only delay a grant.        *)
(***************************************************************************)
EXTENDS Integers, Sequences, FiniteSets, SequencesExt, Filtering

CONSTANTS
  RelayJobs,      \* one target path each
  Servers,
  RelaySlots,     \* clients each queue lends
  RelayRetries,   \* MAX_RETRIES
  MaxRelayAgain   \* bound on the user's retries of failed jobs and on the
                  \* replies by which a pool learns its limit, together

ASSUME RelayAssumption ==
  /\ IsFiniteSet(RelayJobs) /\ Servers \subseteq Int
  /\ RelaySlots \in Nat \ {0} /\ RelayRetries \in Nat
  /\ MaxRelayAgain \in Nat

VARIABLES
  maxRunning,
  relayStatus,   \* job.status, "new" before it is enqueued
  route,         \* <<job.sourceServer, job.server>>
  relayAt,       \* where the run() or the timer of each job is
  lane,          \* waiting
  line,          \* jobs in borrow() of the queue of each server
  lent,          \* jobs that hold a client of each server
  relayTries,    \* job.retryCount
  everSent,
  memo,          \* the RelayDirs of each job, named after one of its jobs
  mkd,           \* memo.created of the directory: "none", "asked" or "made"
  cleanups,
  removedFlag,   \* job.partialRemoved
  leftNote,      \* jobs whose error says that the partial file is left
  target,        \* what is at remotePath
  relayAgain     \* of MaxRelayAgain

relayVars == <<maxRunning, relayStatus, route, relayAt, lane, line, lent, relayTries,
               everSent, memo, mkd, cleanups, removedFlag, leftNote, target, relayAgain>>
relayFiles == <<everSent, removedFlag, leftNote, target>>
relayPlan == <<maxRunning, route>>

InAttempt == {"dirs", "broken", "sending"}
InRun == InAttempt \cup {"first", "second"}

(* The lesser of the two keys.                                             *)
FirstKey(r) == IF r[1] <= r[2] THEN r[1] ELSE r[2]
SecondKey(r) == IF FirstKey(r) = r[1] THEN r[2] ELSE r[1]

-----------------------------------------------------------------------------
(* pump(), at the end of a handler that leaves the jobs w waiting, the     *)
(* places a and the borrowers b; r are the routes.                         *)
PumpOn(w, a, b, r) ==
  LET free == maxRunning - Cardinality({j \in RelayJobs : a[j] \in InRun})
      n == IF free <= 0 THEN 0 ELSE IF free < Len(w) THEN free ELSE Len(w)
      started == SubSeq(w, 1, n)
  IN /\ lane' = SubSeq(w, n + 1, Len(w))
     /\ relayAt' = [j \in RelayJobs |-> IF j \in InSeq(started) THEN "first" ELSE a[j]]
     /\ line' = [k \in Servers |->
                   b[k] \o Only(started, {j \in InSeq(started) : FirstKey(r[j]) = k})]
Pump(w, a, b) == PumpOn(w, a, b, route)

Moves(j, place) == [relayAt EXCEPT ![j] = place]
GiveBack(j) == lent' = [k \in Servers |-> lent[k] \ {j}]
OutOfLine(j) == [k \in Servers |-> Only(line[k], RelayJobs \ {j})]
Becomes(j, s) == relayStatus' = [relayStatus EXCEPT ![j] = s]

(* cleanUpPartial(): any attempt of this run counts, not only the last.    *)
Truncated(j) == j \in everSent
CleanUp(j) == cleanups' = IF Truncated(j) THEN cleanups \cup {j} ELSE cleanups

(* The jobs S get a memo of their own.                                     *)
NewMemo(S) ==
  LET new == CHOOSE m \in RelayJobs : \A j \in RelayJobs \ S : memo[j] # m IN
  /\ memo' = [j \in RelayJobs |-> IF j \in S THEN new ELSE memo[j]]
  /\ mkd' = [mkd EXCEPT ![new] = "none"]

(* enqueue(): a batch.                                                     *)
Enqueue(S, r) ==
  /\ S # {} /\ \A j \in S : relayStatus[j] = "new"
  /\ relayStatus' = [j \in RelayJobs |-> IF j \in S THEN "pending" ELSE relayStatus[j]]
  /\ NewMemo(S)
  /\ LET routes == [j \in RelayJobs |-> IF j \in S THEN r ELSE route[j]] IN
       /\ route' = routes
       /\ PumpOn(lane \o SetToSeq(S), relayAt, line, routes)
  /\ UNCHANGED <<maxRunning, lent, relayTries, cleanups, relayFiles, relayAgain>>

-----------------------------------------------------------------------------
(* borrowBoth()                                                            *)

FirstLent(j, k) ==
  /\ relayAt[j] = "first" /\ k = FirstKey(route[j])
  /\ relayAt' = Moves(j, "second")
  /\ line' = [line EXCEPT ![k] = Tail(@), ![SecondKey(route[j])] = Append(@, j)]
  /\ UNCHANGED <<relayStatus, mkd>>

(* Both clients are there: ensureDir(), then relayOnce().  A directory     *)
(* being made by another job of the batch is waited for.                   *)
Made(m) == mkd[m] = "made"

BothLent(j, k) ==
  /\ relayAt[j] = "second" /\ k = SecondKey(route[j])
  /\ Becomes(j, "active")
  /\ line' = [line EXCEPT ![k] = Tail(@)]
  /\ IF Made(memo[j])
     THEN /\ relayAt' = Moves(j, "sending")
          /\ UNCHANGED mkd
     ELSE /\ relayAt' = Moves(j, "dirs")
          /\ mkd' = [mkd EXCEPT ![memo[j]] = "asked"]

Lend(k) ==
  /\ line[k] # <<>> /\ Cardinality(lent[k]) < RelaySlots
  /\ LET j == Head(line[k]) IN
       /\ lent' = [lent EXCEPT ![k] = @ \cup {j}]
       /\ FirstLent(j, k) \/ BothLent(j, k)
  /\ UNCHANGED <<relayPlan, lane, relayTries, memo, cleanups, relayFiles, relayAgain>>

(* retryOrFail(): RETRY_DELAY_MS, or the end.  b are the borrowers left.   *)
RetryOrFail(j, b) ==
  \/ /\ relayTries[j] < RelayRetries
     /\ Becomes(j, "pending")
     /\ relayTries' = [relayTries EXCEPT ![j] = @ + 1]
     /\ Pump(lane, Moves(j, "backoff"), b)
     /\ UNCHANGED cleanups
  \/ /\ Becomes(j, "failed")
     /\ CleanUp(j)
     /\ Pump(lane, Moves(j, "out"), b)
     /\ UNCHANGED relayTries

(* Not connected, a login refused, or a server with a single connection:   *)
(* the last fails without a retry.                                         *)
BorrowFails(j) ==
  /\ relayAt[j] \in {"first", "second"}
  /\ GiveBack(j)
  /\ RetryOrFail(j, OutOfLine(j))
  /\ UNCHANGED <<relayPlan, memo, mkd, relayFiles, relayAgain>>

-----------------------------------------------------------------------------
(* An attempt.                                                             *)

(* Any answer to MKD lets every job that waits for it go on.               *)
MkdAnswered(m) ==
  /\ mkd[m] = "asked"
  /\ mkd' = [mkd EXCEPT ![m] = "made"]
  /\ relayAt' = [j \in RelayJobs |-> IF relayAt[j] = "dirs" /\ memo[j] = m
                                     THEN "sending" ELSE relayAt[j]]
  /\ UNCHANGED <<relayPlan, relayStatus, lane, line, lent, relayTries, memo, cleanups,
                 relayFiles, relayAgain>>

(* The client that sent it is lost: all of them fail, and the next asks    *)
(* again.                                                                  *)
MkdLost(m) ==
  /\ mkd[m] = "asked"
  /\ mkd' = [mkd EXCEPT ![m] = "none"]
  /\ relayAt' = [j \in RelayJobs |-> IF relayAt[j] = "dirs" /\ memo[j] = m
                                     THEN "broken" ELSE relayAt[j]]
  /\ UNCHANGED <<relayPlan, relayStatus, lane, line, lent, relayTries, memo, cleanups,
                 relayFiles, relayAgain>>

(* The first bytes: STOR has truncated what was there.                     *)
Sends(j) ==
  /\ relayAt[j] = "sending" /\ ~(j \in everSent /\ target[j] = "partial")
  /\ everSent' = everSent \cup {j}
  /\ target' = [target EXCEPT ![j] = "partial"]
  /\ UNCHANGED <<relayPlan, relayStatus, relayAt, lane, line, lent, relayTries, memo, mkd,
                 cleanups, removedFlag, leftNote, relayAgain>>

(* Everything has arrived, if only an empty file.  A job cancelled          *)
(* meanwhile removes it again.                                             *)
Relayed(j) ==
  /\ relayAt[j] = "sending"
  /\ target' = [target EXCEPT ![j] = "whole"]
  /\ GiveBack(j)
  /\ IF relayStatus[j] = "cancelled"
     THEN CleanUp(j) /\ UNCHANGED relayStatus
     ELSE Becomes(j, "completed") /\ UNCHANGED cleanups
  /\ Pump(lane, Moves(j, "out"), line)
  /\ UNCHANGED <<relayPlan, relayTries, memo, mkd, everSent, removedFlag, leftNote,
                 relayAgain>>

(* One side failed or the user cancelled: both clients are closed.         *)
AttemptFails(j) ==
  /\ relayAt[j] \in {"sending", "broken"}
  /\ GiveBack(j)
  /\ IF relayStatus[j] = "cancelled"
     THEN /\ CleanUp(j)
          /\ Pump(lane, Moves(j, "out"), line)
          /\ UNCHANGED <<relayStatus, relayTries>>
     ELSE RetryOrFail(j, line)
  /\ UNCHANGED <<relayPlan, memo, mkd, relayFiles, relayAgain>>

(* The pool learnt its limit from the reply: the job is the next to run.   *)
AttemptLearns(j) ==
  /\ relayAt[j] \in {"sending", "broken"} /\ relayStatus[j] = "active"
  /\ relayAgain < MaxRelayAgain
  /\ relayAgain' = relayAgain + 1
  /\ GiveBack(j)
  /\ Becomes(j, "pending")
  /\ Pump(<<j>> \o lane, Moves(j, "out"), line)
  /\ UNCHANGED <<relayPlan, relayTries, memo, mkd, cleanups, relayFiles>>

BackoffOver(j) ==
  /\ relayAt[j] = "backoff"
  /\ Pump(IF relayStatus[j] = "pending" THEN Append(lane, j) ELSE lane, Moves(j, "out"), line)
  /\ UNCHANGED <<relayPlan, relayStatus, lent, relayTries, memo, mkd, cleanups, relayFiles,
                 relayAgain>>

-----------------------------------------------------------------------------
(* The user, and the clean-up.                                             *)

(* A pending job leaves every line it stands in; the run of an active one  *)
(* fails when its clients are closed.                                      *)
CancelRelay(j) ==
  /\ relayStatus[j] \in {"pending", "active"}
  /\ Becomes(j, "cancelled")
  /\ IF relayAt[j] \in {"first", "second"}
     THEN GiveBack(j) /\ Pump(lane, Moves(j, "out"), OutOfLine(j))
     ELSE /\ lane' = Only(lane, RelayJobs \ {j})
          /\ UNCHANGED <<relayAt, line, lent>>
  /\ UNCHANGED <<relayPlan, relayTries, memo, mkd, cleanups, relayFiles, relayAgain>>

(* retry() of the failed jobs S of one batch: with a new memo, after their *)
(* clean-up.  Fault: it does not wait for that.                            *)
NoneHeld(S) == {}
Held(S) == S \cap cleanups

RetryRelay(S) ==
  /\ S # {} /\ relayAgain < MaxRelayAgain
  /\ \A j \in S : relayStatus[j] = "failed" /\ \A i \in S : memo[i] = memo[j]
  /\ NewMemo(S)
  /\ relayAgain' = relayAgain + 1
  /\ relayStatus' = [j \in RelayJobs |-> IF j \in S THEN "pending" ELSE relayStatus[j]]
  /\ relayTries' = [j \in RelayJobs |-> IF j \in S THEN 0 ELSE relayTries[j]]
  /\ everSent' = everSent \ S
  /\ removedFlag' = removedFlag \ S /\ leftNote' = leftNote \ S
  /\ Pump(lane \o SetToSeq(S \ Held(S)),
          [j \in RelayJobs |-> IF j \in Held(S) THEN "held" ELSE relayAt[j]], line)
  /\ UNCHANGED <<relayPlan, lent, cleanups, target>>

(* removePartial(): the file of the job's last attempt is deleted, or not. *)
(* The job is told unless it is on its way again.                          *)
CleanupOver(j, deleted) ==
  /\ j \in cleanups
  /\ cleanups' = cleanups \ {j}
  /\ target' = [target EXCEPT ![j] = IF deleted THEN "absent" ELSE @]
  /\ LET told == relayStatus[j] \in {"failed", "cancelled"} /\ relayAt[j] = "out" IN
       /\ removedFlag' = IF told /\ deleted THEN removedFlag \cup {j} ELSE removedFlag
       /\ leftNote' = IF told /\ ~deleted THEN leftNote \cup {j} ELSE leftNote
  /\ IF relayAt[j] = "held"
     THEN Pump(IF relayStatus[j] = "pending" THEN Append(lane, j) ELSE lane,
               Moves(j, "out"), line)
     ELSE UNCHANGED <<relayAt, lane, line>>
  /\ UNCHANGED <<relayPlan, relayStatus, lent, relayTries, memo, mkd, everSent, relayAgain>>

-----------------------------------------------------------------------------
RelayInit ==
  /\ maxRunning \in 1..2
  /\ relayStatus = [j \in RelayJobs |-> "new"]
  /\ route = [j \in RelayJobs |-> <<>>]
  /\ relayAt = [j \in RelayJobs |-> "out"]
  /\ lane = <<>>
  /\ line = [k \in Servers |-> <<>>]
  /\ lent = [k \in Servers |-> {}]
  /\ relayTries = [j \in RelayJobs |-> 0]
  /\ everSent = {} /\ cleanups = {} /\ removedFlag = {} /\ leftNote = {}
  /\ memo = [j \in RelayJobs |-> j]
  /\ mkd = [j \in RelayJobs |-> "none"]
  /\ target = [j \in RelayJobs |-> "theirs"]
  /\ relayAgain = 0

RelayProgress ==
  \/ \E k \in Servers : Lend(k)
  \/ \E m \in RelayJobs : MkdAnswered(m)
  \/ \E j \in RelayJobs :
       \/ Sends(j) \/ Relayed(j) \/ AttemptFails(j) \/ BackoffOver(j)
       \/ \E deleted \in BOOLEAN : CleanupOver(j, deleted)

RelayNext ==
  \/ RelayProgress
  \/ \E S \in SUBSET RelayJobs :
       \/ \E r \in Servers \X Servers : r[1] # r[2] /\ Enqueue(S, r)
       \/ RetryRelay(S)
  \/ \E m \in RelayJobs : MkdLost(m)
  \/ \E j \in RelayJobs : BorrowFails(j) \/ AttemptLearns(j) \/ CancelRelay(j)

RelaySpec == RelayInit /\ [][RelayNext]_relayVars /\ WF_relayVars(RelayProgress)

-----------------------------------------------------------------------------
RelayTypeOK ==
  /\ relayStatus \in [RelayJobs -> {"new", "pending", "active", "completed", "failed",
                                    "cancelled"}]
  /\ relayAt \in [RelayJobs -> InRun \cup {"out", "backoff", "held"}]
  /\ lane \in Seq(RelayJobs) /\ line \in [Servers -> Seq(RelayJobs)]
  /\ lent \in [Servers -> SUBSET RelayJobs]
  /\ relayTries \in [RelayJobs -> 0..RelayRetries]
  /\ memo \in [RelayJobs -> RelayJobs]
  /\ mkd \in [RelayJobs -> {"none", "asked", "made"}]
  /\ target \in [RelayJobs -> {"theirs", "absent", "partial", "whole"}]
  /\ UNION {everSent, cleanups, removedFlag, leftNote} \subseteq RelayJobs

(* A client is lent exactly while the run of the job needs it, whatever    *)
(* cancels, refusals and failures came between the two borrows.            *)
LeasesMatch ==
  \A j \in RelayJobs, k \in Servers :
    j \in lent[k] <=> \/ relayAt[j] = "second" /\ k = FirstKey(route[j])
                      \/ relayAt[j] \in InAttempt /\ k \in {route[j][1], route[j][2]}

(* A clean-up never runs beside an attempt of its job: it would delete     *)
(* what the attempt sends.                                                 *)
RemovalApart == \A j \in cleanups : relayAt[j] \in {"out", "held"}

(* STOR follows the answer to MKD, whoever of the batch sent it.           *)
DirsFirst == \A j \in RelayJobs : relayAt[j] = "sending" => mkd[memo[j]] = "made"

(* What the job reports is what is on the server: a whole file, a file     *)
(* removed, or one that is said to be left.                                *)
OutcomeHonest ==
  \A j \in RelayJobs :
    /\ relayStatus[j] = "completed" => target[j] = "whole"
    /\ j \in removedFlag => target[j] = "absent"
    /\ relayStatus[j] = "failed" /\ j \in everSent \ cleanups
         => target[j] = "absent" \/ j \in leftNote

RelaySafe == RelayTypeOK /\ LeasesMatch /\ RemovalApart /\ DirsFirst /\ OutcomeHonest

(* Every copy ends: jobs in opposite directions do not wait for each       *)
(* other's clients.                                                        *)
RelayEnds ==
  \A j \in RelayJobs :
    relayStatus[j] = "pending" ~> relayStatus[j] \in {"completed", "failed", "cancelled"}
=============================================================================
