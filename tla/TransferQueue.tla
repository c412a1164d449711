---------------------------- MODULE TransferQueue ----------------------------
(***************************************************************************)
(* The transfer queue of one connection                                    *)
(* (src/main/transfer/TransferQueue.ts): jobs, the FIFO of work items, the *)
(* asynchronous run of each item on a client of the pool, the split of a   *)
(* large download into ranges that share one local file, retries, the      *)
(* hold after refused logins, cancel, retry by the user and the clean-up   *)
(* of partial files.                                                       *)
(*                                                                         *)
(* An item is <<owner, part>>: part 0 is the whole job (or a borrowed      *)
(* slot), 1..Segments are the ranges of a split.  A run() that awaits      *)
(* something is a place of its item; the handlers are the code between two *)
(* awaits.  The pool is seen as the number of slots, which changes at any  *)
(* moment, and the answers of acquire().                                   *)
(*                                                                         *)
(* work holds only items isRunnable() accepts: what nextRunnable() would   *)
(* skip is dropped when it stops being runnable.  A run() that still waits *)
(* for a client on behalf of a range whose split is over is a stray.       *)
(***************************************************************************)
EXTENDS Integers, Sequences, FiniteSets, Filtering

CONSTANTS
  Jobs,             \* transfers, each with a local path of its own
  Batches,          \* the calls of enqueueBatch: sequences of jobs
  Downloads,
  Large,            \* downloads of at least SEGMENT_MIN bytes
  Exclusive,        \* downloads enqueued by the agent: never overwrite
  Locked,           \* downloads whose file cannot be unlinked
  Borrows,          \* calls of borrow() by the relay lane
  Segments,         \* largest number of ranges of one file
  MaxSlots,
  MaxRetries,
  MaxLoginFailures,
  MaxRevivals,      \* bound on the user's calls of retry()
  Clearing          \* whether the user calls clearCompleted()

Owners == Jobs \cup Borrows
RangesOf(S) == (S \cap Large) \X (1..Segments)
Items == (Owners \X {0}) \cup RangesOf(Large)
ItemsOf(j) == {<<j, 0>>} \cup RangesOf({j})

ASSUME QueueAssumption ==
  /\ IsFiniteSet(Jobs) /\ IsFiniteSet(Borrows) /\ Jobs \cap Borrows = {}
  /\ Batches \subseteq Seq(Jobs)
  /\ \A b \in Batches : \A i, k \in 1..Len(b) : b[i] = b[k] => i = k  \* a job per request
  /\ Downloads \subseteq Jobs
  /\ Large \subseteq Downloads /\ Exclusive \subseteq Downloads /\ Locked \subseteq Downloads
  /\ Segments \in Nat /\ Segments >= 2
  /\ MaxSlots \in Nat \ {0}
  /\ MaxRetries \in Nat
  /\ MaxLoginFailures \in Nat \ {0}
  /\ MaxRevivals \in Nat
  /\ Clearing \in BOOLEAN

VARIABLES
  status,       \* job.status; "new" before it is enqueued
  work,         \* items waiting for a slot
  at,           \* where the run() or the retry timer of each item is
  strays,       \* runs still in acquire() for ranges that were dropped
  retries,      \* job.retryCount, segment.retries
  plain,        \* jobs to be received as one stream (item.oneStream)
  onMain,       \* jobs running on the main client: no lease
  failures,     \* loginFailures
  hold,         \* loginHold is set
  slots,        \* pool.slots
  split,        \* the SegmentedDownload of each job
  remaining,    \* ranges of the split not yet received
  sole,         \* splits that are one range [0, size): LAN
  restart,      \* splits that end in a run as one stream
  file,         \* what is at the job's local path
  opened,       \* downloads that opened their file
  created,      \* claim.created of the exclusive downloads
  cleanups,     \* localCleanups: unlink of a failed download in flight
  unlinks,      \* unlink of a cancelled download in flight, not tracked
  reviving,     \* pending again, waits for the clean-up
  reviveLater,  \* retryAfterClose
  cleared,      \* removed from the list by clearCompleted
  revivals

queue    == <<work, at, strays>>
logins   == <<failures, hold>>
splits   == <<split, remaining, sole, restart>>
files    == <<file, opened, created>>
removals == <<cleanups, unlinks>>
user     == <<reviving, reviveLater, cleared, revivals>>
vars == <<status, work, at, strays, retries, plain, onMain, failures, hold, slots, split,
          remaining, sole, restart, file, opened, created, cleanups, unlinks, reviving,
          reviveLater, cleared, revivals>>

RunPlaces == {"asking", "sizing", "opening", "toOpen", "moving", "receiving", "closing", "lent"}
Places == RunPlaces \cup {"none", "backoff"}
Final == {"completed", "failed", "cancelled"}

Lesser(a, b) == IF a <= b THEN a ELSE b
Whole(j) == <<j, 0>>

-----------------------------------------------------------------------------
(* The scheduler.  q stands for work, at and strays inside a handler, which *)
(* may pump more than once.                                                *)

Q == [work |-> work, at |-> at, strays |-> strays]
SetQueue(q) == work' = q.work /\ at' = q.at /\ strays' = q.strays

Put(q, u, p) == [q EXCEPT !.at = [@ EXCEPT ![u] = p]]
PushFront(q, u) == [q EXCEPT !.work = <<u>> \o @]
Push(q, us) == [q EXCEPT !.work = @ \o us]

Running(q) == Cardinality({u \in Items : q.at[u] \in RunPlaces}) + q.strays

(* How many items pump() starts: after a failed login one at a time.       *)
Startable(q) ==
  IF hold' \/ Running(q) >= slots' THEN 0
  ELSE Lesser(Len(q.work), IF failures' > 0 THEN 1 ELSE slots' - Running(q))

Pumped(q) ==
  LET n == Startable(q) IN
  [q EXCEPT !.work = SubSeq(q.work, n + 1, Len(q.work)),
            !.at = [u \in Items |-> IF \E i \in 1..n : q.work[i] = u THEN "asking" ELSE q.at[u]]]

(* finishRun() of item u.                                                  *)
Finished(q, u) == Pumped(Put(q, u, "none"))

Receiving(a, j) == \E u \in RangesOf({j}) : a[u] = "receiving"

(* Where a range is dropped with its split.  Fault: its timer is forgotten. *)
DroppedRuns == {"asking"}
DroppedPlaces == {"asking", "backoff"}

(* stopSegmented() for the jobs S: the ranges not being received are gone. *)
Stopped(q, S) ==
  [work |-> Only(q.work, Items \ RangesOf(S)),
   at |-> [u \in Items |-> IF u \in RangesOf(S) /\ q.at[u] \in DroppedPlaces
                           THEN "none" ELSE q.at[u]],
   strays |-> q.strays + Cardinality({u \in RangesOf(S) : q.at[u] = "asking"})]

StoppedSplit(q, S) ==
  [j \in Jobs |-> IF j \notin S THEN split[j]
                  ELSE IF Receiving(q.at, j) THEN "stopped" ELSE "closing"]

Waiting == InSeq(work)

(* The ranges of a split still to be received.                             *)
LiveRanges(j) ==
  {u \in RangesOf({j}) : u \in Waiting \/ at[u] \in {"asking", "receiving", "backoff"}}

(* Every item in work is runnable; one that waits for a client may not be. *)
Runnable(u) == u[2] > 0 \/ status[u[1]] = "pending"

-----------------------------------------------------------------------------
(* Calls from the user and the relay lane.                                 *)

Items0(s) == [i \in 1..Len(s) |-> Whole(s[i])]

EnqueueBatch(b) ==
  /\ \A j \in InSeq(b) : status[j] = "new"
  /\ status' = [j \in Owners |-> IF j \in InSeq(b) THEN "pending" ELSE status[j]]
  /\ UNCHANGED <<logins, slots>>
  /\ SetQueue(Pumped(Push(Q, Items0(b))))
  /\ UNCHANGED <<retries, plain, onMain, splits, files, removals, user>>

(* A waiting item is dropped; a run that waits for a client finds out.     *)
CancelPending(j) ==
  /\ status[j] = "pending"
  /\ status' = [status EXCEPT ![j] = "cancelled"]
  /\ work' = Only(work, Items \ {Whole(j)})
  /\ reviving' = reviving \ {j}
  /\ UNCHANGED <<at, strays, split>>

(* Closing the clients makes the transfers fail; jobs on the main client   *)
(* cannot be stopped.                                                      *)
CancelActive(j) ==
  /\ status[j] = "active"
  /\ split[j] # "none" \/ j \notin onMain
  /\ status' = [status EXCEPT ![j] = "cancelled"]
  /\ IF split[j] = "open"
     THEN SetQueue(Stopped(Q, {j})) /\ split' = StoppedSplit(Q, {j})
     ELSE UNCHANGED <<queue, split>>
  /\ UNCHANGED reviving

Cancel(j) ==
  /\ CancelPending(j) \/ CancelActive(j)
  /\ UNCHANGED <<retries, plain, onMain, logins, slots, remaining, sole, restart, files,
                 removals, reviveLater, cleared, revivals>>

(* retry() of one job that is not held back by a split or a clean-up: the   *)
(* fields are reset and a new item is queued.                              *)
Reset(S) ==
  /\ status' = [j \in Owners |-> IF j \in S THEN "pending" ELSE status[j]]
  /\ retries' = [u \in Items |-> IF u[1] \in S THEN 0 ELSE retries[u]]
  /\ plain' = plain \ S

(* A retried job whose clean-up is still under way waits for it.           *)
(* Fault: it does not wait.                                                *)
NeverHeldBack == {}
HeldBack == cleanups

(* The user retries failed jobs, in the order s.                           *)
Retry(s) ==
  LET ids == {j \in InSeq(s) : status[j] = "failed" /\ j \notin cleared}
      now == {j \in ids : split[j] = "none"}
  IN
  /\ ids # {}
  /\ revivals < MaxRevivals
  /\ revivals' = revivals + 1
  /\ reviveLater' = reviveLater \cup (ids \ now)
  /\ Reset(now)
  /\ reviving' = reviving \cup (now \cap HeldBack)
  /\ UNCHANGED <<logins, slots>>
  /\ SetQueue(Pumped(Push(Q, Items0(Only(s, now \ HeldBack)))))
  /\ UNCHANGED <<onMain, splits, files, removals, cleared>>

(* A batch of more than one job is kept while one of its jobs is unfinished. *)
KeptByBatch(j) ==
  \E b \in Batches : /\ Len(b) > 1 /\ j \in InSeq(b)
                     /\ \E i \in InSeq(b) : status[i] \in {"pending", "active"}

ClearCompleted ==
  LET gone == {j \in Jobs \ cleared : status[j] \in Final /\ ~KeptByBatch(j)} IN
  /\ Clearing /\ gone # {}
  /\ cleared' = cleared \cup gone
  /\ UNCHANGED <<status, queue, retries, plain, onMain, logins, slots, splits, files, removals,
                 reviving, reviveLater, revivals>>

Borrow(b) ==
  /\ status[b] = "new"
  /\ status' = [status EXCEPT ![b] = "pending"]
  /\ UNCHANGED <<logins, slots>>
  /\ SetQueue(Pumped(Push(Q, <<Whole(b)>>)))
  /\ UNCHANGED <<retries, plain, onMain, splits, files, removals, user>>

AbortBorrow(b) ==
  /\ status[b] = "pending"
  /\ status' = [status EXCEPT ![b] = "cancelled"]
  /\ work' = Only(work, Items \ {Whole(b)})
  /\ UNCHANGED <<at, strays, retries, plain, onMain, logins, slots, splits, files, removals, user>>

(* done() of a lent client: release, discard or the limit reply learnt.    *)
BorrowDone(b) ==
  /\ at[Whole(b)] = "lent"
  /\ status' = [status EXCEPT ![b] = "completed"]
  /\ UNCHANGED <<logins, slots>>
  /\ SetQueue(Finished(Q, Whole(b)))
  /\ UNCHANGED <<retries, plain, onMain, splits, files, removals, user>>

-----------------------------------------------------------------------------
(* acquire() answers.                                                      *)

(* The item goes back to the front unless it was cancelled meanwhile.      *)
(* Fault: it goes back in any case.                                        *)
ReturnedAnyway(u) == PushFront(Put(Q, u, "none"), u)
Returned(u) ==
  IF Runnable(u) THEN PushFront(Put(Q, u, "none"), u) ELSE Put(Q, u, "none")
StrayLeft == [Q EXCEPT !.strays = strays - 1]

(* Who is failed, and whose file removed, by failPending().  Fault: what    *)
(* earlier attempts received stays.                                        *)
FailedOwners(owners) == owners
KeptPartials(owners) == {}
OpenedBy(owners) == owners \cap opened

(* failPending(): every waiting item fails with the one error.             *)
FailPending(q) ==
  LET wholes == {u[1] : u \in {w \in InSeq(q.work) : w[2] = 0}}
      torn == {u[1] : u \in {w \in InSeq(q.work) : w[2] > 0}}
      rest == [q EXCEPT !.work = <<>>]
  IN
  /\ status' = [j \in Owners |-> IF j \in FailedOwners(wholes \cup torn) THEN "failed" ELSE status[j]]
  /\ cleanups' = cleanups \cup OpenedBy(wholes)
  /\ split' = StoppedSplit(rest, torn)
  /\ SetQueue(Pumped(Stopped(rest, torn)))

LastRound == failures + 1 >= MaxLoginFailures

(* onLoginFailure() and finishRun(); q has the item back in work.          *)
LoginFails(q) ==
  /\ UNCHANGED slots
  /\ \/ /\ hold
        /\ UNCHANGED <<logins, status, cleanups, split>>
        /\ SetQueue(Pumped(q))
     \/ /\ ~hold /\ ~LastRound
        /\ failures' = failures + 1 /\ hold' = TRUE
        /\ UNCHANGED <<status, cleanups, split>>
        /\ SetQueue(Pumped(q))
     \/ /\ ~hold /\ LastRound
        /\ failures' = 0
        /\ UNCHANGED hold
        /\ FailPending(q)
  /\ UNCHANGED <<retries, plain, onMain, remaining, sole, restart, files, unlinks, user>>

AcquireFails(u) == at[u] = "asking" /\ LoginFails(Returned(u))

(* LIMIT: whoever runs pumps when it ends; if nobody does, try again.      *)
(* Fault: wait for the others in any case.                                 *)
NeverAlone(q) == FALSE
Alone(q) == Running(q) = 0

Limited(q) ==
  /\ UNCHANGED <<logins, slots>>
  /\ SetQueue(IF Alone(q) THEN Pumped(q) ELSE q)
  /\ UNCHANGED <<status, retries, plain, onMain, splits, files, removals, user>>

AcquireLimited(u) == at[u] = "asking" /\ Limited(Returned(u))

(* A fresh login, or the main client, ends the hold.                       *)
LoginWorks(fresh) ==
  /\ failures' = IF fresh THEN 0 ELSE failures
  /\ hold' = (hold /\ ~fresh)
  /\ UNCHANGED slots

(* A borrower that gave up, or is offered the main client, leaves by        *)
(* finishRun().                                                            *)
NotLent(q, u) == Finished(q, u)

(* lend(): a client for the relay lane; the main client is refused.        *)
GrantBorrow(b, main) ==
  LET u == Whole(b) IN
  /\ at[u] = "asking"
  /\ IF status[b] = "pending" /\ ~main
     THEN /\ status' = [status EXCEPT ![b] = "active"]
          /\ SetQueue(Put(Pumped(Q), u, "lent"))
     ELSE /\ status' = [status EXCEPT ![b] = IF @ = "pending" THEN "completed" ELSE @]
          /\ SetQueue(NotLent(Pumped(Q), u))
  /\ UNCHANGED <<retries, plain, onMain, splits, files, removals, user>>

(* runSegment() begins; on the main client REST is not possible.           *)
GrantRange(u, main) ==
  /\ at[u] = "asking" /\ u[2] > 0
  /\ IF ~main
     THEN /\ SetQueue(Put(Pumped(Q), u, "receiving"))
          /\ UNCHANGED <<split, restart>>
     ELSE LET q == Put(Pumped(Q), u, "none") IN
          /\ split' = StoppedSplit(q, {u[1]})
          /\ restart' = restart \cup {u[1]}
          /\ SetQueue(Pumped(Stopped(q, {u[1]})))
  /\ UNCHANGED <<status, retries, plain, onMain, remaining, sole, files, removals, user>>

(* The first await of a job that got a client: SIZE if it may be split     *)
(* (the pool's limit and segmentedBroken decide), else its transfer.       *)
FirstPlaces(j, main) ==
  IF j \notin Downloads THEN {"moving"}
  ELSE IF main \/ j \notin Large \/ j \in plain THEN {"toOpen"}
  ELSE {"sizing", "toOpen"}

GrantJob(j, main) ==
  LET u == Whole(j) IN
  /\ at[u] = "asking"
  /\ IF status[j] = "pending"
     THEN /\ status' = [status EXCEPT ![j] = "active"]
          /\ onMain' = IF main THEN onMain \cup {j} ELSE onMain
          /\ \E p \in FirstPlaces(j, main) : SetQueue(Put(Pumped(Q), u, p))
     ELSE /\ SetQueue(Finished(Pumped(Q), u))
          /\ UNCHANGED <<status, onMain>>
  /\ UNCHANGED <<retries, plain, splits, files, removals, user>>

GrantStray ==
  /\ strays > 0
  /\ SetQueue(Pumped([Pumped(Q) EXCEPT !.strays = @ - 1]))
  /\ UNCHANGED <<status, retries, plain, onMain, splits, files, removals, user>>

AcquireGrants(u) ==
  \E fresh, main \in BOOLEAN :
    /\ main => fresh
    /\ LoginWorks(fresh)
    /\ \/ u[1] \in Borrows /\ GrantBorrow(u[1], main)
       \/ GrantRange(u, main)
       \/ u[1] \in Jobs /\ u[2] = 0 /\ GrantJob(u[1], main)

StrayAnswered ==
  /\ strays > 0
  /\ \/ LoginFails(StrayLeft)
     \/ Limited(StrayLeft)
     \/ \E fresh \in BOOLEAN : LoginWorks(fresh) /\ GrantStray

-----------------------------------------------------------------------------
(* The local file.                                                         *)

(* An exclusive download opens with 'wx' until the file is its own.        *)
MayOpen(j) == j \in Exclusive \ created => file[j] = "absent"

(* Opened with 'w' or 'wx', which truncates it.                            *)
OpenFile(j) ==
  /\ MayOpen(j)
  /\ file' = [file EXCEPT ![j] = "partial"]
  /\ opened' = opened \cup {j}
  /\ created' = created \cup ({j} \cap Exclusive)

(* removePartial(): an exclusive download removes only its own file.       *)
Unlink(j) ==
  IF j \in Locked \/ j \in Exclusive \ created
  THEN UNCHANGED files
  ELSE /\ file' = [file EXCEPT ![j] = "absent"]
       /\ opened' = opened \ {j}
       /\ created' = IF file[j] = "absent" THEN created ELSE created \ {j}

(* downloadToFile() failed before a byte arrived: it removes the file.     *)
RemoveEmpty(j) ==
  /\ j \in Downloads \ Locked /\ file[j] = "partial"
  /\ file' = [file EXCEPT ![j] = "absent"]
  /\ opened' = opened \ {j}
  /\ created' = created \ {j}

-----------------------------------------------------------------------------
(* How run() of a whole job ends.  status says whether it was cancelled.   *)

(* Fault: a cancel during the last bytes is overlooked.                    *)
AnyEnd(j) == TRUE
NotCancelled(j) == status[j] = "active"

Complete(j) ==
  /\ NotCancelled(j)
  /\ status' = [status EXCEPT ![j] = "completed"]
  /\ SetQueue(Finished(Q, Whole(j)))
  /\ UNCHANGED <<retries, removals>>

(* A fast upload the server may not accept, or a limit reply the pool      *)
(* learnt from: back to the front, no retry is counted.                    *)
Requeue(j) ==
  /\ status[j] = "active" /\ j \notin onMain
  /\ status' = [status EXCEPT ![j] = "pending"]
  /\ SetQueue(Pumped(PushFront(Put(Q, Whole(j), "none"), Whole(j))))
  /\ UNCHANGED <<retries, removals>>

(* Fault: the attempt is not counted.                                      *)
SameAttempt(n) == n
NextAttempt(n) == n + 1

RetryLater(j) ==
  /\ status[j] = "active"
  /\ retries[Whole(j)] < MaxRetries
  /\ retries' = [retries EXCEPT ![Whole(j)] = NextAttempt(@)]
  /\ status' = [status EXCEPT ![j] = "pending"]
  /\ SetQueue(Pumped(Put(Q, Whole(j), "backoff")))
  /\ UNCHANGED removals

(* cleanUpLocal(): only a file this job opened is removed.                 *)
Fail(j) ==
  /\ status[j] = "active"
  /\ status' = [status EXCEPT ![j] = "failed"]
  /\ cleanups' = IF j \in opened' THEN cleanups \cup {j} ELSE cleanups
  /\ SetQueue(Finished(Q, Whole(j)))
  /\ UNCHANGED <<retries, unlinks>>

(* A cancelled download removes its file, opened or not.                   *)
EndCancelled(j) ==
  /\ status[j] = "cancelled"
  /\ unlinks' = unlinks \cup ({j} \cap Downloads)
  /\ SetQueue(Finished(Q, Whole(j)))
  /\ UNCHANGED <<status, retries, cleanups>>

RunEnds(j) ==
  /\ onMain' = onMain \ {j}
  /\ UNCHANGED <<plain, logins, slots, splits, user>>

(* SIZE answers: split the file, or receive it as one stream; a cancel has *)
(* closed the client.                                                      *)
SizeAnswers(j) ==
  /\ at[Whole(j)] = "sizing"
  /\ \/ /\ at' = [at EXCEPT ![Whole(j)] = "opening"]
        /\ UNCHANGED <<status, work, strays, retries, plain, onMain, logins, slots, splits, removals, user>>
     \/ /\ at' = [at EXCEPT ![Whole(j)] = "toOpen"]
        /\ UNCHANGED <<status, work, strays, retries, plain, onMain, logins, slots, splits, removals, user>>
     \/ RunEnds(j) /\ EndCancelled(j)
  /\ UNCHANGED files

(* The open of the local file fails, or the main client refuses the task.  *)
OpenFails(j) ==
  /\ at[Whole(j)] \in {"opening", "toOpen"}
  /\ RunEnds(j)
  /\ UNCHANGED files
  /\ RetryLater(j) \/ Fail(j) \/ EndCancelled(j)

OpenOneStream(j) ==
  /\ at[Whole(j)] = "toOpen"
  /\ OpenFile(j)
  /\ at' = [at EXCEPT ![Whole(j)] = "moving"]
  /\ UNCHANGED <<status, work, strays, retries, plain, onMain, logins, slots, splits, removals, user>>

(* The head range goes on with the run's client; the others go to the      *)
(* front of the queue.  On a LAN there is one range, [0, size).            *)
SplitInto(j, n, head) ==
  /\ split' = [split EXCEPT ![j] = "open"]
  /\ remaining' = [remaining EXCEPT ![j] = n]
  /\ sole' = IF n = 1 THEN sole \cup {j} ELSE sole
  /\ retries' = [u \in Items |-> IF u \in RangesOf({j}) THEN 0 ELSE retries[u]]
  /\ LET q == Put(Put(Q, Whole(j), "none"), head, "receiving")
         front == [k \in 1..n - 1 |-> <<j, k>>]
     IN SetQueue(Pumped([q EXCEPT !.work = front \o @]))

OpenForSplit(j) ==
  /\ at[Whole(j)] = "opening"
  /\ OpenFile(j)
  /\ UNCHANGED <<plain, onMain, logins, slots, restart, user>>
  /\ \/ /\ status[j] = "active"
        /\ \E n \in 1..Segments : SplitInto(j, n, <<j, n>>)
        /\ UNCHANGED <<status, removals>>
     \/ /\ RetryLater(j) \/ Fail(j) \/ EndCancelled(j)
        /\ UNCHANGED <<split, remaining, sole>>

TransferSucceeds(j) ==
  /\ at[Whole(j)] = "moving"
  /\ RunEnds(j)
  /\ file' = IF j \in Downloads THEN [file EXCEPT ![j] = "whole"] ELSE file
  /\ UNCHANGED <<opened, created>>
  /\ Complete(j) \/ EndCancelled(j)

TransferFails(j) ==
  /\ at[Whole(j)] = "moving"
  /\ RunEnds(j)
  /\ UNCHANGED files \/ RemoveEmpty(j)
  /\ RetryLater(j) \/ Fail(j) \/ EndCancelled(j)

TransferRequeued(j) ==
  /\ at[Whole(j)] = "moving"
  /\ RunEnds(j)
  /\ UNCHANGED files \/ RemoveEmpty(j)
  /\ Requeue(j)

-----------------------------------------------------------------------------
(* The ranges of a split.                                                  *)

(* probeStream(): the one stream of a LAN download is slow, the rest of    *)
(* the file is split and the stream ends with the first piece.             *)
PiecesAdded(n) == n - 1

ProbeSplit(j) ==
  /\ j \in sole /\ split[j] = "open" /\ at[<<j, 1>>] = "receiving"
  /\ sole' = sole \ {j}
  /\ UNCHANGED <<logins, slots>>
  /\ \E n \in 2..Segments :
       /\ remaining' = [remaining EXCEPT ![j] = @ + PiecesAdded(n)]
       /\ SetQueue(Pumped([Q EXCEPT !.work = [k \in 1..n - 1 |-> <<j, k + 1>>] \o @]))
  /\ UNCHANGED <<status, retries, plain, onMain, split, restart, files, removals, user>>

(* settleSegment() of a range received in full.  The run of the last one   *)
(* waits until the file is closed.                                         *)
RangeDone(u) ==
  LET j == u[1] IN
  /\ remaining' = [remaining EXCEPT ![j] = @ - 1]
  /\ IF remaining[j] = 1
     THEN SetQueue(Put(Q, u, "closing")) /\ split' = [split EXCEPT ![j] = "complete"]
     ELSE SetQueue(Finished(Q, u)) /\ UNCHANGED split
  /\ UNCHANGED <<status, retries, restart>>

StopFrom(u) ==
  LET q == Put(Q, u, "none") IN
  /\ split' = StoppedSplit(q, {u[1]})
  /\ SetQueue(Pumped(Stopped(q, {u[1]})))
  /\ UNCHANGED <<remaining, retries>>

(* The server ignores or refuses REST: receive the file as one stream.     *)
(* Only a range with an offset or the one that is to reach the end can tell. *)
RestRefused(u) ==
  /\ u[2] > 1 \/ u[1] \in sole
  /\ restart' = restart \cup {u[1]}
  /\ StopFrom(u)
  /\ UNCHANGED status

RangeRetried(u) ==
  /\ retries[u] < MaxRetries
  /\ retries' = [retries EXCEPT ![u] = NextAttempt(@)]
  /\ SetQueue(Pumped(Put(Q, u, "backoff")))
  /\ UNCHANGED <<status, split, remaining, restart>>

RangeFailed(u) ==
  /\ status' = [status EXCEPT ![u[1]] = "failed"]
  /\ StopFrom(u)
  /\ UNCHANGED restart

(* The split was stopped meanwhile; the last range closes the file.        *)
RangeStopped(u) ==
  LET q == Put(Q, u, "none") IN
  /\ IF Receiving(q.at, u[1])
     THEN SetQueue(Finished(Q, u)) /\ UNCHANGED split
     ELSE SetQueue(Put(Q, u, "closing")) /\ split' = [split EXCEPT ![u[1]] = "closing"]
  /\ UNCHANGED <<status, retries, remaining, restart>>

SegmentEnds(u) ==
  /\ at[u] = "receiving"
  /\ UNCHANGED <<logins, slots>>
  /\ \/ split[u[1]] = "open" /\ (RangeDone(u) \/ RestRefused(u) \/ RangeRetried(u) \/ RangeFailed(u))
     \/ split[u[1]] = "stopped" /\ RangeStopped(u)
  /\ UNCHANGED <<plain, onMain, sole, files, removals, user>>

(* finishRun() of the run that waited for closeSegmented(), if there is one. *)
CloserLeaves(q, j) ==
  IF \A u \in RangesOf({j}) : q.at[u] # "closing" THEN q
  ELSE Pumped([q EXCEPT !.at =
         [u \in Items |-> IF u \in RangesOf({j}) /\ @[u] = "closing" THEN "none" ELSE @[u]]])

SplitOver(j) ==
  /\ split' = [split EXCEPT ![j] = "none"]
  /\ remaining' = [remaining EXCEPT ![j] = 0]
  /\ sole' = sole \ {j}
  /\ restart' = restart \ {j}

(* The removal of the file of a failed split begins.  Fault: the split is  *)
(* forgotten before the file is gone.                                      *)
ForgetSplit(j) ==
  /\ SplitOver(j)
  /\ unlinks' = unlinks \cup {j}
  /\ SetQueue(CloserLeaves(Q, j))
UnlinkFirst(j) ==
  /\ split' = [split EXCEPT ![j] = "unlinking"]
  /\ UNCHANGED <<queue, remaining, sole, restart, unlinks>>

(* closeSegmented(), once the file is closed.  The bytes written add up to  *)
(* the size when every range was received: the ranges cover the file.      *)
FileClosed(j) ==
  /\ split[j] \in {"closing", "complete"}
  /\ UNCHANGED <<onMain, logins, slots, opened, created, cleanups, user>>
  /\ \/ /\ status[j] = "cancelled"
        /\ SplitOver(j)
        /\ unlinks' = unlinks \cup {j}
        /\ SetQueue(CloserLeaves(Q, j))
        /\ UNCHANGED <<status, retries, plain, file>>
     \/ /\ status[j] = "active" /\ split[j] = "complete"
        /\ SplitOver(j)
        /\ status' = [status EXCEPT ![j] = "completed"]
        /\ file' = [file EXCEPT ![j] = IF LiveRanges(j) = {} THEN "whole" ELSE @]
        /\ SetQueue(CloserLeaves(Q, j))
        /\ UNCHANGED <<retries, plain, unlinks>>
     \/ /\ status[j] = "failed" /\ split[j] = "closing"
        /\ UnlinkFirst(j)
        /\ UNCHANGED <<status, retries, plain, file>>
     \/ /\ status[j] = "active" /\ split[j] = "closing" /\ j \in restart
        /\ SplitOver(j)
        /\ status' = [status EXCEPT ![j] = "pending"]
        /\ retries' = [retries EXCEPT ![Whole(j)] = 0]
        /\ plain' = plain \cup {j}
        /\ SetQueue(CloserLeaves(Pumped(PushFront(Q, Whole(j))), j))
        /\ UNCHANGED <<file, unlinks>>

(* Fault: a retry that came while the split was closing is forgotten.      *)
NotRevived(j) == FALSE
ToRevive(j) == j \in reviveLater \ cleared

(* The partial file of a failed split is gone; a retry that came meanwhile *)
(* starts now.                                                             *)
SplitUnlinked(j) ==
  /\ split[j] = "unlinking"
  /\ Unlink(j)
  /\ SplitOver(j)
  /\ UNCHANGED <<logins, slots>>
  /\ reviveLater' = reviveLater \ {j}
  /\ IF ToRevive(j)
     THEN /\ Reset({j})
          /\ SetQueue(CloserLeaves(Pumped(Push(Q, <<Whole(j)>>)), j))
     ELSE /\ SetQueue(CloserLeaves(IF j \in reviveLater THEN Pumped(Q) ELSE Q, j))
          /\ UNCHANGED <<status, retries, plain>>
  /\ UNCHANGED <<onMain, removals, reviving, cleared, revivals>>

-----------------------------------------------------------------------------
(* Clean-up of one-stream downloads, timers, the pool.                     *)

Revived(j) == IF j \in reviving THEN Pumped(Push(Q, <<Whole(j)>>)) ELSE Q

CleanupDone(j) ==
  /\ j \in cleanups
  /\ Unlink(j)
  /\ cleanups' = cleanups \ {j}
  /\ reviving' = reviving \ {j}
  /\ UNCHANGED <<logins, slots>>
  /\ SetQueue(Revived(j))
  /\ UNCHANGED <<status, retries, plain, onMain, splits, unlinks, reviveLater, cleared, revivals>>

CancelUnlinked(j) ==
  /\ j \in unlinks
  /\ Unlink(j)
  /\ unlinks' = unlinks \ {j}
  /\ UNCHANGED <<status, queue, retries, plain, onMain, logins, slots, splits, cleanups, user>>

(* The timer of a retry; that of a dropped range only pumps (ProbeWake).   *)
BackoffEnds(u) ==
  /\ at[u] = "backoff"
  /\ UNCHANGED <<logins, slots>>
  /\ LET q == Put(Q, u, "none") IN
       SetQueue(Pumped(IF Runnable(u) THEN Push(q, <<u>>) ELSE q))
  /\ UNCHANGED <<status, retries, plain, onMain, splits, files, removals, user>>

LoginHoldEnds ==
  /\ hold
  /\ hold' = FALSE
  /\ UNCHANGED <<failures, slots>>
  /\ SetQueue(Pumped(Q))
  /\ UNCHANGED <<status, retries, plain, onMain, splits, files, removals, user>>

(* The pool may try a login again: the timer of wakeForProbe().            *)
ProbeWake ==
  /\ work # <<>> /\ Running(Q) > 0
  /\ UNCHANGED <<logins, slots>>
  /\ SetQueue(Pumped(Q))
  /\ UNCHANGED <<status, retries, plain, onMain, splits, files, removals, user>>

(* The pool learns, forgets and probes; slots is never below one.          *)
SlotsChange ==
  /\ slots' \in (1..MaxSlots) \ {slots}
  /\ UNCHANGED <<status, queue, retries, plain, onMain, logins, splits, files, removals, user>>

(* Somebody else puts a file where an exclusive download is to go.         *)
FileAppears(j) ==
  /\ j \in Exclusive
  /\ file[j] = "absent"
  /\ file' = [file EXCEPT ![j] = "theirs"]
  /\ UNCHANGED <<status, queue, retries, plain, onMain, logins, slots, splits, opened, created,
                 removals, user>>

-----------------------------------------------------------------------------
Init ==
  /\ status = [j \in Owners |-> "new"]
  /\ work = <<>> /\ at = [u \in Items |-> "none"] /\ strays = 0
  /\ retries = [u \in Items |-> 0]
  /\ plain = {} /\ onMain = {}
  /\ failures = 0 /\ hold = FALSE
  /\ slots = MaxSlots
  /\ split = [j \in Jobs |-> "none"] /\ remaining = [j \in Jobs |-> 0]
  /\ sole = {} /\ restart = {}
  /\ file \in [Downloads -> {"absent", "theirs"}]
  /\ opened = {} /\ created = {}
  /\ cleanups = {} /\ unlinks = {}
  /\ reviving = {} /\ reviveLater = {} /\ cleared = {}
  /\ revivals = 0

(* The orders in which the user may list jobs to retry.                    *)
Orders == {s \in UNION {[1..n -> Jobs] : n \in 1..Cardinality(Jobs)} :
             \A i, k \in DOMAIN s : s[i] = s[k] => i = k}

UserStep ==
  \/ \E b \in Batches : EnqueueBatch(b)
  \/ \E j \in Jobs : Cancel(j)
  \/ \E s \in Orders : Retry(s)
  \/ ClearCompleted
  \/ \E b \in Borrows : Borrow(b) \/ AbortBorrow(b) \/ BorrowDone(b)

AcquireStep ==
  \/ \E u \in Items : AcquireFails(u) \/ AcquireLimited(u) \/ AcquireGrants(u)
  \/ StrayAnswered

JobStep(j) ==
  \/ SizeAnswers(j) \/ OpenFails(j) \/ OpenOneStream(j) \/ OpenForSplit(j)
  \/ TransferSucceeds(j) \/ TransferFails(j) \/ TransferRequeued(j) \/ ProbeSplit(j)
  \/ FileClosed(j) \/ SplitUnlinked(j) \/ CleanupDone(j) \/ CancelUnlinked(j)
  \/ FileAppears(j)

Next ==
  \/ UserStep
  \/ AcquireStep
  \/ \E j \in Jobs : JobStep(j)
  \/ \E u \in RangesOf(Jobs) : SegmentEnds(u)
  \/ \E u \in Items : BackoffEnds(u)
  \/ LoginHoldEnds \/ ProbeWake \/ SlotsChange

Spec == Init /\ [][Next]_vars

(* Every await of the queue ends and its timers fire; a borrowed client is  *)
(* given back.  LIMIT and replies the pool learns from do not go on for     *)
(* ever: each needs another connection of the pool (TS9), and the pool      *)
(* lowers its limit towards one.                                           *)
Fairness ==
  /\ \A u \in Items : SF_vars(AcquireGrants(u) \/ AcquireFails(u)) /\ WF_vars(BackoffEnds(u))
  /\ WF_vars(StrayAnswered) /\ WF_vars(LoginHoldEnds)
  /\ \A u \in RangesOf(Jobs) : WF_vars(SegmentEnds(u))
  /\ \A b \in Borrows : WF_vars(BorrowDone(b))
  /\ \A j \in Jobs :
       /\ WF_vars(SizeAnswers(j))
       /\ WF_vars(OpenFails(j) \/ OpenOneStream(j) \/ OpenForSplit(j))
       /\ SF_vars(TransferSucceeds(j) \/ TransferFails(j))
       /\ WF_vars(FileClosed(j)) /\ WF_vars(SplitUnlinked(j))
       /\ WF_vars(CleanupDone(j)) /\ WF_vars(CancelUnlinked(j))

FairSpec == Spec /\ Fairness

-----------------------------------------------------------------------------
TypeOK ==
  /\ status \in [Owners -> Final \cup {"new", "pending", "active"}]
  /\ work \in Seq(Items)
  /\ at \in [Items -> Places]
  /\ strays \in Nat
  /\ retries \in [Items -> 0..MaxRetries]
  /\ plain \in SUBSET Downloads /\ onMain \in SUBSET Jobs
  /\ failures \in 0..MaxLoginFailures - 1 /\ hold \in BOOLEAN
  /\ slots \in 1..MaxSlots
  /\ split \in [Jobs -> {"none", "open", "stopped", "complete", "closing", "unlinking"}]
  /\ remaining \in [Jobs -> 0..Segments]
  /\ sole \in SUBSET Large /\ restart \in SUBSET Large
  /\ file \in [Downloads -> {"absent", "theirs", "partial", "whole"}]
  /\ opened \in SUBSET Downloads /\ created \in SUBSET Exclusive
  /\ cleanups \in SUBSET Downloads /\ unlinks \in SUBSET Downloads
  /\ reviving \in SUBSET Jobs /\ reviveLater \in SUBSET Large /\ cleared \in SUBSET Jobs
  /\ revivals \in 0..MaxRevivals

InRun(u) == at[u] \in RunPlaces
Live(u) == u \in Waiting \/ at[u] # "none"

(* Work that could run is never left with nobody to pump: something runs,   *)
(* whose end pumps, or the timer of the login hold is set.                  *)
NoStall == work # <<>> /\ ~hold => Running(Q) > 0

(* A job is never tried twice at a time: no item is queued twice or queued  *)
(* while it runs or waits for its retry, and a job has its whole item, its  *)
(* ranges or a retry that waits for the clean-up, never two of them; what   *)
(* the rounds count keeps its type, so no retry goes past its limit.        *)
OneAttempt ==
  /\ TypeOK
  /\ \A i, k \in 1..Len(work) : work[i] = work[k] => i = k
  /\ \A u \in Waiting : at[u] = "none" /\ Runnable(u)
  /\ \A j \in Jobs : Live(Whole(j)) => split[j] = "none" /\ j \notin reviving

(* A pending job always has somebody who will start it: its item waits, or  *)
(* asks for a client, or its retry timer or clean-up is under way.          *)
PendingIsScheduled ==
  \A o \in Owners : status[o] = "pending" =>
    \/ <<o, 0>> \in Waiting \/ at[<<o, 0>>] \in {"asking", "backoff"}
    \/ o \in reviving \cap cleanups

(* Whatever happens to other work, none is left behind.                    *)
NothingForgotten == NoStall /\ PendingIsScheduled

(* The ranges still to be received are exactly those that wait, run or will *)
(* be retried, so an open split ends, and ends only when the file is full.  *)
RangesTracked ==
  \A j \in Jobs :
    /\ split[j] = "open" => remaining[j] = Cardinality(LiveRanges(j)) /\ remaining[j] > 0
    /\ split[j] = "stopped" => Receiving(at, j)
    /\ split[j] \in {"none", "complete", "closing", "unlinking"} => LiveRanges(j) = {}

(* The file of a completed download is whole and nobody will remove it.     *)
CompletedIntact ==
  \A j \in Downloads : status[j] = "completed" =>
    file[j] = "whole" /\ j \notin cleanups \cup unlinks /\ split[j] = "none"

(* While the file of an earlier attempt is being removed no new attempt is  *)
(* queued or runs: it would lose the file it opened (TS4).                  *)
NoLateRemoval ==
  \A j \in Jobs : j \in cleanups \cup unlinks \/ split[j] \in {"closing", "complete", "unlinking"}
    => \A u \in ItemsOf(j) : u \notin Waiting /\ at[u] \in {"none", "closing"}

(* A download that failed for good leaves no partial file, unless the file  *)
(* cannot be removed (TS1, TS2).                                            *)
FailedLeavesNothing ==
  \A j \in Downloads \ Locked :
    status[j] = "failed" /\ j \notin cleanups /\ split[j] = "none" => file[j] # "partial"

(* The queue keeps what JobLifecycle promises its callers: what each job    *)
(* goes through, how often it is tried, and when its file may change.      *)
Lifecycle ==
  INSTANCE JobLifecycle WITH
    life <- [j \in Jobs |-> status[j]],
    tries <- [j \in Jobs |-> retries[Whole(j)]],
    oneStream <- plain,
    copy <- file

KeepsLifecycle == Lifecycle!Spec

(* A cancelled download removes what it received.                           *)
CancelLeavesNothing ==
  \A j \in Downloads \ Locked :
    status[j] = "cancelled" /\ j \notin unlinks /\ split[j] = "none" /\ ~InRun(Whole(j))
      => file[j] # "partial"

(* Every job and every request for a slot ends, whatever the server does.   *)
EveryJobSettles ==
  \A o \in Owners : status[o] \in {"pending", "active"} ~> status[o] \in Final

(* A retry asked for while the split of the failed job was closing is done, *)
(* unless the job was removed from the list.                                *)
RevivalKept ==
  \A j \in Jobs : j \in reviveLater ~> status[j] = "pending" \/ j \in cleared
=============================================================================
