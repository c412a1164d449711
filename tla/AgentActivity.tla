---------------------------- MODULE AgentActivity ----------------------------
(***************************************************************************)
(* What an agent does through the app, and the user's Stop.                *)
(*                                                                         *)
(* A tool call plans its work (folders are listed), then starts one job: a *)
(* transfer in a queue or a delete that OperationManager reports, and, for *)
(* a delete, waits for it with the job tracker.  agentActivity.ts counts   *)
(* the calls in progress and the jobs they started, cancels both on Stop,  *)
(* and remembers the transfers on the main connection, which cannot be     *)
(* cancelled while they run, to cancel them when they come back to wait.   *)
(* The queues report changes late (every FLUSH_MS), OperationManager at    *)
(* once.  A job has the id of the call that started it.                    *)
(***************************************************************************)
EXTENDS Naturals, FiniteSets

CONSTANTS AgentCalls,       \* tool calls, and the jobs they start
          DeleteItems,      \* entries one delete removes, each a command
          MaxAgentStops,    \* bound: how often the user presses Stop
          MaxAgentRetries   \* MAX_RETRIES of a transfer

ASSUME AgentAssumption == /\ IsFiniteSet(AgentCalls) /\ DeleteItems \in Nat \ {0}
                          /\ MaxAgentStops \in Nat /\ MaxAgentRetries \in Nat

VARIABLES agKind,      \* what each call does: "transfer" or "delete"
          agCall,      \* "none", "planning", "waiting" (for its delete), "ended"
          agCalls,     \* calls: the calls in progress, as Stop knows them
          agHalted,    \* halted: calls that the user stopped
          agJob,       \* the status of each job in the list of its owner, with
                       \* "main" for a transfer active on the main connection
          agRemoved,   \* entries a delete has removed
          agBusy,      \* deletes with a command on its way
          agTries,     \* retries a transfer has used
          agCancelled, \* OperationManager.cancelled
          agTracked,   \* jobs: jobs that count as the agent's
          agStopped,   \* stoppedJobs: stopped, but running to their end
          agDirty,     \* transfers changed or removed since their queue reported last
          agLatest,    \* latest: [active, stopping] as the window was told
          agKnown,     \* finished jobs the tracker remembers
          agAnswer,    \* what the tracker told a waiting delete of its job
          agStops,     \* Stops so far (bound)
          agBefore     \* the calls that had begun at the last Stop (history)

agentVars == <<agKind, agCall, agCalls, agHalted, agJob, agRemoved, agBusy, agTries, agCancelled,
               agTracked, agStopped, agDirty, agLatest, agKnown, agAnswer, agStops, agBefore>>

Transfers == {c \in AgentCalls : agKind[c] = "transfer"}
Operations == AgentCalls \ Transfers
Running == {"pending", "active", "main"}
Finished == {"completed", "failed", "cancelled"}

-----------------------------------------------------------------------------
(* What the window is told. *)

AgentState(calls, tracked, stopped) ==
  [active |-> calls # {} \/ tracked # {},
   stopping |-> calls = {} /\ tracked # {} /\ tracked \subseteq stopped]

Publish(calls, tracked, stopped) == agLatest' = AgentState(calls, tracked, stopped)

(* runningJobs forgets what is not running any more. *)
StillRunning(tracked, job) == {c \in tracked : job[c] \in Running}

(* TransferQueue.cancel: what waits or has a connection of its own ends at  *)
(* once, what runs on the main connection is left alone.                    *)
CancelTransfers(ids) ==
  [c \in AgentCalls |-> IF c \in ids \cap Transfers /\ agJob[c] \in {"pending", "active"}
                        THEN "cancelled" ELSE agJob[c]]

(* Fault: a stopped transfer is only watched.                               *)
NoneReturned(job) == {}

(* recheck, on every report of a queue or of OperationManager: a stopped    *)
(* transfer that waits again is cancelled now, and the window is told when  *)
(* activity or stopping changed.  job is the list that was reported.        *)
Returned(job) == {c \in agStopped : job[c] = "pending"}

Rechecked(job) == [c \in AgentCalls |-> IF c \in Returned(job) THEN "cancelled" ELSE job[c]]
KeptTracked(job) == StillRunning(agTracked, Rechecked(job))

Recheck(job) ==
  /\ agJob' = Rechecked(job)
  /\ agTracked' = KeptTracked(job)
  /\ agStopped' = agStopped \cap KeptTracked(job)
  /\ Publish(agCalls, KeptTracked(job), agStopped \cap KeptTracked(job))

-----------------------------------------------------------------------------
(* The tool calls. *)

Begin(c) ==
  /\ agCall[c] = "none"
  /\ agCall' = [agCall EXCEPT ![c] = "planning"]
  /\ agCalls' = agCalls \cup {c}
  /\ Publish(agCalls \cup {c}, agTracked, agStopped)
  /\ UNCHANGED <<agKind, agHalted, agJob, agRemoved, agBusy, agTries, agCancelled, agTracked,
                 agStopped, agDirty, agKnown, agAnswer, agStops, agBefore>>

(* haltIfStopped before anything is put in a queue or in OperationManager. *)
NotStopped(c) == c \notin agHalted

(* The end of a call: end(), which a stopped call's does nothing any more.  *)
CallEnds(c, tracked, job) ==
  /\ agCall' = [agCall EXCEPT ![c] = "ended"]
  /\ agCalls' = agCalls \ {c}
  /\ IF c \in agCalls
     THEN LET running == StillRunning(tracked, job) IN
          /\ agTracked' = running
          /\ agStopped' = agStopped \cap running
          /\ Publish(agCalls \ {c}, running, agStopped \cap running)
     ELSE agTracked' = tracked /\ UNCHANGED <<agStopped, agLatest>>

(* The planning ends without a job: an error, nothing to do, or Stop.       *)
PlanFails(c) ==
  /\ agCall[c] = "planning"
  /\ CallEnds(c, agTracked, agJob)
  /\ UNCHANGED <<agKind, agHalted, agJob, agRemoved, agBusy, agTries, agCancelled, agDirty,
                 agKnown, agAnswer, agStops, agBefore>>

(* download or upload: enqueueBatch, track, and the call answers.           *)
StartTransfer(c) ==
  /\ agCall[c] = "planning" /\ c \in Transfers /\ NotStopped(c)
  /\ agJob' = [agJob EXCEPT ![c] = "pending"]
  /\ agDirty' = agDirty \cup {c}
  /\ CallEnds(c, agTracked \cup {c}, agJob')
  /\ UNCHANGED <<agKind, agHalted, agRemoved, agBusy, agTries, agCancelled, agKnown, agAnswer, agStops, agBefore>>

(* startDelete: create, whose report the activity hears before the job is   *)
(* tracked, then track; the call waits.                                     *)
StartDelete(c) ==
  LET job == [agJob EXCEPT ![c] = "active"] IN
  /\ agCall[c] = "planning" /\ c \in Operations /\ NotStopped(c)
  /\ agCall' = [agCall EXCEPT ![c] = "waiting"]
  /\ agJob' = Rechecked(job)
  /\ agDirty' = agDirty \cup Returned(job)
  /\ agTracked' = KeptTracked(job) \cup {c}
  /\ agStopped' = agStopped \cap KeptTracked(job)
  /\ Publish(agCalls, KeptTracked(job), agStopped \cap KeptTracked(job))
  /\ UNCHANGED <<agKind, agCalls, agHalted, agRemoved, agBusy, agTries, agCancelled, agKnown,
                 agAnswer, agStops, agBefore>>

(* JobTracker.get for the job of c: the list first, then what it remembers. *)
Snapshot(c, job) == IF job[c] # "gone" THEN (IF job[c] \in Running THEN "running" ELSE "done")
                    ELSE IF c \in agKnown THEN "done" ELSE "unknown"

(* The delete is done, or the wait is over after deleteWaitMs.              *)
WaitEnds(c) ==
  /\ agCall[c] = "waiting"
  /\ agAnswer' = [agAnswer EXCEPT ![c] = Snapshot(c, agJob)]
  /\ CallEnds(c, agTracked, agJob)
  /\ UNCHANGED <<agKind, agHalted, agJob, agRemoved, agBusy, agTries, agCancelled, agDirty, agKnown, agStops, agBefore>>

-----------------------------------------------------------------------------
(* Stop. *)

(* Operations stop before their next command and are forgotten now; of the  *)
(* transfers only those cancel could not end are kept, as stopped.          *)
StopRemembers(running) == agStopped \cup (running \cap Transfers)

UserStops ==
  LET running == StillRunning(agTracked, agJob)
      job == CancelTransfers(running)
      left == StillRunning(running \ Operations, job)
  IN /\ agStops < MaxAgentStops
     /\ agLatest.active
     /\ agStops' = agStops + 1
     /\ agJob' = job
     /\ agDirty' = agDirty \cup {c \in AgentCalls : job[c] # agJob[c]}
     /\ agCancelled' = agCancelled \cup (running \cap Operations)
     /\ agTracked' = left
     /\ agStopped' = StopRemembers(running) \cap left
     /\ agHalted' = agHalted \cup agCalls
     /\ agCalls' = {}
     /\ agBefore' = {c \in AgentCalls : agCall[c] # "none"}
     /\ Publish({}, left, StopRemembers(running) \cap left)
     /\ UNCHANGED <<agKind, agCall, agRemoved, agBusy, agTries, agKnown, agAnswer>>

-----------------------------------------------------------------------------
(* The queues: a transfer waits, runs on a connection of its own or on the  *)
(* main one, ends, or waits RETRY_DELAY_MS for its next attempt.  The delay *)
(* is longer than FLUSH_MS, so the queue has reported before it is over.    *)
TransferStarts(c) ==
  /\ agJob[c] = "pending"
  /\ agTries[c] > 0 => c \notin agDirty
  /\ \E how \in {"active", "main"} : agJob' = [agJob EXCEPT ![c] = how]
  /\ agDirty' = agDirty \cup {c}
  /\ UNCHANGED <<agKind, agCall, agCalls, agHalted, agRemoved, agBusy, agTries, agCancelled, agTracked,
                 agStopped, agLatest, agKnown, agAnswer, agStops, agBefore>>

TransferEnds(c) ==
  /\ c \in Transfers /\ agJob[c] \in {"active", "main"}
  /\ \E how \in {"completed", "failed", "pending"} :
       /\ how = "pending" => agTries[c] < MaxAgentRetries
       /\ agTries' = [agTries EXCEPT ![c] = IF how = "pending" THEN @ + 1 ELSE @]
       /\ agJob' = [agJob EXCEPT ![c] = how]
  /\ agDirty' = agDirty \cup {c}
  /\ UNCHANGED <<agKind, agCall, agCalls, agHalted, agRemoved, agBusy, agCancelled, agTracked, agStopped,
                 agLatest, agKnown, agAnswer, agStops, agBefore>>

(* flush, FLUSH_MS after the first change: the tracker and the activity.    *)
QueueReports ==
  /\ agDirty # {}
  /\ agDirty' = Returned(agJob)
  /\ agKnown' = agKnown \cup {c \in agDirty : agJob[c] \in Finished}
  /\ Recheck(agJob)
  /\ UNCHANGED <<agKind, agCall, agCalls, agHalted, agRemoved, agBusy, agTries, agCancelled, agAnswer, agStops, agBefore>>

(* clearCompleted, from the window: reported as removed, and how a transfer *)
(* ended is lost when the queue had not reported it.                        *)
TransfersCleared ==
  /\ \E c \in Transfers : agJob[c] \in Finished
  /\ agJob' = [c \in AgentCalls |-> IF c \in Transfers /\ agJob[c] \in Finished THEN "gone" ELSE agJob[c]]
  /\ agDirty' = agDirty \cup {c \in Transfers : agJob[c] \in Finished}
  /\ UNCHANGED <<agKind, agCall, agCalls, agHalted, agRemoved, agBusy, agTries, agCancelled, agTracked,
                 agStopped, agLatest, agKnown, agAnswer, agStops, agBefore>>

-----------------------------------------------------------------------------
(* A delete, one command at a time, and OperationManager's list.            *)
DeleteCancelled(c) == c \in agCancelled \/ c \in agHalted

(* Every change of the list is reported at once.                            *)
OperationReports(job) ==
  /\ agKnown' = agKnown \cup {c \in Operations : job[c] \in Finished}
  /\ Recheck(job)
  /\ agDirty' = agDirty \cup Returned(job)

DeleteCommand(c) ==
  /\ agJob[c] = "active" /\ c \in Operations \ agBusy
  /\ ~DeleteCancelled(c) /\ agRemoved[c] < DeleteItems
  /\ agBusy' = agBusy \cup {c}
  /\ UNCHANGED <<agKind, agCall, agCalls, agHalted, agJob, agRemoved, agTries, agCancelled, agTracked,
                 agStopped, agDirty, agLatest, agKnown, agAnswer, agStops, agBefore>>

DeleteReply(c) ==
  /\ c \in agBusy
  /\ agBusy' = agBusy \ {c}
  /\ \/ agRemoved' = [agRemoved EXCEPT ![c] = @ + 1]
        /\ UNCHANGED <<agJob, agTracked, agStopped, agLatest, agKnown, agDirty>>
     \/ OperationReports([agJob EXCEPT ![c] = "failed"]) /\ UNCHANGED agRemoved
  /\ UNCHANGED <<agKind, agCall, agCalls, agHalted, agTries, agCancelled, agAnswer, agStops, agBefore>>

(* Nothing is left, or the loop saw the cancel: complete() or               *)
(* markCancelled(), which alone takes the id out of cancelled.              *)
DeleteEnds(c) ==
  /\ agJob[c] = "active" /\ c \in Operations \ agBusy
  /\ DeleteCancelled(c) \/ agRemoved[c] = DeleteItems
  /\ IF DeleteCancelled(c)
     THEN agCancelled' = agCancelled \ {c} /\ OperationReports([agJob EXCEPT ![c] = "cancelled"])
     ELSE UNCHANGED agCancelled /\ OperationReports([agJob EXCEPT ![c] = "completed"])
  /\ UNCHANGED <<agKind, agCall, agCalls, agHalted, agRemoved, agBusy, agTries, agAnswer, agStops, agBefore>>

(* operation:cancel from the window.                                        *)
OperationCancel(c) ==
  /\ c \in Operations /\ agJob[c] = "active" /\ c \notin agCancelled
  /\ agCancelled' = agCancelled \cup {c}
  /\ UNCHANGED <<agKind, agCall, agCalls, agHalted, agJob, agRemoved, agBusy, agTries, agTracked, agStopped,
                 agDirty, agLatest, agKnown, agAnswer, agStops, agBefore>>

(* scheduleRemoval, COMPLETED_TTL_MS later, or clearFinished for all.       *)
OperationForgotten ==
  /\ \E old \in SUBSET {c \in Operations : agJob[c] \in Finished} :
       /\ old # {}
       /\ \/ \A c \in old : Cardinality(old) = 1 /\ agJob[c] # "failed"
          \/ old = {c \in Operations : agJob[c] \in Finished}
       /\ OperationReports([c \in AgentCalls |-> IF c \in old THEN "gone" ELSE agJob[c]])
  /\ UNCHANGED <<agKind, agCall, agCalls, agHalted, agRemoved, agBusy, agTries, agCancelled, agAnswer,
                 agStops, agBefore>>

-----------------------------------------------------------------------------
AgentInit ==
  /\ agKind \in [AgentCalls -> {"transfer", "delete"}]
  /\ agCall = [c \in AgentCalls |-> "none"] /\ agCalls = {} /\ agHalted = {}
  /\ agJob = [c \in AgentCalls |-> "none"] /\ agRemoved = [c \in AgentCalls |-> 0] /\ agBusy = {}
  /\ agTries = [c \in AgentCalls |-> 0] /\ agCancelled = {} /\ agTracked = {} /\ agStopped = {}
  /\ agDirty = {} /\ agLatest = [active |-> FALSE, stopping |-> FALSE]
  /\ agKnown = {} /\ agAnswer = [c \in AgentCalls |-> "none"] /\ agStops = 0 /\ agBefore = {}

(* What the program does by itself once asked.                              *)
AgentProgress ==
  \/ QueueReports
  \/ \E c \in AgentCalls : \/ StartTransfer(c) \/ StartDelete(c) \/ PlanFails(c) \/ WaitEnds(c)
                           \/ TransferStarts(c) \/ TransferEnds(c)
                           \/ DeleteCommand(c) \/ DeleteReply(c) \/ DeleteEnds(c)

AgentNext ==
  \/ AgentProgress
  \/ UserStops \/ TransfersCleared \/ OperationForgotten
  \/ \E c \in AgentCalls : Begin(c) \/ OperationCancel(c)

AgentSpec == AgentInit /\ [][AgentNext]_agentVars /\ WF_agentVars(AgentProgress)

-----------------------------------------------------------------------------
AgentTypeOK ==
  /\ agCalls \subseteq {c \in AgentCalls : agCall[c] \in {"planning", "waiting"}}
  /\ agTracked \subseteq AgentCalls /\ agStopped \subseteq agTracked \cap Transfers
  /\ agBusy \subseteq {c \in Operations : agJob[c] = "active"}
  /\ \A c \in AgentCalls : agRemoved[c] \in 0..DeleteItems /\ agTries[c] \in 0..MaxAgentRetries

(* Nothing that an agent had begun at a Stop goes on behind the user's      *)
(* back: a transfer has ended, or runs on the main connection to its end,   *)
(* or waits again and is cancelled with the next report; a delete has ended *)
(* or is told to before its next command.                                   *)
StopReaches ==
  \A c \in agBefore :
    /\ agJob[c] # "active" \/ DeleteCancelled(c)
    /\ agJob[c] = "pending" => c \in agDirty \cap agStopped

(* What still runs is known: the window may say that no agent is at work    *)
(* only when no transfer of an agent runs, and no delete that was not       *)
(* cancelled.                                                               *)
ActivityHonest ==
  \A c \in AgentCalls :
    agJob[c] \in Running /\ ~DeleteCancelled(c) => agLatest.active /\ c \in agTracked

(* The sign goes when nothing is left, at the latest with the next report.  *)
SignGoes == agLatest.active => agCalls # {} \/ agTracked # {}

(* An agent that waits for its delete is never told that it does not exist. *)
AnswerKnown == \A c \in AgentCalls : agAnswer[c] # "unknown"

AgentSafe == AgentTypeOK /\ StopReaches /\ ActivityHonest /\ SignGoes /\ AnswerKnown

(* Every call that began ends, and its job then stops running and counting.  *)
AgentSettles ==
  \A c \in AgentCalls :
    (agCall[c] # "none") ~> (agCall[c] = "ended" /\ agJob[c] \notin Running /\ c \notin agTracked)
=============================================================================
