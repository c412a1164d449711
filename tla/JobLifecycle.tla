---------------------------- MODULE JobLifecycle ----------------------------
(***************************************************************************)
(* What a caller of the transfer queue may rely on                         *)
(* (src/main/transfer/TransferQueue.ts): the life of each job and of the   *)
(* file it downloads to, with no clients, items, splits or timers.  The    *)
(* agent's tools, the transfer panel and the clean-up of moved originals   *)
(* are written against this and nothing more.                              *)
(***************************************************************************)
EXTENDS Naturals, FiniteSets

CONSTANTS
  Jobs, Downloads,
  Exclusive,     \* downloads that must not overwrite
  MaxRetries     \* attempts after the first one

VARIABLES
  life,       \* job.status
  tries,      \* job.retryCount
  oneStream,  \* jobs that began again as one stream
  copy        \* the file at the local path

vars == <<life, tries, oneStream, copy>>

Open == {"pending", "active"}

Move(S, from, to) ==
  /\ S # {} /\ \A j \in S : life[j] \in from
  /\ life' = [j \in Jobs |-> IF j \in S THEN to ELSE life[j]]

(* How a step of the jobs S may leave their files: as they are; opened by an *)
(* attempt that ends with it, which an exclusive one does with no file but  *)
(* its own; or, if partial, removed.                                       *)
FilesLeft(S) ==
  /\ copy' \in [Downloads -> {"absent", "theirs", "partial", "whole"}]
  /\ \A j \in Downloads : copy'[j] # copy[j] =>
       /\ j \in S
       /\ \/ copy'[j] = "absent" /\ copy[j] = "partial"
          \/ copy'[j] = "partial" /\ life[j] = "active" /\ (j \in Exclusive => copy[j] # "theirs")

Submit(S) == Move(S, {"new"}, "pending") /\ UNCHANGED <<tries, oneStream, copy>>

Begin(j) == Move({j}, {"pending"}, "active") /\ UNCHANGED <<tries, oneStream, copy>>

(* The attempt is over and the job is not: a counted retry, one that the    *)
(* server or the pool is to blame for, or a new start as one stream, once. *)
TryAgain(j) ==
  /\ Move({j}, {"active"}, "pending")
  /\ FilesLeft({j})
  /\ \/ /\ tries[j] < MaxRetries
        /\ tries' = [tries EXCEPT ![j] = @ + 1]
        /\ UNCHANGED oneStream
     \/ UNCHANGED <<tries, oneStream>>
     \/ /\ j \notin oneStream
        /\ oneStream' = oneStream \cup {j}
        /\ tries' = [tries EXCEPT ![j] = 0]

(* Only an attempt completes a job, and its file is whole then.            *)
Complete(j) ==
  /\ Move({j}, {"active"}, "completed")
  /\ copy' = [i \in Downloads |-> IF i = j THEN "whole" ELSE copy[i]]
  /\ UNCHANGED <<tries, oneStream>>

(* All that wait fail together when logins fail for good.                  *)
Fail(S) == Move(S, Open, "failed") /\ FilesLeft(S) /\ UNCHANGED <<tries, oneStream>>

Cancel(j) == Move({j}, Open, "cancelled") /\ UNCHANGED <<tries, oneStream, copy>>

(* Nobody but the user brings a job back, and only a failed one.           *)
Revive(S) ==
  /\ Move(S, {"failed"}, "pending")
  /\ FilesLeft(S)
  /\ tries' = [j \in Jobs |-> IF j \in S THEN 0 ELSE tries[j]]
  /\ oneStream' = oneStream \ S

(* An attempt writes while the job is active, or until it finds out that it *)
(* was cancelled; an exclusive one writes to no file but its own.          *)
Write(j) ==
  /\ life[j] \in {"active", "cancelled"}
  /\ j \in Exclusive => copy[j] # "theirs"
  /\ \E f \in {"partial", "whole"} : copy' = [copy EXCEPT ![j] = f]
  /\ UNCHANGED <<life, tries, oneStream>>

(* Clean-up: after a failure what was received goes, after a cancel the     *)
(* file; a completed download is left alone for good.                      *)
CleanUp(j) ==
  /\ \/ life[j] \in {"failed", "pending"} /\ copy[j] = "partial"
     \/ life[j] = "cancelled" /\ (j \in Exclusive => copy[j] # "theirs")
  /\ copy' = [copy EXCEPT ![j] = "absent"]
  /\ UNCHANGED <<life, tries, oneStream>>

FileAppears(j) ==
  /\ copy[j] = "absent"
  /\ copy' = [copy EXCEPT ![j] = "theirs"]
  /\ UNCHANGED <<life, tries, oneStream>>

Init ==
  /\ life = [j \in Jobs |-> "new"] /\ tries = [j \in Jobs |-> 0] /\ oneStream = {}
  /\ copy \in [Downloads -> {"absent", "theirs"}]

Next ==
  \/ \E S \in SUBSET Jobs : Submit(S) \/ Fail(S) \/ Revive(S)
  \/ \E j \in Jobs : Begin(j) \/ TryAgain(j) \/ Complete(j) \/ Cancel(j)
  \/ \E j \in Downloads : Write(j) \/ CleanUp(j) \/ FileAppears(j)

Spec == Init /\ [][Next]_vars
=============================================================================
