--------------------------- MODULE ThumbnailQueue ---------------------------
(***************************************************************************)
(* Thumbnails of remote pictures (src/main/thumbnail/ThumbnailQueue.ts).   *)
(* Viewers replace their batch of wanted keys; workers download on         *)
(* secondary clients, or one at a time on the main client once a secondary *)
(* login failed.  cancelAll() starts a new generation: what still runs of  *)
(* an older one must not disturb it.                                       *)
(*                                                                         *)
(* Priorities only order the queue: here any waiting key may be next.  All *)
(* keys are below the size limit.                                          *)
(***************************************************************************)
EXTENDS Integers, FiniteSets, FiniteSetsExt

CONSTANTS
  ThumbKeys, ThumbViewers,
  ThumbSlots,         \* MAX_CONCURRENT
  MaxThumbRequests,   \* bound on the calls of request() and requestBatch()
  MaxThumbCancels     \* bound on the generations

ASSUME ThumbAssumption ==
  /\ IsFiniteSet(ThumbKeys) /\ IsFiniteSet(ThumbViewers)
  /\ ThumbSlots \in Nat \ {0} /\ MaxThumbRequests \in Nat /\ MaxThumbCancels \in Nat

VARIABLES
  thumbQueue,
  batches,          \* {} where the map has no entry
  thumbWork,        \* the running processNext(): [key, gen, at]
  processing,       \* the keys whose entry is of the current generation
  thumbPool,        \* clientPool.length
  thumbAvail,       \* availableClients.length
  secondaryFailed,
  generation,
  thumbCache,
  thumbDue,         \* keys of a current batch with no event since it came
  thumbRequests

thumbVars == <<thumbQueue, batches, thumbWork, processing, thumbPool, thumbAvail,
               secondaryFailed, generation, thumbCache, thumbDue, thumbRequests>>

Wanted(b) == UNION {b[v] : v \in ThumbViewers}
MaxConcurrent(failed) == IF failed THEN 1 ELSE ThumbSlots

(* processNext(), until the slots are taken or the queue q is empty; w are *)
(* the workers left, p the marks, a the idle clients.  A key that has been *)
(* cached meanwhile is answered on the way.                                *)
ProcessNext(q, w, p, a, failed, cache, due) ==
  LET room == MaxConcurrent(failed) - Cardinality(w) IN
  \E hit \in SUBSET (q \cap cache), start \in SUBSET (q \ cache) :
    /\ room <= 0 => hit = {}
    /\ Cardinality(start) <= IF room > 0 THEN room ELSE 0
    /\ Cardinality(start) < room => start = q \ cache /\ hit = q \cap cache
    /\ \E reuse \in SUBSET start :
         /\ Cardinality(reuse) =
              IF failed THEN 0
              ELSE IF a < Cardinality(start) THEN a ELSE Cardinality(start)
         /\ thumbAvail' = a - Cardinality(reuse)
         /\ thumbWork' = w \cup {[key |-> k, gen |-> generation,
                                  at |-> IF failed THEN "main"
                                         ELSE IF k \in reuse THEN "download" ELSE "login"] :
                                 k \in start}
    /\ thumbQueue' = q \ (hit \cup start)
    /\ processing' = p \cup start
    /\ thumbDue' = due \ hit

(* dropUnwanted() after a viewer had prev; b are the batches now.          *)
DropUnwanted(prev, b) == {k \in thumbQueue : k \in prev => k \in Wanted(b)}

RequestBatch(v, keys) ==
  /\ thumbRequests < MaxThumbRequests
  /\ thumbRequests' = thumbRequests + 1
  /\ batches' = [batches EXCEPT ![v] = keys]
  /\ LET left == DropUnwanted(batches[v], batches')
         new == keys \ (processing \cup left)
     IN ProcessNext(left \cup (new \ thumbCache), thumbWork, processing, thumbAvail,
                    secondaryFailed, thumbCache,
                    ((thumbDue \cup keys) \cap Wanted(batches')) \ (new \cap thumbCache))
  /\ UNCHANGED <<thumbPool, secondaryFailed, generation, thumbCache>>

Request(k) ==
  /\ thumbRequests < MaxThumbRequests
  /\ thumbRequests' = thumbRequests + 1
  /\ k \notin processing \cup thumbQueue \cup thumbCache
  /\ ProcessNext(thumbQueue \cup {k}, thumbWork, processing, thumbAvail, secondaryFailed,
                 thumbCache, thumbDue)
  /\ UNCHANGED <<batches, thumbPool, secondaryFailed, generation, thumbCache>>

(* cancelAll() with nobody left who waits, or of a session that ends.      *)
EndGeneration ==
  /\ generation < MaxThumbCancels
  /\ batches' = [v \in ThumbViewers |-> {}]
  /\ thumbQueue' = {} /\ processing' = {} /\ thumbDue' = {}
  /\ generation' = generation + 1
  /\ thumbPool' = 0 /\ thumbAvail' = 0
  /\ secondaryFailed' = FALSE
  /\ UNCHANGED <<thumbWork, thumbCache, thumbRequests>>

LeaveViewer(v) ==
  /\ Wanted([batches EXCEPT ![v] = {}]) # {}
  /\ batches' = [batches EXCEPT ![v] = {}]
  /\ thumbQueue' = DropUnwanted(batches[v], batches')
  /\ thumbDue' = thumbDue \cap Wanted(batches')
  /\ UNCHANGED <<thumbWork, processing, thumbPool, thumbAvail, secondaryFailed,
                 generation, thumbCache, thumbRequests>>

CancelAll ==
  \/ EndGeneration
  \/ \E v \in ThumbViewers : LeaveViewer(v)

-----------------------------------------------------------------------------
Current(x) == x.gen = generation

(* The finally of processNext().  Fault: the mark of another generation    *)
(* goes, too.                                                              *)
MarksCleared(x) == processing \ {x.key}
MarksLeft(x) == IF Current(x) THEN processing \ {x.key} ELSE processing

(* The end of x; said: an event of its key was sent.                       *)
WorkEnds(x, avail, failed, cache, said) ==
  ProcessNext(thumbQueue, thumbWork \ {x}, MarksLeft(x), avail, failed, cache,
              IF said THEN thumbDue \ {x.key} ELSE thumbDue)

GoesOn(x, at) ==
  /\ thumbWork' = (thumbWork \ {x}) \cup {[x EXCEPT !.at = at]}
  /\ UNCHANGED <<thumbQueue, processing, thumbDue>>

(* acquireSecondaryClient(): what was opened for an old generation is      *)
(* closed again; a refusal counts for the new one, too.                    *)
SecondaryLogin(x, ok) ==
  /\ x.at = "login"
  /\ secondaryFailed' = (secondaryFailed \/ ~ok)
  /\ IF Current(x)
     THEN /\ GoesOn(x, IF ok THEN "download" ELSE "main")
          /\ thumbPool' = IF ok THEN thumbPool + 1 ELSE thumbPool
          /\ UNCHANGED thumbAvail
     ELSE /\ WorkEnds(x, thumbAvail, secondaryFailed', thumbCache, FALSE)
          /\ UNCHANGED thumbPool
  /\ UNCHANGED thumbCache

(* releaseClient(): back to the pool, if it still is in it.                *)
Released(x) == IF Current(x) THEN thumbAvail + 1 ELSE thumbAvail

Downloaded(x, ok) ==
  /\ x.at = "download"
  /\ IF ok /\ Current(x)
     THEN GoesOn(x, "render") /\ thumbAvail' = Released(x) /\ UNCHANGED thumbPool
     ELSE /\ thumbPool' = IF ~ok /\ Current(x) THEN thumbPool - 1 ELSE thumbPool
          /\ WorkEnds(x, IF ok THEN Released(x) ELSE thumbAvail, secondaryFailed,
                      thumbCache, Current(x))
  /\ UNCHANGED <<secondaryFailed, thumbCache>>

DownloadedOnMain(x, ok) ==
  /\ x.at = "main"
  /\ IF ok /\ Current(x)
     THEN GoesOn(x, "render") /\ UNCHANGED thumbAvail
     ELSE WorkEnds(x, thumbAvail, secondaryFailed, thumbCache, Current(x))
  /\ UNCHANGED <<thumbPool, secondaryFailed, thumbCache>>

(* generate(), store() and onReady(): also after a cancel.                 *)
Rendered(x, ok) ==
  /\ x.at = "render"
  /\ thumbCache' = IF ok THEN thumbCache \cup {x.key} ELSE thumbCache
  /\ WorkEnds(x, thumbAvail, secondaryFailed, thumbCache', ok \/ Current(x))
  /\ UNCHANGED <<thumbPool, secondaryFailed>>

-----------------------------------------------------------------------------
ThumbInit ==
  /\ thumbQueue = {} /\ batches = [v \in ThumbViewers |-> {}]
  /\ thumbWork = {} /\ processing = {}
  /\ thumbPool = 0 /\ thumbAvail = 0 /\ secondaryFailed = FALSE
  /\ generation = 0 /\ thumbCache = {} /\ thumbDue = {} /\ thumbRequests = 0

ThumbProgress ==
  \E x \in thumbWork, ok \in BOOLEAN :
    /\ SecondaryLogin(x, ok) \/ Downloaded(x, ok) \/ DownloadedOnMain(x, ok) \/ Rendered(x, ok)
    /\ UNCHANGED <<batches, generation, thumbRequests>>

ThumbNext ==
  \/ ThumbProgress
  \/ \E v \in ThumbViewers, keys \in SUBSET ThumbKeys : RequestBatch(v, keys)
  \/ \E k \in ThumbKeys : Request(k)
  \/ CancelAll

ThumbSpec == ThumbInit /\ [][ThumbNext]_thumbVars /\ WF_thumbVars(ThumbProgress)

-----------------------------------------------------------------------------
ThumbTypeOK ==
  /\ UNION {thumbQueue, processing, thumbCache, thumbDue} \subseteq ThumbKeys
  /\ batches \in [ThumbViewers -> SUBSET ThumbKeys]
  /\ \A x \in thumbWork :
       x.key \in ThumbKeys /\ x.gen \in 0..generation
         /\ x.at \in {"login", "download", "main", "render"}
  /\ thumbPool \in 0..ThumbSlots /\ thumbAvail \in 0..thumbPool

(* A key is worked on once in a generation, and its mark stays while it is *)
(* however late the work of older generations ends.                        *)
OnceAGeneration ==
  /\ \A x, y \in thumbWork : x.key = y.key /\ x.gen = y.gen => x = y
  /\ processing = {x.key : x \in {y \in thumbWork : Current(y)}}
  /\ processing \cap thumbQueue = {}

(* Every client of the pool is idle or in use, and a late login of an old  *)
(* generation does not open more than the slots allow.                     *)
ThumbClients ==
  /\ thumbPool = thumbAvail + Cardinality({x \in thumbWork : x.at = "download" /\ Current(x)})
  /\ thumbPool + Cardinality({x \in thumbWork : x.at = "login"}) <= ThumbSlots

(* Nothing a viewer still wants is forgotten.                              *)
WantedServed == thumbDue \subseteq thumbQueue \cup processing

ThumbSafe == ThumbTypeOK /\ OnceAGeneration /\ ThumbClients /\ WantedServed

(* Every wanted thumbnail comes, or its error, unless it is wanted no      *)
(* longer.                                                                 *)
ThumbSettles == \A k \in ThumbKeys : k \in thumbDue ~> k \notin thumbDue
=============================================================================
