--------------------------- MODULE GalleryPreviews ---------------------------
(***************************************************************************)
(* Previews of remote folders (src/main/ftp/RemoteGalleryPreviewQueue.ts   *)
(* with RemoteFolderPreviewCache.ts and the mutation listener of           *)
(* ipc/galleryHandlers.ts).  Requests of several viewers for one folder    *)
(* share one item; the last viewer to cancel closes the clients.  The main *)
(* client is never used: without a secondary one the answer is null.       *)
(***************************************************************************)
EXTENDS Integers, Sequences, FiniteSets, SequencesExt, Filtering

CONSTANTS
  Folders, GalleryViewers,
  GallerySlots,         \* MAX_CONCURRENT
  MaxGalleryRequests,   \* bound on request()
  MaxMutations          \* bound on the changes of folders

ASSUME GalleryAssumption ==
  /\ IsFiniteSet(Folders) /\ IsFiniteSet(GalleryViewers)
  /\ GallerySlots \in Nat \ {0} /\ MaxGalleryRequests \in Nat /\ MaxMutations \in Nat

VARIABLES
  galleryQueue,
  itemAt,               \* where the item of each folder is, "none" without one
  owners,               \* item.owners
  asked,                \* viewers whose promise is open and not cancelled
  shown,                \* what the server told the item: "old" once it changed
  clientClosed,         \* items whose client cancelAll() closed under them
  galleryPool, galleryAvail,  \* lengths of clientPool and availableClients
  secondaryUnavailable,
  folderCache,          \* "miss", "fresh" or "stale"
  galleryRequests, mutations

galleryVars == <<galleryQueue, itemAt, owners, asked, shown, clientClosed, galleryPool,
                 galleryAvail, secondaryUnavailable, folderCache, galleryRequests, mutations>>
galleryBounds == <<galleryRequests, mutations>>

Busy(at) == {f \in Folders : at[f] \in {"login", "list", "listed"}}

(* processNext() of a free slot, on the queue q and the places at; idle    *)
(* clients.  When secondary clients are unavailable the whole queue is     *)
(* answered with null.                                                     *)
Take(q, at, idle, down, left) ==
  IF down
  THEN /\ galleryQueue' = <<>>
       /\ itemAt' = [f \in Folders |-> IF Contains(q, f) THEN "none" ELSE at[f]]
       /\ owners' = [f \in Folders |-> IF Contains(q, f) THEN {} ELSE left[f]]
       /\ asked' = [f \in Folders |-> IF Contains(q, f) THEN {} ELSE asked[f] \cap left[f]]
       /\ galleryAvail' = idle
  ELSE /\ owners' = left
       /\ asked' = [f \in Folders |-> asked[f] \cap left[f]]
       /\ IF q = <<>> \/ Cardinality(Busy(at)) >= GallerySlots
          THEN galleryQueue' = q /\ itemAt' = at /\ galleryAvail' = idle
          ELSE /\ galleryQueue' = Tail(q)
               /\ itemAt' = [at EXCEPT ![Head(q)] = IF idle > 0 THEN "list" ELSE "login"]
               /\ galleryAvail' = IF idle > 0 THEN idle - 1 ELSE idle

(* request(): a cached preview is answered at once.                        *)
Joins(f, v) ==
  /\ itemAt[f] # "none"
  /\ owners' = [owners EXCEPT ![f] = @ \cup {v}]
  /\ asked' = [asked EXCEPT ![f] = @ \cup {v}]
  /\ UNCHANGED <<galleryQueue, itemAt, galleryAvail>>

(* With every slot taken the item waits; when clients are unavailable a    *)
(* free slot answers it at once.                                           *)
NewItem(f, v) ==
  /\ itemAt[f] = "none"
  /\ LET at == [itemAt EXCEPT ![f] = "queued"]
         room == Cardinality(Busy(at)) < GallerySlots
     IN IF secondaryUnavailable /\ room
        THEN UNCHANGED <<galleryQueue, itemAt, owners, asked, galleryAvail>>
        ELSE /\ owners' = [owners EXCEPT ![f] = {v}]
             /\ asked' = [asked EXCEPT ![f] = {v}]
             /\ IF room
                THEN /\ galleryQueue' = galleryQueue
                     /\ itemAt' = [at EXCEPT ![f] = IF galleryAvail > 0 THEN "list" ELSE "login"]
                     /\ galleryAvail' = IF galleryAvail > 0 THEN galleryAvail - 1 ELSE 0
                ELSE /\ galleryQueue' = Append(galleryQueue, f)
                     /\ itemAt' = at
                     /\ UNCHANGED galleryAvail

RequestPreview(f, v) ==
  /\ galleryRequests < MaxGalleryRequests /\ folderCache[f] = "miss"
  /\ galleryRequests' = galleryRequests + 1
  /\ Joins(f, v) \/ NewItem(f, v)
  /\ UNCHANGED <<shown, clientClosed, galleryPool, secondaryUnavailable, folderCache, mutations>>

(* cancelAll(v)                                                            *)
NobodyLeft(v) == \A f \in Folders : owners[f] \subseteq {v}

CancelViewer(v) ==
  /\ owners' = [f \in Folders |-> owners[f] \ {v}]
  /\ asked' = [f \in Folders |-> asked[f] \ {v}]
  /\ galleryQueue' = Only(galleryQueue, {f \in Folders : owners[f] # {v}})
  /\ itemAt' = [f \in Folders |->
                  IF itemAt[f] = "queued" /\ owners[f] = {v} THEN "none" ELSE itemAt[f]]
  /\ IF NobodyLeft(v)
     THEN /\ galleryPool' = 0 /\ galleryAvail' = 0 /\ secondaryUnavailable' = FALSE
          /\ clientClosed' = {f \in Folders : itemAt[f] \in {"list", "listed"}}
     ELSE UNCHANGED <<galleryPool, galleryAvail, secondaryUnavailable, clientClosed>>
  /\ UNCHANGED <<shown, folderCache, galleryBounds>>

-----------------------------------------------------------------------------
Left(f) == [owners EXCEPT ![f] = {}]
Gone(f) == [itemAt EXCEPT ![f] = "none"]

(* acquireClient(): also for an item nobody owns any more, into the pool   *)
(* of that moment.                                                         *)
ClientLogin(f, ok) ==
  /\ itemAt[f] = "login"
  /\ IF ok
     THEN /\ itemAt' = [itemAt EXCEPT ![f] = "list"]
          /\ galleryPool' = galleryPool + 1
          /\ UNCHANGED <<galleryQueue, owners, asked, galleryAvail, secondaryUnavailable>>
     ELSE /\ secondaryUnavailable' = TRUE
          /\ Take(galleryQueue, Gone(f), galleryAvail, TRUE, Left(f))
          /\ UNCHANGED galleryPool
  /\ UNCHANGED <<shown, clientClosed, folderCache, galleryBounds>>

(* The server reads the folder.                                            *)
Listed(f) ==
  /\ itemAt[f] = "list" /\ f \notin clientClosed
  /\ itemAt' = [itemAt EXCEPT ![f] = "listed"]
  /\ shown' = [shown EXCEPT ![f] = "new"]
  /\ UNCHANGED <<galleryQueue, owners, asked, clientClosed, galleryPool, galleryAvail,
                 secondaryUnavailable, folderCache, galleryBounds>>

(* releaseClient(): back to the pool, if it still is in it.  Fault: always. *)
AlwaysBack(f) == galleryAvail + 1
Available(f) == IF f \in clientClosed THEN galleryAvail ELSE galleryAvail + 1

(* The listing arrives and is stored.                                      *)
PreviewStored(f) ==
  /\ itemAt[f] = "listed"
  /\ folderCache' = [folderCache EXCEPT ![f] = IF shown[f] = "new" THEN "fresh" ELSE "stale"]
  /\ Take(galleryQueue, Gone(f), Available(f), secondaryUnavailable, Left(f))
  /\ clientClosed' = clientClosed \ {f}
  /\ UNCHANGED <<shown, galleryPool, secondaryUnavailable, galleryBounds>>

(* An error or the timeout: the client is removed.                         *)
PreviewFails(f) ==
  /\ itemAt[f] \in {"list", "listed"}
  /\ galleryPool' = IF f \in clientClosed THEN galleryPool ELSE galleryPool - 1
  /\ Take(galleryQueue, Gone(f), galleryAvail, secondaryUnavailable, Left(f))
  /\ clientClosed' = clientClosed \ {f}
  /\ UNCHANGED <<shown, secondaryUnavailable, folderCache, galleryBounds>>

(* A change of the folder through this application, and its event.         *)
Mutation(f) ==
  /\ mutations < MaxMutations
  /\ mutations' = mutations + 1
  /\ shown' = [shown EXCEPT ![f] = "old"]
  /\ folderCache' = [folderCache EXCEPT ![f] = "miss"]
  /\ UNCHANGED <<galleryQueue, itemAt, owners, asked, clientClosed, galleryPool,
                 galleryAvail, secondaryUnavailable, galleryRequests>>

-----------------------------------------------------------------------------
GalleryInit ==
  /\ galleryQueue = <<>>
  /\ itemAt = [f \in Folders |-> "none"]
  /\ owners = [f \in Folders |-> {}] /\ asked = [f \in Folders |-> {}]
  /\ shown = [f \in Folders |-> "old"] /\ clientClosed = {}
  /\ galleryPool = 0 /\ galleryAvail = 0 /\ secondaryUnavailable = FALSE
  /\ folderCache = [f \in Folders |-> "miss"]
  /\ galleryRequests = 0 /\ mutations = 0

GalleryProgress ==
  \E f \in Folders :
    (\E ok \in BOOLEAN : ClientLogin(f, ok)) \/ Listed(f) \/ PreviewStored(f) \/ PreviewFails(f)

GalleryNext ==
  \/ GalleryProgress
  \/ \E f \in Folders : Mutation(f) \/ \E v \in GalleryViewers : RequestPreview(f, v)
  \/ \E v \in GalleryViewers : CancelViewer(v)

GallerySpec == GalleryInit /\ [][GalleryNext]_galleryVars /\ WF_galleryVars(GalleryProgress)

-----------------------------------------------------------------------------
GalleryTypeOK ==
  /\ galleryQueue \in Seq(Folders)
  /\ itemAt \in [Folders -> {"none", "queued", "login", "list", "listed"}]
  /\ owners \in [Folders -> SUBSET GalleryViewers] /\ asked \in [Folders -> SUBSET GalleryViewers]
  /\ galleryPool \in 0..GallerySlots /\ galleryAvail \in 0..galleryPool

(* Every client of the pool is idle or used by one item, also when the     *)
(* items of the closed clients end late.                                   *)
GalleryClients ==
  /\ galleryPool = galleryAvail +
       Cardinality({f \in Folders : itemAt[f] \in {"list", "listed"} /\ f \notin clientClosed})
  /\ clientClosed \subseteq Busy(itemAt)
  /\ galleryPool + Cardinality({f \in Folders : itemAt[f] = "login"}) <= GallerySlots

(* Whoever still waits owns an item that is on its way, and the queue      *)
(* holds what is owned, once.                                              *)
WaitersOwn ==
  /\ \A f \in Folders : asked[f] \subseteq owners[f] /\ (owners[f] # {} => itemAt[f] # "none")
  /\ \A f \in Folders : itemAt[f] = "queued" <=> Contains(galleryQueue, f)
  /\ \A f \in ToSet(galleryQueue) : owners[f] # {}
  /\ IsInjective(galleryQueue)

GalleryNoStall ==
  galleryQueue # <<>> => Cardinality(Busy(itemAt)) = GallerySlots

GallerySafe == GalleryTypeOK /\ GalleryClients /\ WaitersOwn /\ GalleryNoStall

(* Every folder a viewer waits for is answered.                            *)
GallerySettles == \A f \in Folders : asked[f] # {} ~> asked[f] = {}

(* The cache, which outlives the application, holds nothing older than the *)
(* last change made through it.                                            *)
CacheFresh == \A f \in Folders : folderCache[f] # "stale"
=============================================================================
