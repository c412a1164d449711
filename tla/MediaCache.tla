------------------------------ MODULE MediaCache ------------------------------
(***************************************************************************)
(* The caches on disk of thumbnails (CacheManager.ts) and of previews       *)
(* (PreviewCacheManager.ts): a row in the database and a file beside it,    *)
(* the oldest thrown away when there is too much; and the downloads that    *)
(* fill the second (previewHandlers.ts), of which a connection runs one.    *)
(* Each step of a cache is one task of the main process, but the app may     *)
(* die inside it.                                                          *)
(***************************************************************************)
EXTENDS Naturals, Sequences, FiniteSets, SequencesExt, Filtering

CONSTANTS
  MediaFiles,      \* what is cached; the last digit is its size
  MediaLimit,      \* MAX_CACHE_SIZE_BYTES, MAX_PREVIEW_CACHE_SIZE_BYTES
  EvictRows,       \* rows one eviction looks at: 100
  FileLimit,       \* MAX_IMAGE_SIZE_BYTES
  MediaAsks,       \* requests of the light box, in their order
  MaxMediaActs     \* bound: stores, lookups and losses

ASSUME MediaAssumption == /\ MediaFiles \subseteq Nat /\ EvictRows \in Nat \ {0}
                          /\ MediaLimit \in Nat /\ FileLimit \in Nat /\ 5 * FileLimit <= 4 * MediaLimit
                          /\ MediaAsks \subseteq Nat \ {0} /\ MaxMediaActs \in Nat \ {0}

VARIABLES
  mcKind,     \* "thumbnails" or "previews"
  mcRows,     \* the files with a row, the one accessed longest ago first
  mcDisk,     \* the files that are on disk
  mcAsk,      \* [request -> file, where it is]
  mcCut,      \* requests with job.cancelled
  mcFlight,   \* inflight of the connection, 0: none
  mcStored,   \* history: the file stored by the last step and the rows it threw away, or <<>>
  mcDied,     \* history: the app has died inside a step
  mcActs

mediaVars == <<mcKind, mcRows, mcDisk, mcAsk, mcCut, mcFlight, mcStored, mcDied, mcActs>>

SizeOf(f) == f % 10
Cacheable == {f \in MediaFiles : SizeOf(f) <= FileLimit}
TotalSize(rows) == SumOf([i \in DOMAIN rows |-> SizeOf(rows[i])])
RemoveFile(rows, f) == Only(rows, InSeq(rows) \ {f})
NoAsk == [file |-> 0, at |-> "none"]
Done == [file |-> 0, at |-> "done"]
Working(r) == mcAsk[r].at \in {"login", "second", "queued", "main"}
MediaActs == mcActs < MaxMediaActs /\ mcActs' = mcActs + 1

-----------------------------------------------------------------------------
(* evictIfNeeded(): from the oldest on until four fifths are left, but no    *)
(* more rows than one query gives.                                         *)
Evictable(rows) ==
  LET toFree == 5 * TotalSize(rows) - 4 * MediaLimit
      takes(n) == n <= EvictRows /\ 5 * TotalSize(SubSeq(rows, 1, n - 1)) < toFree
  IN  IF TotalSize(rows) <= MediaLimit THEN 0
      ELSE Cardinality({n \in DOMAIN rows : takes(n)})

(* store(): the file, the row, the eviction.                                *)
StoreFile(f) ==
  LET rows == Append(RemoveFile(mcRows, f), f)
      n == Evictable(rows)
  IN  /\ mcRows' = SubSeq(rows, n + 1, Len(rows))
      /\ mcDisk' = (mcDisk \union {f}) \ InSeq(SubSeq(rows, 1, n))
      /\ mcStored' = <<f, n>>

(* lookup(): a row without its file is given up.  The clock counts seconds:   *)
(* an entry just read stands behind some that were read in the same one.     *)
IsHit(f) == f \in InSeq(mcRows) /\ f \in mcDisk
Accessed(f) ==
  LET rest == RemoveFile(mcRows, f) IN
  IF IsHit(f) THEN \E i \in 1..Len(mcRows) : /\ mcRows[i] = f
                                             /\ \E p \in i..(Len(rest) + 1) : mcRows' = InsertAt(rest, p, f)
  ELSE mcRows' = rest

(* The thumbnails: the queue looks up and stores, the settings clear.        *)
ThumbnailRead ==
  /\ mcKind = "thumbnails" /\ MediaActs
  /\ \E f \in Cacheable : Accessed(f)
  /\ mcStored' = <<>>
  /\ UNCHANGED <<mcKind, mcDisk, mcAsk, mcCut, mcFlight, mcDied>>
ThumbnailStored ==
  /\ mcKind = "thumbnails" /\ MediaActs
  /\ \E f \in Cacheable : StoreFile(f)
  /\ UNCHANGED <<mcKind, mcAsk, mcCut, mcFlight, mcDied>>
ThumbnailsCleared ==
  /\ mcKind = "thumbnails" /\ MediaActs
  /\ mcRows' = <<>> /\ mcDisk' = {} /\ mcStored' = <<>>
  /\ UNCHANGED <<mcKind, mcAsk, mcCut, mcFlight, mcDied>>

(* Someone else deletes a file, or the app dies inside a store (the file     *)
(* without its row, or no eviction yet) or a clear (the rows without files). *)
FileLost ==
  /\ MediaActs /\ \E f \in mcDisk : mcDisk' = mcDisk \ {f}
  /\ mcStored' = <<>>
  /\ UNCHANGED <<mcKind, mcRows, mcAsk, mcCut, mcFlight, mcDied>>
AppDied ==
  /\ MediaActs
  /\ \/ \E f \in Cacheable :
          /\ mcKind = "thumbnails" \/ \E r \in MediaAsks : mcAsk[r] \in {[file |-> f, at |-> at] : at \in {"second", "main"}}
          /\ mcDisk' = mcDisk \union {f}
          /\ mcRows' \in {mcRows, Append(RemoveFile(mcRows, f), f)}
     \/ mcKind = "thumbnails" /\ mcDisk' = {} /\ mcRows' = mcRows
  /\ mcDied' = TRUE /\ mcStored' = <<>>
  /\ mcAsk' = [r \in MediaAsks |-> NoAsk] /\ mcCut' = {} /\ mcFlight' = 0
  /\ UNCHANGED mcKind

-----------------------------------------------------------------------------
(* ftp:downloadPreview.  Only its own entry is taken from inflight.        *)
Answered(r) ==
  /\ mcAsk' = [mcAsk EXCEPT ![r] = Done] /\ mcCut' = mcCut \ {r}
  /\ mcFlight' = IF mcFlight = r THEN 0 ELSE mcFlight
AskGoes(r, at) == mcAsk' = [mcAsk EXCEPT ![r].at = at] /\ UNCHANGED <<mcCut, mcFlight>>

(* A new request cancels the one before it; too large or cached, it is       *)
(* answered at once.                                                       *)
AskPreview(r) ==
  /\ mcKind = "previews" /\ mcAsk[r].at = "none" /\ \A s \in MediaAsks : s < r => mcAsk[s].at # "none"
  /\ \E f \in MediaFiles :
       /\ mcCut' = mcCut \union ({mcFlight} \ {0})
       /\ IF SizeOf(f) > FileLimit \/ IsHit(f)
          THEN mcAsk' = [mcAsk EXCEPT ![r] = Done] /\ mcFlight' = 0
          ELSE mcAsk' = [mcAsk EXCEPT ![r] = [file |-> f, at |-> "login"]] /\ mcFlight' = r
       /\ IF SizeOf(f) > FileLimit THEN UNCHANGED mcRows ELSE Accessed(f)
  /\ mcStored' = <<>>
  /\ UNCHANGED <<mcKind, mcDisk, mcDied, mcActs>>

(* A client of its own, or the main one in its turn; who was cancelled before *)
(* that does not begin.                                                    *)
CacheKept == mcStored' = <<>> /\ UNCHANGED <<mcKind, mcRows, mcDisk, mcDied, mcActs>>
SecondClient(r) ==
  /\ mcAsk[r].at = "login"
  /\ IF r \in mcCut THEN Answered(r) ELSE AskGoes(r, "second")
  /\ CacheKept
NoSecondClient(r) ==
  /\ mcAsk[r].at = "login"
  /\ AskGoes(r, "queued")
  /\ CacheKept
MainsTurn(r) ==
  /\ mcAsk[r].at = "queued" /\ \A s \in MediaAsks : mcAsk[s].at # "main"
  /\ IF r \in mcCut THEN Answered(r) ELSE AskGoes(r, "main")
  /\ CacheKept

(* A download of a second client that is cancelled loses its stream; one on   *)
(* the main client is left alone.                                          *)
PreviewCame(r) ==
  /\ mcAsk[r].at = "main" \/ (mcAsk[r].at = "second" /\ r \notin mcCut)
  /\ StoreFile(mcAsk[r].file)
  /\ Answered(r)
  /\ UNCHANGED <<mcKind, mcDied, mcActs>>
PreviewFailed(r) ==
  /\ mcAsk[r].at \in {"second", "main"} /\ Answered(r)
  /\ CacheKept

MediaInit ==
  /\ mcKind \in {"thumbnails", "previews"}
  /\ mcRows = <<>> /\ mcDisk = {} /\ mcAsk = [r \in MediaAsks |-> NoAsk]
  /\ mcCut = {} /\ mcFlight = 0 /\ mcStored = <<>> /\ mcDied = FALSE
  /\ mcActs = IF mcKind = "previews" THEN MaxMediaActs - 1 ELSE 0     \* one loss or death there

MediaNext ==
  \/ ThumbnailRead \/ ThumbnailStored \/ ThumbnailsCleared \/ FileLost \/ AppDied
  \/ \E r \in MediaAsks : \/ AskPreview(r) \/ SecondClient(r) \/ NoSecondClient(r) \/ MainsTurn(r)
                          \/ PreviewCame(r) \/ PreviewFailed(r)

MediaSpec == MediaInit /\ [][MediaNext]_mediaVars

-----------------------------------------------------------------------------
(* A store leaves the cache within its limit, or it has thrown away as many   *)
(* rows as one query gives, and never what it has just stored.               *)
StoreWithin ==
  mcStored # <<>> =>
    /\ TotalSize(mcRows) <= MediaLimit \/ mcStored[2] = EvictRows
    /\ IsHit(mcStored[1])

(* No file is left behind that no eviction will ever find, unless the app     *)
(* died; then it is the one file that was being written.                    *)
NoStrays == ~mcDied => mcDisk \subseteq InSeq(mcRows)

(* Only the newest request goes on: a preview in flight was not cancelled,    *)
(* and every other one is; no two downloads run on one client.              *)
OnlyNewest ==
  /\ mcFlight # 0 => mcFlight \notin mcCut /\ Working(mcFlight)
  /\ \A r \in MediaAsks : Working(r) /\ r # mcFlight => r \in mcCut
  /\ Cardinality({r \in MediaAsks : mcAsk[r].at = "main"}) <= 1
  /\ Cardinality({r \in MediaAsks : mcAsk[r].at = "second"} \ mcCut) <= 1

MediaSafe == StoreWithin /\ NoStrays /\ OnlyNewest
=============================================================================
