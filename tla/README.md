# A TLA+ verification project for ftp-browser

ftp-browser is an Electron FTP client. Its main process owns every connection and
every transfer; the renderer shows listings, tabs and a transfer panel; a small MCP
server and a command line client let an agent drive the same operations. What is hard
about the program is not FTP but the bookkeeping around it: several connections per
server, a limit on them that only the server knows, transfers that are cancelled,
retried, split into ranges and cleaned up while logins, timers and reconnects happen in
between. The window has the same problem again: what it shows follows from answers and
events that arrive late and overtake each other. This directory keeps models of both beside
the code.

Paths below are relative to the repository (`src/main/...`). Line numbers are in
`PROJECT.json` under `map`.

## 1. Inventory

### Main process, transfers

| part | state | operations | talks to |
|---|---|---|---|
| **Transfer connection pool** `transfer/TransferClientPool.ts` | `idle`, `inUse`, `connecting`, `limit`, `limitCap`, `mainFallback`, `probing`, `nextProbeAt`, `generation` | `acquire`, `release`, `discard`, `shrinkAfterLimitReply`, idle close, `slots` | main connection (`createSecondaryClient`, status events), queue |
| **Transfer queue** `transfer/TransferQueue.ts` | `jobs`, `work`, `active`, `running`, `segmented`, `backoff`, `loginFailures`, `loginHold`, `cancelled`, `localCleanups` | `enqueueBatch`, `cancel`, `retry`, `clearCompleted`, `borrow`, `pump`, and the asynchronous `run` of each attempt | pool, file system, server |
| **Segmented download** `transfer/segmentedDownload.ts`, `ftp/segmentWriter.ts` | `SegmentedDownload` per file: `remaining`, `restart`, `closing`, shared file handle | range planning, settle, stop, close | queue |
| **Relay lane** `transfer/RelayLane.ts`, `TransferHub.ts` | server-to-server jobs, one lease borrowed from each of two queues | enqueue, cancel, retry | two queues |
| **Folder plan** `transfer/folderPlan.ts`, `lib/sameSidePlan.ts` | none | walk sources against a destination into items, skips and conflicts | transfer handlers, conflict sheet |
| **Fast streams** `ftp/fastTransfer.ts` | one upload or range: replies, timers, sockets | pump a file to or from a data connection | pool client, file system |

Hard behaviour: every `await` in `run` (the login, `SIZE`, the open of the local file,
the transfer, the close and unlink of the partial file) is a point where the user may
cancel, retry or disconnect and where other attempts of the same file finish. A segmented
download has up to eight attempts that share one file handle. Correct means: each job
reaches a final state exactly once, no attempt is lost or run twice, a job that failed or
was cancelled leaves no partial file and never deletes a file the user had, and no slot or
connection is kept for good.

### Main process, connections and files

| part | state | operations | talks to |
|---|---|---|---|
| **Main connection** `ftp/FtpConnectionManager.ts` | `client`, `status`, `mainClientLock`, saved configuration | `connect`, `disconnect`, `runOnMainClient`, `reopenMainClient`, `createSecondaryClient` | everything that lists or changes the server |
| **Connection registry** `ftp/ConnectionRegistry.ts` | sessions by server key, logins in flight | `connect`, `disconnect`, shared logins | main connection, hub |
| **Long file operations** `ipc/localFsHandlers.ts`, `ipc/ftpHandlers.ts`, `operation/OperationManager.ts` | a job with a status and a cancel flag | copy, move, delete of many entries | file system, main connection |
| **Thumbnail queue**, **gallery preview queue** | pending requests, generation, secondary clients | request, cancel, reset | secondary clients, caches |
| **Caches** `CacheManager`, `PreviewCacheManager`, `ipc/previewHandlers.ts` | a row and a file for each entry | get, put, evict, a download per connection | file system, database |
| **Database** `db/database.ts`, `db/servers.ts`, `db/passwordVault.ts` | servers, recent paths, sealed passwords | migrations, save, delete, record, encrypt | file |

Hard behaviour: a reconnect while logins, listings and queued tasks of the old session
are in flight; a latest-wins request that is answered late; an operation cut short between a
copy and the removal of its original; a start of the app that dies between two migrations.

### Main process, agent and application

Agent activity and job tracking, the agent's tools, the MCP service (switched on and off
while requests are open, several runs of the app on one folder), the command line client,
the update manager, IPC glue. Hard behaviour: the user's Stop against calls at any point,
overlapping switches, late events, files of a run that died.

### Renderer

Listing and session stores (late answers), the explorer pane (history, selection, editing in
place), tabs, split view and their drags, the transfer store with its panel, the conflict
sheet and the sends that ask it, the shelf, saved servers and their manager, file kinds,
path bar, menus and side panes. Hard behaviour: an answer that arrives after the user went
elsewhere; a store read before an `await` and written after it; an event listener that
outlives the gesture it was made for; a focus that is given to somebody else.

The full list with a status for each part is `PROJECT.json` `components`, the hazards with
the properties that watch them are `hazards` there.

## 2. Plan

Modules in the order in which they were written: how much of the program depends on them.

| modules | composition | state |
|---|---|---|
| `TransferClientPool` | – | checked, state invariants proved |
| `TransferQueue`, `JobLifecycle` | the queue is shown to implement `JobLifecycle` | checked, safety and refinement proved |
| `MainClient`, `ConnectionRegistry` | the registry extends the main connection | checked, safety proved |
| `RelayLane`, `FastUpload` | run by `MCServices` | checked, safety proved |
| `RangePlan` | run by `MCServices`; discharges what `TransferQueue` takes for granted | checked, safety proved |
| `SlabWriter`, `FileOps` | run by `MCServices` | checked, safety proved |
| `ThumbnailQueue`, `GalleryPreviews` | run by `MCServices` | checked, safety proved |
| `MediaCache` | run by `MCServices` | checked, safety proved |
| `AgentActivity`, `AgentEndpoint` | run by `MCServices` | checked, safety proved |
| `AgentTools`, `AgentReading`, `CommandLine` | run by `MCServices` | checked, safety proved |
| `UpdateManager`, `PasswordVault` | run by `MCServices` | checked, safety proved |
| `ServerDatabase` | run by `MCServices` | checked, safety proved |
| `MoveSends` | run by `MCWindow` | checked, safety proved |
| `FolderPlan`, `ShelfDrops`, `ConflictSheet`, `ActivityPanel` | run by `MCWindow` | checked |
| `TabLayout`, `SplitConnect`, `SidePanes` | `SplitConnect` extends `TabLayout`; run by `MCWindow` | checked, safety proved |
| `ServerBook` | run by `MCWindow` | checked |
| `SessionView`, `FolderView` | run by `MCWindow` | checked, safety proved |
| `ExplorerPane`, `FileFilter`, `PathBar`, `ItemMenus` | run by `MCWindow` | checked |

What is left:

* theorems about the stores of the window that `ChoicesKept` gathers;
* the composition of pool and queue (section 3 says why they are apart), the MKD memo of upload
  batches, and the settings dialog.

## 3. The modules and the code

### TransferClientPool

One `Caller` is one activation of `TransferQueue.run`. `phase[r]` says where it is:
outside (`out`), awaiting a login (`login`), asleep inside `acquire` (`refusedWait` for
`REFUSED_LOGIN_BACKOFF_MS`, `limitWait` for the wait after a 421 that met a connection
just closed), or working on a pool client (`client`) or the main client (`main`). The code
between two awaits is one action.

| code | model |
|---|---|
| `idle`, `inUse`, `connecting`, `_limit`, `limitCap`, `mainFallback`, `probing`, `replyLimited` | variables of the same name |
| `nextProbeAt`, `probeCooldown` | `cooling` (`now < nextProbeAt`) and `cooldown`, the number of doublings |
| `lastClosedAt` | `recentClose` |
| `generation` | `stale`: the callers that read an older generation than the present one |
| local `probe` of `acquireAfterRefusals` | `prober` |
| `manager.getStatus()`, configuration | `session`, `dialing`, `configured` |
| `acquire`, `acquireAfterRefusals` up to its first await | `Acquire`/`WakeUp` → `Ask` = `UseMain`, `TakeIdle`, `AtLimit` or `BeginLogin` |
| the answers of `createSecondaryClient` | `LoginSucceeds`, `LoginRefused`, `LoginOverLimit`, `LoginIncorrect`, `StaleLoginLands` |
| `release`, `discard`, `shrinkAfterLimitReply` | `Release`, `Discard`, `ShrinkAfterLimitReply` |
| `armIdleClose` | `ArmIdleClose`, `IdleClose` |
| `onConnectionStatus` | `Dial`, `DialSucceeds`, `SessionLost`, `Disconnect` |

Time: a cooldown (2 s or more) outlasts every sleep (1 s or less), which is why
`CooldownEnds` waits for the `sleepers` that were asleep when it started and for no
others. `Infinity` as a `limitCap` is `MaxTransfers`, the largest number a configuration may
hold. A scheduler starts an item only while it runs fewer than `slots`; `Acquire` has that
guard, which is `pump`'s.

### TransferQueue

An item is `<<owner, part>>`: part 0 is a whole job (or a request of the relay lane for a
slot), the others are ranges of a split. `work` is the FIFO; `at[u]` is where the `run()` of
an item is, or `backoff` while its retry timer runs. Handlers work on the record
`[work, at, strays]` because one handler may pump twice; `Pumped` is `pump()`.

| code | model |
|---|---|
| `jobs[].status`, `retryCount`, `segment.retries` | `status`, `retries` |
| `active`, `running` | `at` (a run of every item), `Running(q)` |
| `SegmentedDownload` (`remaining`, `restart`, `closing`) | `split`, `remaining`, `restart`, `sole` |
| `item.oneStream` | `plain` |
| `loginFailures`, `loginHold` | `failures`, `hold` |
| `localCleanups`, the clean-up of a cancel | `cleanups`, `unlinks` |
| `retryAfterClose`, a retry that waits for `localCleanups` | `reviveLater`, `reviving` |
| the local path, `opened`, `claim.created` | `file` (`absent`, `theirs`, `partial`, `whole`), `opened`, `created` |
| `enqueueBatch`, `cancel`, `retry`, `clearCompleted`, `borrow`, the borrower's abort and `done` | `EnqueueBatch`, `Cancel`, `Retry`, `ClearCompleted`, `Borrow`, `AbortBorrow`, `BorrowDone` |
| `run` after `acquire` | `AcquireGrants`, `AcquireFails`, `AcquireLimited`, `StrayAnswered` |
| `startSegmented`, `transfer` | `SizeAnswers`, `OpenFails`, `OpenForSplit`, `OpenOneStream` |
| end of a one-stream transfer | `TransferSucceeds`, `TransferFails`, `TransferRequeued` |
| `runSegment`, `settleSegment`, `probeStream` | `SegmentEnds`, `ProbeSplit` |
| `closeSegmented`, `removePartial` | `FileClosed`, `SplitUnlinked`, `CleanupDone`, `CancelUnlinked` |
| timers | `BackoffEnds`, `LoginHoldEnds`, `ProbeWake` |

Where the model is coarser than the code, it allows more:

* The pool is any number of slots between 1 and `MaxSlots`, changing at any moment, and any
  answer to `acquire()`. The two modules are not composed: the queue must be right whatever the
  pool learns. That `slots` is at least 1 is `LimitInRange` of the
  pool, which is proved.
* `work` keeps only items that `isRunnable()` accepts; those the code skips later are dropped
  when they stop being runnable. A run that still waits for a client on behalf of a range that
  was dropped is counted in `strays`, because it keeps its slot and pumps when it ends.
* Each job has a path of its own. Two jobs on one path are the concern of who plans them (`FolderPlan`).
* Contents of a file: a one-stream transfer that ends well makes it `whole`, an open makes it
  `partial`. Whether ranges cover the file is arithmetic on sizes: `RangePlan`.
* Several jobs may run on the main client together; the code's chain of main-client tasks
  makes them take turns (`MainClient`).

### MainClient and ConnectionRegistry

`MainClient` has the state of `FtpConnectionManager`; `ConnectionRegistry` extends it with the
entry of one key in the registry's `logins` and makes connect and disconnect go through it, the
only way they are called. A `Dial` is a call of `connect()`, a `Task` one of `runOnMainClient()`,
a `Client` a `basic-ftp` client with its control socket. Sessions of other keys share nothing.

| code | model |
|---|---|
| `client`, `_connected`, `_config`, `_status` | `client`, `connected`, `config`, `status` |
| `client.closed` | `client \notin open` |
| socket listeners of `monitorConnection` | `watched` |
| `connectGeneration`, compared with a saved value | `dial[d]` (`current` or `stale`), `outdated` for tasks that log in again |
| `mainClientLock` and the chains it replaced in `connect()` | `chain`, `orphans`: sequences of tasks, the first may run |
| local `client` of a task or of `reopenMainClient` | `using` |
| `logins.get(key)` | `login` |
| registry `connect` → manager `connect`, and its end | `StartLogin` (`Connect`), `LoginEnds` (`DialSucceeds`, `DialFails`) |
| registry `disconnect` → manager `disconnect` | `EndSession` (`Disconnect`) |
| `runOnMainClient` until its turn; its turn; its end | `RunOnMainClient`; `TaskRejected`, `TaskRuns`, `TaskReopens`; `TaskEnds` |
| `reopenMainClient` | `TaskReopens`, `ReopenSucceeds`, `ReopenFails` |
| close without an event (basic-ftp drops its listeners first), `close`/`end`/`error` of the socket | `ClosesSilently`, `LossHeard` |

`Turn` looks into every chain, so that a task of a chain that `connect()` let go of still runs when the one
before it settles: that is what the promises do. `NobodyReady` is the event loop: the callbacks of
settled promises run before the network answers again. Two tasks on one client (`Collides`) may
close it, which is what basic-ftp does.

### JobLifecycle

What a caller of the queue may rely on, in four variables: the life of each job, its counted
tries, whether it runs as one stream, and what is at its local path. `TransferQueue` maps to it by
`life <- status`, `tries <- retries[Whole(j)]`, `oneStream <- plain`, `copy <- file`, and
`KeepsLifecycle` (`Lifecycle!Spec`) is a PROPERTY of `queue`: every step of the scheduler, the
splits, the clean-ups and the timers is a step of that small machine or a stutter. `MoveSends`
and `AgentActivity` see a job only as it is described there.

### The services of the main process: MCServices

The services below share no state in the code but through calls whose answers are inputs here, so
`MCServices` runs one of them in each behaviour, chosen in the initial state by `service`; the
others stay as they began. One harness checks them all, with one property for each family.

| module | code | state and actions |
|---|---|---|
| `RelayLane` | `RelayLane.ts` | a job borrows a client of the queue of the lesser key, then of the other (`Lend`), makes its directory once for the batch, pipes, is retried or cleaned up; cancels between any two |
| `FastUpload` | `fastTransfer.ts`, `fastUpload`; the use of its end in `run()` | replies, data connection, control connection and local file end in any order (`upTask`, `verdict`) |
| `SlabWriter` | `segmentWriter.ts` | slabs with reference counts, full and partial flushes, pause, end, failure |
| `RangePlan` | `segmentedDownload.ts`, `probeStream()` | ranges byte by byte for every size and limit, and the second split of a slow stream while bytes are on their way |
| `FileOps` | `local:copyFiles`, `local:delete`, `ftp:deleteBatch`, `deleteDirectory()`, `agentOps.ts`, `OperationManager.ts` | a small tree with a file and two folders, failures and a cancel at every step, and somebody who puts a file in meanwhile |
| `ThumbnailQueue` | `ThumbnailQueue.ts` | batches of viewers, generations of `cancelAll`, secondary clients and the turn on the main one |
| `GalleryPreviews` | `RemoteGalleryPreviewQueue.ts`, `RemoteFolderPreviewCache.ts` | requests that join, the last viewer that leaves, invalidation |
| `MediaCache` | `CacheManager.ts`, `PreviewCacheManager.ts`, `previewHandlers.ts` | row and file apart, eviction, a death between them, the one download of a connection |
| `AgentActivity` | `agentActivity.ts`, `jobTracker.ts`, `OperationManager.ts` | calls that plan, jobs they start, the Stop, reports that come late |
| `AgentTools` | `mcpTools.ts`, `agentOps.ts`, `agentTarget.ts` | each call finds its connection and goes from command to command; others change files and connections |
| `AgentReading` | `mcpTools.ts`, `thumbnailPreviews.ts` | pages of a folder; the queue of previews of each connection |
| `AgentEndpoint` | `McpService.ts`, `discovery.ts` | two runs of the app on one folder: listen, publish, withdraw, die, each file call a step |
| `CommandLine` | `ftpb.ts`, `toolArgs.ts`, `discovery.ts` | the client reads two files, asks, calls, while the app dies or makes a new token |
| `UpdateManager` | `UpdateManager.ts` | checks and downloads that join, the setting that changes in between, quit |
| `PasswordVault` | `passwordVault.ts`, the password columns of `servers.ts`, `ftp:connect` | migration, encryption anew, saves and logins, each read–wait–write |
| `ServerDatabase` | `database.ts`, `servers.ts` | the migrations statement by statement with a death at each, servers and recent paths |

### The window: MCWindow

In the same way `MCWindow` runs one `store` in each behaviour. Where stores act on each other in the
code, the module has both: `SplitConnect` has the tabs and the toolbar's connect, `MoveSends`
the sheet's verb and the queue's reports, `ServerBook` the rows in the database, `ExplorerPane` the
listing.

| module | code | state and actions |
|---|---|---|
| `MoveSends` | `useTransferStore.ts` (`send`, `runMoveCleanup`), `sendItems.ts` | batches of a send, their verb, jobs as reported, the registrations for the removal of originals |
| `FolderPlan` | `folderPlan.ts`, `entryName.ts`, `sameSidePlan.ts`, `transfer:send` | plans of a download, upload, relay or move as functions (`place()` and `collect()` call themselves for a folder; here what is sent is at most a folder of files deep), decisions of the sheet, a destination that changes while it is open |
| `ShelfDrops` | `useShelfStore.ts`, `dnd.ts`, `sendPlan.ts`, `sendItems.ts` | shelf, drags, sends that end in parts |
| `MoveSends`, second part | `remoteDrop.ts`, `sendItems.ts` | renames with the replaced file put aside, two moves at a time, answers lost |
| `ConflictSheet` | `ConflictSheet.tsx`, `askConflicts()`, `resolveConflicts()` | the queue of askers, the choice shown and the choice stored, "for the rest" |
| `ActivityPanel` | `useTransferStore.ts`, `TransferPanel.tsx` | rows of sends and batches, what closing hides, updates before answers |
| `TabLayout` | `useTabsStore.ts`, `splitLayout.ts` | operators on a layout: tabs, active tab, pair |
| `SplitConnect` | `splitConnect.ts` | attempts, their time-out and their undoing |
| `TabLayout`, second part | `TabStrip.tsx`, `useTabDrag.ts`, `SplitOverlay.tsx` | pointer, dwell timer, the click that is to be ignored, the menu of a tab |
| `SidePanes` | `sidebarLayout.ts`, `useLayoutStore.ts`, `useResizableSidebar.ts` | remembered and drawn widths, a drag on a snapshot |
| `SessionView` | `useFtpStore.ts`, `useConnectionStatus.ts`, `useAgentSync.ts` | what is shown of a connection against what the main process has |
| `ServerBook` | `useServerStore.ts`, `ConnectBar.tsx`, `ServerManagerDialog.tsx`, `servers.ts` | draft, selected server, typed password, calls under way |
| `FolderView` | `useListingStore.ts`, `useAgentSync.ts` | listings, LISTs under way, changes told and gathered |
| `ExplorerPane` | `Explorer.tsx`, `selectionModel.ts` | history, selection, name edited in place, delete, rename, new folder under way |
| `FileFilter` | `fileCategories.ts`, `fileCategoryEdit.ts`, `entryList.ts` | categories and their edits, filter of a tab, what is left of a folder |
| `PathBar` | `PathBar.tsx`, `pathBarTools.ts`, `pathCrumbs.ts` | tools that fit, search field, typed path |
| `ItemMenus` | `ItemMenu.tsx`, `Explorer.tsx`, `PathBar.tsx` | menus of two panes, keys, submenu, who gets the keyboard |

`Filtering` has the operators on sequences that the libraries define in a form the provers cannot open:
`Picked(s, K)`, the elements at the positions `K` in their order, `Only(s, S)`, those in `S` (`SelectSeq`), and the
sums of a sequence. `TransferQueue`, `PasswordVault` and `GalleryPreviews` use them for the elements of a queue
that stay when others leave from its middle, `SessionView` for the calls that a login answers, `ServerDatabase`
for the recent paths, `MediaCache` for the size of its rows, `SlabWriter` for the bytes of a write and `AgentReading`
for the images that are fine.

In `PROJECT.json` a `map` entry stands for an operation together with the helpers whose code lies within
its lines.

React is modelled by what it does: an event handler is one step, what follows from state on the
next render (effects, focus, measuring) is part of that step (`Settled` in `ExplorerPane`, `Commit` in
`PathBar`) unless something can come between, as it can between two messages of IPC.

## 4. The runs

| run | instance | asks | shows |
|---|---|---|---|
| `pool` | 3 callers, 4 clients, at most 2 transfers, 1 retry after a refusal | `CountersExact`, `ClientsInOnePlace`, `FallbackExclusive`, `StaleAnswersHarmless`, `LoginsWithinLimit` | counters stay exact, no client is lent twice or leaked, answers of an old session change nothing |
| `pool_progress` | 2 callers, 3 clients, no symmetry | `EveryAskAnswered` | neither retries nor sleeps keep a slot for good |
| `pool_cap` | 4 callers, 3 transfers | `CapCoversHeld` | **finding** |
| `pool_configured` | 3 callers, 2 transfers | `LoginsWithinConfigured` | **finding** |
| `queue` | a batch of a large download and an upload, 2 slots, 1 retry, 2 login failures, 1 retry by the user | `NothingForgotten`, `OneAttempt`, `RangesTracked`, `FailedLeavesNothing`, `KeepsLifecycle` | the scheduler, the splits and the clean-up in every interleaving, and the refinement |
| `queue_files` | one exclusive large download in up to 3 ranges on 2 slots, 2 retries by the user, rows cleared from the list | `CompletedIntact`, `NoLateRemoval` | who removes which file, and when |
| `queue_progress` | one large download and a borrower, one slot | `EveryJobSettles`, `RevivalKept` | a job ends whatever the server does, a single slot is shared |
| `queue_cancel` | one exclusive download | `CancelLeavesNothing` | **finding** |
| `session` | 2 logins, 2 tasks, 4 clients | `SessionHonest`, `ChainSerialises`, `StartsOnSession`, `NoResurrection`, `LoginsShared`, `SocketsKept`, `EveryTaskEnds` | late answers change nothing, what is reported holds, every task ends in whatever chain it was left |
| `session_shared` | the same, symmetric | `OneTaskPerClient` | **finding** |
| `services` | two of what each service serves | `RelaySafe`, `UpSafe`, `RangePlanSafe`, `DiskSafe`, `ThumbSafe`, `GallerySafe`, `AgentSafe`, `CommandsSafe`, `EndpointSafe`, `UpdateSafe`, `VaultSafe`, `ServicesSettle` | each service keeps its promises under every order of answers, cancels, failures and deaths, and comes to rest |
| `window` | two sends, servers, connects, panes or askers, one folder | `SendSafe`, `FolderViewSafe`, `ViewSafe`, `LayoutKept`, `ChoicesKept`, `WindowSettles` | what is shown is what there is, what is done is done to what was shown, and every store comes to rest |

The type invariants of pool, queue and session are a part of `CountersExact`, `OneAttempt` and
`SessionHonest`, and a theorem each. Most properties of `services` are stated in the module of their service.
Two gather several: `DiskSafe`, what this computer keeps, is `SlabSafe`, `FileOpsSafe`, `MediaSafe` and
`DatabaseSafe`; `CommandsSafe` is `ToolsSafe`, `ReadingSafe` and `LineSafe`. Two of
`window` do the same: `LayoutKept` is `SplitSafe`, `StripSafe` and `SidesSafe`; `ChoicesKept`, that what is done is
what the user chose, is `PaneSafe`, `FilterSafe`, `BarSafe`, `MenusSafe`, `BookSafe`, `ShelfSafe`, `SheetsSafe`,
`FolderPlanSafe` and `PanelSafe`. Each part is stated with a comment in its module.

### Bounds

* Pool: with `maxTransfers` 2 the limit can be below, at and above the number of connections,
  so every branch of `acquire` is reached with a probe, a login and a lent client at once; a
  third caller is needed for a stale login next to both. One entry of the refusal backoff has
  a first, a last and a "no more" attempt. Four clients are one more than can be open, so a
  new login never has to reuse an identity still named somewhere. `pool_cap` needs four.
* Queue: two items of different kinds compete for two slots, and one of them splits, so three
  items compete. One automatic retry is a first attempt, a retry and an exhausted one;
  `MaxLoginFailures` 2 is a hold and a round that fails everybody. One retry by the user is
  enough to meet the clean-up of the attempt before; `queue_files` has two because a second
  may be asked for while the first still waits. Three ranges are the least with a range that
  is neither the head nor the last, and the least with which a second split queues two; they are
  in `queue_files`.
* Session: two logins are one that counts and one overtaken; two tasks are one in an old chain and one in the
  new, both of which may log in again. Four clients are then the main one, one for each task and one
  for an overtaken login. `Spare` (environment) keeps connect and new tasks away while the identities
  would run out; no answer and no loss is kept away by it.
* `MaxRevivals` bounds `Retry`, `MaxCooldown` bounds the doublings of the cooldown. In these modules
  nothing else is cut off: the other counters are bounded by the code.
* Services: two servers, jobs, viewers, calls or runs of the app, since every hazard listed is one of a
  pair; three folders for the gallery, so that one waits while two are served. Sizes are the least at which
  the arithmetic differs: `FileSizes` 3, 5, 6 with ranges of 2 and up to 3 streams have a shorter last range and a
  full one; `Sendings` 4, 5, 6 around a range of 5 are a server that sends too little, all and too
  much; the `MediaFiles` are of sizes around `MediaLimit`, and `EvictRows` 2 stands for the 100 rows that are looked at. Two starts of
  the app are one that dies in the migrations and one that meets what it left; `RecentLimit` 2 stands for 20.
* Window: a send of two files in one batch with a copy on this computer beside it, three tabs, two attempts to connect.
  `MaxLoads` 1 with two changes and one loss is a reload beside the one after a change and the one of the new connection. The widths of
  `BarWidths` and `RowWidths` lie on both sides of every threshold of `pathBarTools.ts` and
  `sidebarLayout.ts`. All other `Max...` constants bound what the user and other clients do
  (`...Acts`, `...Steps`, `...Changes`), never the answers.

Symmetry is used for callers and clients in safety runs only; TLC's liveness checking is run
without it.

### Fairness

Weak fairness of a handler that follows an await says that the await ends. The code justifies
it by time-outs: logins and data connections of basic-ftp have `CLIENT_TIMEOUT_MS` (30 s), timers
fire, `fs` calls return. `EveryJobSettles` needs three assumptions more, written at `Fairness`:

* a client is not refused for ever (strong fairness of "granted or failed" against `LIMIT`):
  the queue asks again only while it has a slot, and the pool's limit is lowered by each refusal
  until it is one, when the main client takes over;
* the reply the pool learns from does not go on for ever (strong fairness of the counted ends of
  a transfer): `shrinkAfterLimitReply` requires another open connection (TS9 of
  `docs/handoff/transfer-stability.md`) and closes one each time;
* the relay lane gives a borrowed client back.

The session assumes strong fairness of the steps of a task and of the answers to logins: all of them end by
`CLIENT_TIMEOUT_MS`. Weak fairness would not do, because `NobodyReady`, which only orders callbacks
within a turn of the event loop, goes on and off while other tasks come and go.

`services` and `window` assume, for the service or store that runs, weak fairness of its `...Progress`
(`Fairness`), which holds the answers, reports, timers and handlers that follow an
await, and nothing the user, an agent, another client or a failure does. Since those are bounded in number, "comes to rest"
is not bought by their stopping. Modules without one (`RangePlan`, `PasswordVault`, `AgentTools`, `MediaCache`,
`ServerDatabase`; `FolderPlan`, `ExplorerPane`, `FileFilter`, `ShelfDrops`, `TabLayout`,
`SidePanes`, `ActivityPanel`, `PathBar`, `ItemMenus`, `ConflictSheet`) are checked for safety only.

No fairness is assumed of the user, of clearing, of slots growing, or of the network losing a
connection.

`CHECK_DEADLOCK FALSE` is set where the system may really stop: with a single slot count, nothing to
clear and every job ended nothing is left to do (`queue_progress`, `queue_cancel`); a service or
a store of which nothing more is asked is at rest (`services`, `window`).

### Findings

* `pool_cap`: the class comment says that after a 421 the number open or being opened becomes the
  cap. When an ordinary refusal had lowered the limit before, the cap is fixed at that lower number.
* `pool_configured`: a probe begun between "connecting" and "connected" is still discounted
  after the limit is set anew, so one login more than `maxTransfers` is begun.
* `queue_cancel`: a download cancelled while it waits for its automatic retry (or for a slot
  after a reply the pool learnt from, or for its run as one stream) keeps its partial file; only a run in
  progress removes it.
* `session_shared`: the comment on `mainClientLock` promises that everything that shares the main client
  takes turns. `connect()` replaces the chain while tasks of the old one may still wait for a task
  that settles late; such a task then runs on the new client beside a task of the new chain, and basic-ftp
  closes the client. For the same reason two tasks may log in again at once, and the second forgets the
  open socket of the first: the one exception `SocketsKept` names.

### Seen while modelling

What follows is in the models, since they are translated from the code, and so is excepted from the
properties above. Some of it has a definition of its own that TLC refutes when it is asked
(named in brackets); none of it has a run.

Transfers and files

* A folder that changes while its first image is being read gets a preview stored after the invalidation
  (`CacheFresh`; comment at `galleryHandlers.ts:65`, `RemoteGalleryPreviewQueue.ts:176`).
* A local read error of an upload on the fast path may be counted against the fast path
  (`LocalErrorNotBlamed`; `fastTransfer.ts:394`).
* `ftp:deleteBatch` never gives `isCancelled` to `deleteDirectory`, so a cancel takes effect between
  the targets only (`ftpHandlers.ts:285`).
* An upload or relay of a file and a folder of one name from two parents plans the path as a file and
  as a folder (`folderPlan.ts:288`, comment at 260).
* With two batches, the removal of originals may be given up as if the jobs had gone from the list while they are
  still on it (`GoneMeansGone`; `useTransferStore.ts:206`); the originals stay.
* A thing dragged from the shelf while the shelf is being dropped is sent twice, and one taken back and shelved again
  meanwhile is removed at the end (`sendItems.ts:309`). A drag whose tile was unmounted and that
  ends outside the window leaves its items for the next drop of files (`dnd.ts:49`, 183).
* On servers where a rename overwrites, two overlapping moves into one folder may replace the original that the
  first put back; a lost answer of the first rename leaves the file under its hidden name, untold (`remoteDrop.ts:56`).
* The sheet stores the chosen decision, not the one shown for a folder, when the choice is to be remembered.
* A thumbnail login of an older generation that fails late closes the secondary clients to the new one
  (`ThumbnailQueue.ts:204`). Eviction looks at 100 rows at a time, so a cache of small files may stay above
  its limit (`CacheManager.ts:144`). "No connections pile up" (`previewHandlers.ts:72`) holds for
  downloads, not for logins.

Servers, sessions and the database

* A cancelled connect may still come up (`CancelSticks`; `useFtpStore.ts:42`). What a connect puts into the listing cache
  may be older than what is there (`useFtpStore.ts:144`); changes told just before a loss are dropped with the
  debounce (`useAgentSync.ts:46`).
* The window may ask for what the main process says it never asks for, a saved password for a login that was
  changed meanwhile (`WindowNeverAsks`; `ftpHandlers.ts:70`). The toolbar's draft may name a server that was
  deleted while a save was answered (`DraftKnown`; `useServerStore.ts:250`), and the manager's form another server
  than the selected one (`FormIsSelected`; `ServerManagerDialog.tsx:208`). Closing the manager while its Connect still saves does not stop the
  connect; cancelling a connect to a server that is connected disconnects it.
* A login that keeps its password may partly undo a save made meanwhile (`servers.ts:190`).
* After the takeover of the old recent paths one path under two spellings of a host is listed twice until visited.
  Editing one of two legacy rows so that both are spelled alike fails with SQLite's own message; deleting or
  moving one takes the paths of both. Visits recorded after a server was deleted while connected leave
  paths without a server. There is no single-instance lock (`index.ts`).
* A download that ended may be shown as an update to download when a check ends after it (`ReadyKept`;
  `UpdateManager.ts:25`, 67, 103).

Agents

* On, off and on again within one listen leaves the service closed though it is switched on: the `stop()` of
  the second waits for the listen that the third joins (`McpService.ts:112`). The agent's rename checks the target and renames in two commands. Exit code 4 of the
  command line may follow a tool that ran. A job that ended and was cleared within one flush is reported
  as unknown.

Window

* The timer of one attempt to connect a pane may give up another one to the same server (`TimerOwn`; `splitConnect.ts:142`).
  Undoing an attempt does not always bring back the pair that was hidden at its drop (`RestoredHidden`), and
  the mark that keeps the automatic connect away may go while a second attempt to that server waits (`PendingMarked`).
* A delete that ends while the user types a name or searches gives the keyboard to the list: the half-typed name is
  submitted, a selection made meanwhile is cleared (`Explorer.tsx:607`).
* The badge of the file filter counts a category without extensions, which filters nothing (`BadgeIsFilter`).
* A key pressed between a cancelled tab drag and the release, also an Escape that repeats, lets the release
  select the tab (`useTabDrag.ts:131`).
* While a closed side pane is dragged open, the other keeps its width and the middle may be narrower than its least
  until the release; a shortcut used during a drag is overridden by its end.
* A batch that begins, ends and is cleared within one flush leaves a hidden row (`useTransferStore.ts:378`).
* A typed path answered late moves the tab although the user went elsewhere (`PathBar.tsx:70`); leaving the typed
  path always gives the keyboard to the list (`Explorer.tsx:1010`); after a resize or the path input has
  remounted the search field, Ctrl+F does nothing while the field is open.
* Entries of a menu are chosen by index, so destinations that change shift under the highlight
  (`Explorer.tsx:728`); ArrowUp with nothing chosen goes to the last but one (`ItemMenu.tsx:133`); a bar's
  menu closed by Enter or Tab leaves the keyboard on the body.

## 5. Proofs

TLAPS checks the theorems of seven modules. Each is about the specification that TLC runs, for every
value of the constants that the assumption of its module allows; `PROJECT.json` `theorems` lists them.

| module | about | assumed |
|---|---|---|
| `TransferClientPoolProofs` | the state invariants and the two action properties of the pool | `PoolAssumption`: finite sets of callers and clients, a positive `MaxTransfers`, the default within it |
| `ConnectionRegistryProofs` | state and action properties of the run `session` | `NoClient` is no client, `NoLogin` no login |
| `TransferQueueProofs` | the invariants of the runs `queue` and `queue_files`, and the refinement of `JobLifecycle` | `QueueAssumption`: finite sets, positive bounds, the jobs of a batch named once |
| `ServiceProofs` | nine services of the run `services` | the assumption of each module: finite sets, bounds in `Nat` |
| `WindowProofs` | `SendSafe`, `FolderViewSafe`, `ViewSafe` and `LayoutKept` of the run `window`, for the specification of the run | `MoveAssumption`, `RemoteMovesAssumption`, `FolderViewAssumption`, `ViewAssumption`, `PaneAssumption`, `TabDragAssumption`, `SidePanesAssumption`: finite sets of batches and folders, jobs of one batch each, servers and bounds in `Nat`, widths in `Nat` |
| `DiskAndCommandProofs` | `DiskSafe` and `CommandsSafe` of the run `services`: the other seven services, and both properties for the specification of the run | the assumptions of `MCServices`: finite sets, bounds in `Nat` |
| `Filtering` | what is left of a sequence when elements are taken out of its middle, and sums | nothing |

All follow one layout: the inductive invariant as a conjunction of named parts; lemmas about the
operators the actions share; one lemma per conjunct or per action, with one step per disjunct; the
invariance by PTL; then each property from the invariant. The invariants that
strengthen a property hold under TLC too, on the instances of section 4.

### The pool

The inductive invariant `IInv` is the conjunction of the invariants the run checks and
`RefusalsBounded`. Two strengthenings are needed. A caller wakes from `refusedWait` with one
refusal more, so typing alone does not keep `refusals` in its range: the sleep is entered only with
an entry of the backoff left, which is `RefusalsBounded`. And `stale` and `sleepers` are typed by the
phases they may be in (`Waiting`, `Asleep`), without which an answer of a stale login could
find a caller that has already left. `FallbackExclusive` rests on `ConnectingCounted`: the main client
is chosen when the counters say that nothing is open or being opened, and only the exactness of
`connecting` turns that into a statement about callers.

The action properties follow from `IInv` and `OwnPhase`, that only a caller's own steps move it. For
`LoginsWithinLimit` the counters that `acquire()` compares must be what they stand for, before the step
and after it. The statement is about `limit`, not `slots`: "clients lent and logins under way never
outnumber `slots` when a login is begun" holds with three callers, and TLC refutes it with four and two
retries. A login refused twice sleeps past the end of the cooldown that its first refusal
began, a second refusal lowers `limit` below the logins under way, and the sleeper probes above both.

### The session

The inductive invariant `IInv` of `ConnectionRegistry` adds to the properties:

* `ChainsExact`: every task that is not over stands exactly once, in one chain. "Only the first of a chain has
  begun" is not inductive without it: the end of a task must shorten the one chain it heads and no other.
* `SecondLogins`: a second login that still counts exists only while there is a configuration and no
  login of `connect()`. Without it a late second login could replace the client of a login that counts.
* `DialClients`: the login that counts uses the main client, the client of an overtaken one is closed. Typing
  rests on it (a watched socket is open), and so does `SocketsKept`.

### The queue

`Inv` is `TypeOK`, `QueueOK` (the line holds an item once, and only items that are neither running nor
waiting for a timer), `NoStall` (a free slot and an item that can start do not coexist), and `OwnerInv`
for every job and borrower: `WholeInv` says in which phases of its item a job of each status can be,
`SplitInv` which phase of its split goes with which items, `RangesInv` which items of ranges exist,
`CountInv` that `remaining` counts the ranges that are alive, `RemovalsInv` which removals may be under
way, `FilesInv` what is at the local path. None of the six is inductive alone:
"the file of a completed download is whole" needs that no removal is under way, and that needs that a
retry waits behind the clean-up of the attempt before, whether a cancel or the end of a split began it.

A handler changes the items of its own job and then pumps. So the proof has two halves. Lemmas on
`Pumps` and `ShufflesTo` say what `pump()` does to an item of anybody else: nothing, or it moves from the line to
"asking for a client", and an owner whose items moved only so keeps its `OwnerInv` (`Alike`).
`OwnerStep` then leaves, for each action, the one owner it is about. `NoStall` follows from the
end of `pump()`: it stops when no slot is free or nothing is runnable.

`LifecycleKept` is the refinement: every step is, under the mapping, a step of `JobLifecycle` or a stutter. It
rests on `Inv`, since for instance "a completed job is never failed" is a guard of the abstract machine and in
the code a consequence of who may still run. `JobLifecycle` states no fairness, so nothing temporal is left over.

### The services

* `RelayInv`: a job is at one place of its life, stands in the line of the server whose client it needs next
  and in no other (`Wants`), and holds the clients of the servers it has come past (`Holds`). The counting of
  `RelaySafe` follows from that and from each line being without repetitions.
* `UpInv`: which replies may be under way at each stage of the server (`RepliesFit`), what the data connection
  has passed on (`DataFits`), and who is blamed (`BlameFits`). That a client which is used again has no reply to
  come is only visible with the stage of the server.
* `ThumbInv`, `GalleryInv`: the clients of the pool are the idle ones and those of work of the present
  generation (`ClientsFit`, `SlotsFit`), and work, queue and keys in progress are the same things counted
  three ways (`WorkFits`, `ItemsFit`). `NoStall` of the gallery is part of it.
* `AgentInv`: call by call what it has begun, what of it is tracked and what a Stop has reached
  (`CallOK`, `JobOK`, `StopOK`), and that the sign is there exactly while something counted runs (`Sign`).
* `EndpointInv`: the port is the lock of the two files. Each run that writes or removes them holds the port
  (`PortOK`, `FilesOK`), and a switch waits for what the one before began (`SwitchOK`).
* `VaultInv`: a row holds what its user meant in one form (`RowsOK`), what a login was told to use is what was stored
  for that address (`RevealsMatch`), and every plain password that is left is on the list of the migration
  (`PlainListed`), without which "no plain one is left" is not inductive.
* `UpdateInv`: the handler that installs at quit is there exactly when the file is.
* `PlanInv`: the ranges cut the file (`Pieces`), no range has received more than its part nor more than the file, and
  the sum is the number of bytes of the settled ranges. "Cut" says more than `RangesTile`: that no two ranges
  overlap and that each byte is in one, which from "each begins where the one before ends" would need an
  induction over the ranges; here both are proved of `planSegments()` once, with the least range that ends
  behind a byte (`LeastOf`), and kept by every step. The rest is the arithmetic of the division.

### The disk

`DiskIsKept` is `DiskSafe` for the specification of the run: in each behaviour one of the services takes steps, so the
four invariants hold together when each is kept by the steps of its own module.

* `FoInv`: what of each file and folder is where at each step (`FoCopies`, `FoDeletes`), which stages an operation
  has (`FoStages`), and what an end says (`FoEnds`). "Nothing of a move that went well is left but what others
  put there" needs that a folder which stays has one of them under it (`FoMoved`), for both levels of tidying up.
* `SwInv`: a slab has one reference for each piece in it that is not written and one for the socket that reads into it
  (`SwSlabs`); the bytes that are not yet in the file follow those that are, piece after piece, and those of the
  socket's slab come last (`SwBytes`). That the file is right after a write is then the arithmetic of cutting a row of
  pieces at the room that was computed when the write began, which a split may have changed meanwhile (`SwRoom`).
* `McInv`: the rows are there once and can be cached at all, one request at most is on the main connection, and every other
  one that works was cut. An eviction ends within the limit because the rows it keeps
  are a part of the rows whose sizes add up to no more than that.
* `DbInv`: what each statement of a start has done (`DbMade`), so that until the new table of recent paths is there
  nothing was done that would change what it has to take over (`DbPaths`). "What was removed never comes back" is not
  inductive without it: a second start would take the old paths over again.

### The commands of agents

`CommandsAreSafe` is `CommandsSafe` for the specification of the run, in the same way.

* `ToolInv`: what a call knows of the connection it acts on and of the name it is about to replace (`ToolCallOK`): a call
  that goes on to a rename or an upload has either leave to replace or has seen that nothing was there. That no command
  begins after a Stop rests on each step asking again (`haltIfStopped`), and on nothing the step before knew.
* `RdInv`: the pages so far are the first entries of those that match, as many as the cursor says (`ReadPages`); the
  entries are ranked, and a rank has one entry, by counting those before it. Every call in the queue of previews is
  there once, and each of its images is that of the request in its place (`Paired`), across images that are made for
  an earlier request of the same path and a queue that fails all at once.
* `LnInv`: a tool that ran did so with what `parseToolArgs()` made of the line. What that is follows from an argument over
  the words read so far: `OpenIs` says which flag waits for a value, `SoFar` what the values read amount to, and each word has
  one of four effects (`Effect`). So `RanAsWritten` holds for lines of any length, of which TLC has those
  of `MaxTokensGiven` words.

### The window

* `MoveInv`: a batch is registered from its part being sent until its deletion, and not twice (`BatchFits`); all
  jobs of a batch are in the list of the main process or none (`ListedFit`), also in the older lists that the
  window works from (`JobsFit`); the verb is open as long as a part can still ask (`OpenFits`). "Only when
  every file has come" is a statement about the main process, read off a list that is old: that holds because a
  job seen as completed is completed for good. `JudgeKeeps` is about two clean-ups that overlap at an await.
* `MovesInv`: each file of a move has one of three places (`OwnFits`: where it was, aside, where it goes), by the
  command its run is at, and only its run touches the first two. `AloneFits` says what a run that does not overlap another knows of
  the folder it moves to, and from that comes "moves that do not overlap replace nothing by a rename".
* `FolderViewInv`: a LIST of the present generation holds what the folder holds, or the event of a change of it is still to
  come or to be acted upon (`AskFits`, `SureFits`). `ShownAsItIs` is about a state with nothing under way; the disjunct
  makes it inductive.
* `ViewInv`: the last word is on the wire. `ViewSafe` speaks of a window to which nothing is on its way; before that
  each of the four things it must not show is either not shown, and no message says it, or a status still to come
  overrules it and nothing behind that says it again (`Word`). "Connecting" is the window's own word and no status, so there
  the third way out is an attempt of the present generation whose answer is to come (`Awaited`). Order on the
  wire is what the argument rests on: a status handed over before an answer is read before it.

`SendsAndViewsAreSafe` states the four for the specification of the run. The stores share no variable, so each step of
the run is one of a store or leaves it as it was.

### The layout of the window

`LayoutIsKept` is `LayoutKept` for the specification of the run, from an invariant for each of three parts.

* `SplitInv`: the tabs stand once each, the pair side by side (`LayoutFine`), which every operation of the tabs keeps,
  those included that take a tab out, put one in at a place, or swap two. "An untouched drop that was undone left
  nothing behind" is not inductive: before it is undone, the tabs must still be what the drop made of those it found
  (`DroppedAt`, part of `AttemptFine`), for every attempt at once and through everything the others do. Undoing is then an
  equation about sequences (`RevertGives`): what was put in, appended or swapped comes out again, by cases on whether
  the split was shown and which half was dropped on. `Frame` is the queue: who waits is in it once, and one logs in.
* `StripInv`: a drag is of the tab that is held, and the dwell, the suppressed click and the armed half go with the drags
  they were set in. That a drop does what was shown (`DropsHonest`) is a lemma about one layout: the mark between two
  units and the half that is drawn are what `moveTab` and `placeInPane` make of it.
* `SidesInv`: what is remembered of the panes is within their limits, also while a drag or a key replaces one; a drag
  nobody else came between (`CalmFits`) is still of the pane and beside the width it began with. "The middle keeps its width"
  is then about `fitPanes`: the excess is taken from the panes in proportion to what each can give, rounded, and the rest
  from the other. `PartOfExcess` and `FitFits` bound that for all widths, of which TLC has a few.

### What is only model-checked

* Liveness under fairness is out of the prover's reach: `EveryAskAnswered`, `EveryTaskEnds`, `EveryJobSettles`,
  `RevivalKept`, `ServicesSettle`, `WindowSettles`.
* What recursive definitions compute for every input needs an induction over data. Sums, which `Filtering` defines as
  recursive functions, have one that is made there without the induction theorems of the library: from the
  least element at which the claim would fail. What the folds of `FolderPlan` compute has none.
* `ChoicesKept` states for each of nine handlers what is chosen or written from data (plans, menus, texts typed), with few
  steps between; TLC covers it with every order of the acts that section 4 bounds. No theorem states it: one of its parts,
  `FolderPlanSafe`, is about what the folds of `FolderPlan` make of a whole tree of names.

## 6. What is not modelled, and why

* Parts with no state of their own beyond a call: `dispose()` of the pool (tests and quit), thin wrappers
  over `fs`, single FTP commands, the IPC glue, setters over plain records, the Electron shell.
* Bytes and pixels: image decoding, encryption itself, SQLite, rendering, animation, positions, the
  lightbox, translations (about an eighth of the lines), the settings dialog.
* Wording: error messages and their classification. The outcomes (retryable, limit, other) are
  inputs.
* Within modelled parts: the MKD memo of an upload batch and the folding of queue updates for the window;
  `clearCompleted` of the relay lane; `TransferHub`; sources that are empty folders in `FileOps`; a crash inside one
  write of a file and the rows of the unused preview tables in `MediaCache` and `ServerDatabase`; names, the TLS
  flag, ports' validity and start folders in `ServerBook`; `--help`, arguments from stdin and saved previews in
  `CommandLine`; scroll and the gate shown while connecting in `ExplorerPane`; the dock's shape and the
  order on the shelf in `ShelfDrops`; the pixels of drags in `TabLayout` and `SidePanes`; percentages and
  rates in `ActivityPanel`; drop targets of crumbs and sort entries in `PathBar`; positions in `ItemMenus`; the cards and
  the badges of `ConflictSheet`.
* External: basic-ftp (from how the code uses it), electron-updater, the MCP library's HTTP
  server, servers. A program that takes the agent's port is assumed not to speak its protocol.
