----------------------------- MODULE MCServices -----------------------------
(***************************************************************************)
(* The services of the main process beside the transfer queue, each with a *)
(* module of its own.  They share no state, so a behaviour runs one of     *)
(* them, chosen in the initial state, and leaves the others as they began. *)
(***************************************************************************)
EXTENDS RelayLane, FastUpload, FileOps, SlabWriter, RangePlan, ThumbnailQueue, GalleryPreviews,
        AgentActivity, AgentEndpoint, UpdateManager, PasswordVault, AgentTools, AgentReading,
        CommandLine, MediaCache, ServerDatabase

VARIABLE service   \* the one that runs

Services == {"relay", "upload", "files", "slabs", "ranges", "thumbnails", "gallery", "agents",
             "endpoint", "updates", "vault", "tools", "reading", "line", "media", "database"}

vars == <<service, relayVars, upVars, fileOpsVars, slabVars, rangePlanVars, thumbVars, galleryVars, agentVars,
          endpointVars, updateVars, vaultVars, toolVars, readVars, lineVars, mediaVars, databaseVars>>

(* A service that does not run begins in one of its initial states only.   *)
Init ==
  /\ service \in Services
  /\ RelayInit /\ (service # "relay" => maxRunning = 1)
  /\ UpInit /\ (service # "upload" => fastPath)
  /\ FileOpsInit /\ (service # "files" => foKind = "local" /\ \A f \in DOMAIN foDest : foDest[f] = "none")
  /\ SlabInit /\ (service # "slabs" => rangeFinal /\ \A n \in Sendings : sends <= n)
  /\ RangePlanInit /\ (service # "ranges" => \A n \in FileSizes : fileSize <= n)
  /\ ThumbInit /\ GalleryInit
  /\ AgentInit /\ (service # "agents" => Operations = {})
  /\ EndpointInit
  /\ UpdateInit /\ (service # "updates" => udAuto)
  /\ VaultInit /\ (service # "vault" => vaCanEncrypt /\ \A r \in Rows : ~HasPassword(vaRow[r]))
  /\ ToolsInit /\ (service # "tools" => atConn = {})
  /\ ReadingInit /\ (service # "reading" => arWhat = "pages")
  /\ IF service = "line" THEN TRUE ELSE lnArgv = <<>>
  /\ LineInit /\ (service # "line" => lnEnv /\ lnApp.up)
  /\ MediaInit /\ (service # "media" => mcKind = "previews")
  /\ DatabaseInit /\ (service # "database" => sdTables = {})

Idle(s, v) == IF service = s THEN TRUE ELSE UNCHANGED v

OthersIdle ==
  /\ UNCHANGED service
  /\ Idle("relay", relayVars) /\ Idle("upload", upVars) /\ Idle("slabs", slabVars)
  /\ Idle("files", fileOpsVars)
  /\ Idle("ranges", rangePlanVars) /\ Idle("thumbnails", thumbVars)
  /\ Idle("gallery", galleryVars) /\ Idle("agents", agentVars)
  /\ Idle("endpoint", endpointVars) /\ Idle("updates", updateVars) /\ Idle("vault", vaultVars)
  /\ Idle("tools", toolVars)
  /\ Idle("reading", readVars)
  /\ Idle("line", lineVars)
  /\ Idle("media", mediaVars)
  /\ Idle("database", databaseVars)

Next ==
  /\ \/ service = "relay" /\ RelayNext
     \/ service = "upload" /\ UpNext
     \/ service = "files" /\ FileOpsNext
     \/ service = "slabs" /\ SlabNext
     \/ service = "ranges" /\ RangePlanNext
     \/ service = "thumbnails" /\ ThumbNext
     \/ service = "gallery" /\ GalleryNext
     \/ service = "agents" /\ AgentNext
     \/ service = "endpoint" /\ EndpointNext
     \/ service = "updates" /\ UpdateNext
     \/ service = "vault" /\ VaultNext
     \/ service = "tools" /\ ToolsNext
     \/ service = "reading" /\ ReadingNext
     \/ service = "line" /\ LineNext
     \/ service = "media" /\ MediaNext
     \/ service = "database" /\ DatabaseNext
  /\ OthersIdle

(* What is due in the service that runs happens.                           *)
Fairness ==
  /\ WF_relayVars(service = "relay" /\ RelayProgress)
  /\ WF_upVars(service = "upload" /\ UpProgress)
  /\ WF_fileOpsVars(service = "files" /\ FileOpsProgress)
  /\ WF_slabVars(service = "slabs" /\ SlabProgress)
  /\ WF_thumbVars(service = "thumbnails" /\ ThumbProgress)
  /\ WF_galleryVars(service = "gallery" /\ GalleryProgress)
  /\ WF_agentVars(service = "agents" /\ AgentProgress)
  /\ WF_endpointVars(service = "endpoint" /\ EndpointProgress)
  /\ WF_updateVars(service = "updates" /\ UpdateProgress)
  /\ WF_readVars(service = "reading" /\ ReadingProgress)
  /\ WF_lineVars(service = "line" /\ LineProgress)

Spec == Init /\ [][Next]_vars /\ Fairness

-----------------------------------------------------------------------------
(* What this computer keeps is what it was given: a slab is lent to one     *)
(* download at a time and written whole, no original or stranger's file is  *)
(* lost to a long operation, no preview outlives or undoes a newer one, and *)
(* no start of the app forgets recent paths or brings removed ones back.    *)
DiskSafe == SlabSafe /\ FileOpsSafe /\ MediaSafe /\ DatabaseSafe

(* What is under way or changes meanwhile reaches what agents ask for: no   *)
(* stopped call goes on, nothing that was seen is replaced, and what agents *)
(* read, and write on the command line, is what they meant.                 *)
CommandsSafe == ToolsSafe /\ ReadingSafe /\ LineSafe

(* Nothing is under way: no copy between servers, upload, long operation or *)
(* open file of a download; no wanted preview; no call or running job of an agent; no      *)
(* listen of the endpoint; no check or download of an update.               *)
AtRest ==
  CASE service = "relay" -> \A j \in RelayJobs : relayStatus[j] \notin {"pending", "active"}
    [] service = "upload" -> upTask # "open"
    [] service = "files" -> foAt = "end"
    [] service = "slabs" -> fdClosed
    [] service = "thumbnails" -> thumbDue = {}
    [] service = "gallery" -> \A f \in Folders : asked[f] = {}
    [] service = "agents" ->
         \A c \in AgentCalls : agCall[c] = "none" \/ (agCall[c] = "ended" /\ agJob[c] \notin Running
                                                       /\ c \notin agTracked)
    [] service = "endpoint" -> \A p \in AppRuns : ~epListen[p] /\ ~epStops[p]
    [] service = "updates" -> udQuit \/ udStatus \notin {"checking", "downloading"}
    [] service = "reading" -> ReadingAtRest
    [] service = "line" -> LineAtRest
    [] OTHER -> TRUE

(* Whatever was begun ends: users ask a bounded number of times, and every  *)
(* service comes to rest again.                                             *)
ServicesSettle == []<>AtRest
=============================================================================
