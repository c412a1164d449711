---------------------------- MODULE UpdateManager ----------------------------
(***************************************************************************)
(* UpdateManager.ts on top of electron-updater, which is external: a check *)
(* ends with update-available, update-not-available or error, and with     *)
(* autoDownload on the first of these starts the download; a second check  *)
(* or download while one is under way joins it; a download reports         *)
(* progress and ends with update-downloaded or error.  The library's       *)
(* install-on-quit handler is registered when a download ends with         *)
(* autoInstallOnAppQuit on, and reads that flag again at quit.             *)
(***************************************************************************)
EXTENDS Naturals

CONSTANT MaxUpdateCommands   \* bound: presses of the user and timer checks

ASSUME UpdateAssumption == MaxUpdateCommands \in Nat

VARIABLES udStatus,     \* state.status
          udAuto,       \* autoUpdate, and autoDownload with it
          udQuitFlag,   \* autoInstallOnAppQuit
          udChecking,   \* the library checks
          udDownload,   \* the library downloads
          udFile,       \* the library has a downloaded update
          udHandler,    \* it has its handler for quitting
          udInstall,    \* "no", "user" (quitAndInstall), "quit"
          udQuit,       \* the app has quit
          udCommands    \* commands so far (bound)

updateVars == <<udStatus, udAuto, udQuitFlag, udChecking, udDownload, udFile, udHandler, udInstall,
                udQuit, udCommands>>

Blocking == {"checking", "downloading", "ready"}

Command == ~udQuit /\ udCommands < MaxUpdateCommands /\ udCommands' = udCommands + 1

(* check(), at the start, by the user or by the timer.                      *)
Check ==
  /\ Command
  /\ udStatus \notin Blocking
  /\ udStatus' = "checking"
  /\ udChecking' = TRUE
  /\ UNCHANGED <<udAuto, udQuitFlag, udDownload, udFile, udHandler, udInstall, udQuit>>

DownloadIfAvailable ==
  IF udStatus = "available" THEN udStatus' = "downloading" /\ udDownload' = TRUE
  ELSE UNCHANGED <<udStatus, udDownload>>

Download ==
  /\ Command /\ udStatus = "available"
  /\ DownloadIfAvailable
  /\ UNCHANGED <<udAuto, udQuitFlag, udChecking, udFile, udHandler, udInstall, udQuit>>

(* Fault: the flag follows the setting at once.                             *)
FlagFollows(auto) == auto

(* applyAutoUpdate: the flag stays on so that the library keeps a handler.  *)
FlagStays(auto) == TRUE

SetAutoUpdate ==
  /\ Command
  /\ udAuto' = ~udAuto
  /\ udQuitFlag' = FlagStays(udAuto')
  /\ IF udAuto' THEN DownloadIfAvailable ELSE UNCHANGED <<udStatus, udDownload>>
  /\ UNCHANGED <<udChecking, udFile, udHandler, udInstall, udQuit>>

Install ==
  /\ Command /\ udStatus = "ready"
  /\ udInstall' = "user" /\ udQuit' = TRUE
  /\ UNCHANGED <<udStatus, udAuto, udQuitFlag, udChecking, udDownload, udFile, udHandler>>

(* before-quit sets the choice, then the library's handler reads it.        *)
Quit ==
  /\ ~udQuit /\ udQuit' = TRUE
  /\ udQuitFlag' = udAuto
  /\ udInstall' = IF udHandler /\ udQuitFlag' THEN "quit" ELSE "no"
  /\ UNCHANGED <<udStatus, udAuto, udChecking, udDownload, udFile, udHandler, udCommands>>

-----------------------------------------------------------------------------
(* Events of the library; each listener overwrites the status.              *)
CheckAnswers ==
  /\ ~udQuit /\ udChecking /\ udChecking' = FALSE
  /\ \/ udStatus' = "available" /\ udDownload' = (udDownload \/ udAuto)
     \/ udStatus' = "up-to-date" /\ UNCHANGED udDownload
     \/ udStatus' = "error" /\ UNCHANGED udDownload
  /\ UNCHANGED <<udAuto, udQuitFlag, udFile, udHandler, udInstall, udQuit, udCommands>>

DownloadProgresses ==
  /\ ~udQuit /\ udDownload /\ udStatus # "downloading"
  /\ udStatus' = "downloading"
  /\ UNCHANGED <<udAuto, udQuitFlag, udChecking, udDownload, udFile, udHandler, udInstall, udQuit, udCommands>>

DownloadEnds ==
  /\ ~udQuit /\ udDownload /\ udDownload' = FALSE
  /\ \/ udStatus' = "ready" /\ udFile' = TRUE /\ udHandler' = (udHandler \/ udQuitFlag)
     \/ udStatus' = "error" /\ UNCHANGED <<udFile, udHandler>>
  /\ UNCHANGED <<udAuto, udQuitFlag, udChecking, udInstall, udQuit, udCommands>>

-----------------------------------------------------------------------------
UpdateInit ==
  /\ udStatus = "idle" /\ udAuto \in BOOLEAN /\ udQuitFlag = TRUE
  /\ udChecking = FALSE /\ udDownload = FALSE /\ udFile = FALSE /\ udHandler = FALSE
  /\ udInstall = "no" /\ udQuit = FALSE /\ udCommands = 0

UpdateProgress == CheckAnswers \/ DownloadEnds

UpdateNext == UpdateProgress \/ DownloadProgresses \/ Check \/ Download \/ SetAutoUpdate \/ Install \/ Quit

UpdateSpec == UpdateInit /\ [][UpdateNext]_updateVars /\ WF_updateVars(UpdateProgress)

-----------------------------------------------------------------------------
(* The window is never left at a status that blocks further checks with     *)
(* nothing under way in the library to end it.                              *)
NeverStuck ==
  /\ udStatus = "checking" => udChecking \/ udDownload
  /\ udStatus = "downloading" => udDownload

(* The program is installed only when an update was downloaded: at quit     *)
(* exactly when the user wants automatic updates then, whatever the setting *)
(* was while it was downloaded.                                             *)
InstallsAsWished ==
  /\ udStatus = "ready" => udFile
  /\ udInstall # "no" => udFile
  /\ udQuit /\ udInstall # "user" => (udInstall = "quit" <=> udAuto /\ udFile)

UpdateSafe == NeverStuck /\ InstallsAsWished

(* A downloaded update is never shown as one to download: a check that was  *)
(* under way when the download ended still overwrites the status.           *)
ReadyKept == [][udStatus = "ready" => udStatus' = "ready"]_updateVars

UpdateSettles == (udStatus \in {"checking", "downloading"}) ~> (udQuit \/ udStatus \notin {"checking", "downloading"})
=============================================================================
