---------------------------- MODULE AgentEndpoint ----------------------------
(***************************************************************************)
(* How agents find the app: McpService opens its HTTP server on one fixed  *)
(* port and discovery.ts leaves two files in the user's data folder, the   *)
(* endpoint (url and process id) and the token, each replaced by a rename. *)
(* The app may run more than once with the same folder and settings; a run *)
(* may die at any point.  Between two writes of one run another run, or    *)
(* the command line client, may act: file system calls are steps here,     *)
(* everything else a run does without awaiting is one step.                *)
(***************************************************************************)
EXTENDS Naturals

CONSTANTS AppRuns,       \* processes of the app, each with its own id
          MaxSwitches,   \* bound: presses of the switch, over all runs
          MaxTokens      \* bound: tokens made

ASSUME EndpointAssumption == /\ 0 \notin AppRuns /\ MaxSwitches \in Nat /\ MaxTokens \in Nat \ {0}

VARIABLES epRun,       \* "new", "up", "dead"
          epDbToken,   \* mcpToken in the settings all runs share; 0: none
          epToken,     \* token of each run, read once when it starts
          epListen,    \* listening: a listen is on its way
          epStops,     \* stop() calls that wait for it (setEnabled(false))
          epServer,    \* server: it listens
          epPort,      \* the run that has the port; 0: free
          epPc,        \* where a run is in writing or removing its files
          epFile,      \* [endpoint, token] as they are on disk; 0: no file
          epWanted,    \* the last switch of each run (history)
          epTokens,    \* tokens made (bound)
          epSwitches   \* switches (bound)

endpointVars == <<epRun, epDbToken, epToken, epListen, epStops, epServer, epPort, epPc, epFile,
                  epWanted, epTokens, epSwitches>>

(* A run that is writing or removing files does nothing else meanwhile.     *)
Free(p) == epRun[p] = "up" /\ epPc[p] = "idle"

-----------------------------------------------------------------------------
(* The switch, init() and regenerateToken(). *)

(* listen(): nothing when the server is up; joins a listen on its way;      *)
(* the first one makes a token if there is none.                            *)
Listen(p) ==
  IF epServer[p] \/ epListen[p] THEN UNCHANGED <<epListen, epToken, epDbToken, epTokens>>
  ELSE /\ epListen' = [epListen EXCEPT ![p] = TRUE]
       /\ IF epToken[p] # 0 THEN UNCHANGED <<epToken, epDbToken, epTokens>>
          ELSE /\ epTokens' = epTokens + 1
               /\ epToken' = [epToken EXCEPT ![p] = epTokens']
               /\ epDbToken' = epTokens'

RunStarts(p, enabled) ==
  /\ epRun[p] = "new"
  /\ epRun' = [epRun EXCEPT ![p] = "up"]
  /\ epToken' = [epToken EXCEPT ![p] = epDbToken]
  /\ epListen' = [epListen EXCEPT ![p] = enabled /\ epDbToken # 0]
  /\ epWanted' = [epWanted EXCEPT ![p] = epListen'[p]]
  /\ UNCHANGED <<epDbToken, epStops, epServer, epPort, epPc, epFile, epTokens, epSwitches>>

SwitchOn(p) ==
  /\ Free(p) /\ epSwitches < MaxSwitches /\ epTokens < MaxTokens
  /\ epSwitches' = epSwitches + 1
  /\ Listen(p)
  /\ epWanted' = [epWanted EXCEPT ![p] = TRUE]
  /\ UNCHANGED <<epRun, epStops, epServer, epPort, epPc, epFile>>

(* stop() waits for a listen that is on its way and closes what it opened.  *)
StopLater(p) == epStops' = [epStops EXCEPT ![p] = epListen[p]]

SwitchOff(p) ==
  /\ Free(p) /\ epSwitches < MaxSwitches
  /\ epSwitches' = epSwitches + 1
  /\ epWanted' = [epWanted EXCEPT ![p] = FALSE]
  /\ StopLater(p)
  /\ IF ~epListen[p] /\ epServer[p]
     THEN epServer' = [epServer EXCEPT ![p] = FALSE] /\ epPc' = [epPc EXCEPT ![p] = "checking"]
     ELSE UNCHANGED <<epServer, epPc>>
  /\ UNCHANGED <<epRun, epDbToken, epToken, epListen, epPort, epFile, epTokens>>

Regenerate(p) ==
  /\ Free(p) /\ epTokens < MaxTokens
  /\ epTokens' = epTokens + 1
  /\ epToken' = [epToken EXCEPT ![p] = epTokens']
  /\ epDbToken' = epTokens'
  /\ epPc' = [epPc EXCEPT ![p] = IF epServer[p] THEN "publishing" ELSE "idle"]
  /\ UNCHANGED <<epRun, epListen, epStops, epServer, epPort, epFile, epWanted, epSwitches>>

-----------------------------------------------------------------------------
(* The end of a listen: the port was free and the files are written, or it  *)
(* was not and the error is kept.  A stop() that waited goes on afterwards. *)
Bound(p) ==
  /\ Free(p) /\ epListen[p] /\ epPort = 0
  /\ epListen' = [epListen EXCEPT ![p] = FALSE]
  /\ epServer' = [epServer EXCEPT ![p] = TRUE]
  /\ epPort' = p
  /\ epPc' = [epPc EXCEPT ![p] = "publishing"]
  /\ UNCHANGED <<epRun, epDbToken, epToken, epStops, epFile, epWanted, epTokens, epSwitches>>

BindFails(p) ==
  /\ Free(p) /\ epListen[p]
  /\ epListen' = [epListen EXCEPT ![p] = FALSE]
  /\ epStops' = [epStops EXCEPT ![p] = FALSE]
  /\ UNCHANGED <<epRun, epDbToken, epToken, epServer, epPort, epPc, epFile, epWanted, epTokens, epSwitches>>

(* Fault: the endpoint first.                                               *)
EndpointFirst(p) ==
  \/ epPc[p] = "publishing" /\ epFile' = [epFile EXCEPT !.endpoint = p]
  \/ epPc[p] = "endpoint" /\ epFile' = [epFile EXCEPT !.token = epToken[p]]

(* writeDiscovery: the token first, then the endpoint.                      *)
WritesFile(p) ==
  \/ epPc[p] = "publishing" /\ epFile' = [epFile EXCEPT !.token = epToken[p]]
  \/ epPc[p] = "endpoint" /\ epFile' = [epFile EXCEPT !.endpoint = p]

(* After the second file a stop() that waited for the listen runs at once.  *)
Publishes(p) ==
  /\ epRun[p] = "up" /\ WritesFile(p)
  /\ LET stopping == epPc[p] = "endpoint" /\ epStops[p] IN
     /\ epPc' = [epPc EXCEPT ![p] = IF epPc[p] = "publishing" THEN "endpoint"
                                    ELSE IF stopping THEN "checking" ELSE "idle"]
     /\ epStops' = [epStops EXCEPT ![p] = @ /\ ~stopping]
     /\ epServer' = [epServer EXCEPT ![p] = @ /\ ~stopping]
  /\ UNCHANGED <<epRun, epDbToken, epToken, epListen, epPort, epWanted, epTokens, epSwitches>>

(* close(): when the files are gone.                                        *)
PortLeaves(p) == epPc[p] \in {"leaving", "token"}

(* removeDiscovery: nothing when the endpoint is of another run, else the   *)
(* endpoint and then the token.                                             *)
Withdraws(p) ==
  /\ epRun[p] = "up"
  /\ \/ /\ epPc[p] = "checking"
        /\ epPc' = [epPc EXCEPT ![p] = IF epFile.endpoint \in {0, p} THEN "removing" ELSE "leaving"]
        /\ UNCHANGED epFile
     \/ /\ epPc[p] = "removing"
        /\ epPc' = [epPc EXCEPT ![p] = "token"]
        /\ epFile' = [epFile EXCEPT !.endpoint = 0]
     \/ /\ epPc[p] = "token"
        /\ epPc' = [epPc EXCEPT ![p] = "idle"]
        /\ epFile' = [epFile EXCEPT !.token = 0]
     \/ /\ epPc[p] = "leaving"
        /\ epPc' = [epPc EXCEPT ![p] = "idle"]
        /\ UNCHANGED epFile
  /\ epPort' = IF epPort = p /\ PortLeaves(p) THEN 0 ELSE epPort
  /\ UNCHANGED <<epRun, epDbToken, epToken, epListen, epStops, epServer, epWanted, epTokens, epSwitches>>

(* A run dies, between any two steps.                                       *)
Dies(p) ==
  /\ epRun[p] = "up"
  /\ epRun' = [epRun EXCEPT ![p] = "dead"]
  /\ epPort' = IF epPort = p THEN 0 ELSE epPort
  /\ epListen' = [epListen EXCEPT ![p] = FALSE] /\ epStops' = [epStops EXCEPT ![p] = FALSE]
  /\ epServer' = [epServer EXCEPT ![p] = FALSE] /\ epPc' = [epPc EXCEPT ![p] = "idle"]
  /\ UNCHANGED <<epDbToken, epToken, epFile, epWanted, epTokens, epSwitches>>

-----------------------------------------------------------------------------
EndpointInit ==
  /\ epRun = [p \in AppRuns |-> "new"]
  /\ epDbToken = 0 /\ epToken = [p \in AppRuns |-> 0]
  /\ epListen = [p \in AppRuns |-> FALSE] /\ epStops = [p \in AppRuns |-> FALSE]
  /\ epServer = [p \in AppRuns |-> FALSE] /\ epPort = 0 /\ epPc = [p \in AppRuns |-> "idle"]
  /\ epFile = [endpoint |-> 0, token |-> 0]
  /\ epWanted = [p \in AppRuns |-> FALSE] /\ epTokens = 0 /\ epSwitches = 0

EndpointProgress == \E p \in AppRuns : Bound(p) \/ BindFails(p) \/ Publishes(p) \/ Withdraws(p)

EndpointNext ==
  \/ EndpointProgress
  \/ \E p \in AppRuns : \/ \E enabled \in BOOLEAN : RunStarts(p, enabled)
                        \/ SwitchOn(p) \/ SwitchOff(p) \/ Regenerate(p) \/ Dies(p)

EndpointSpec == EndpointInit /\ [][EndpointNext]_endpointVars /\ WF_endpointVars(EndpointProgress)

-----------------------------------------------------------------------------
EndpointTypeOK ==
  /\ epPort \in AppRuns \cup {0}
  /\ epFile \in [endpoint : AppRuns \cup {0}, token : 0..MaxTokens]
  /\ \A p \in AppRuns : /\ epStops[p] => epListen[p] \/ epPc[p] \in {"publishing", "endpoint"}
                        /\ epServer[p] => epPort = p

(* Whoever sees an endpoint file finds a token file, whatever was           *)
(* interrupted; discovery.ts orders its writes for that.                    *)
TokenBeside == epFile.endpoint # 0 => epFile.token # 0

(* While a run listens and is at rest, the files are its own and hold the   *)
(* token it accepts: no other run's start, stop, token or death takes them  *)
(* away.                                                                    *)
ListenerFound ==
  \A p \in AppRuns : epServer[p] /\ epPc[p] = "idle" => epFile = [endpoint |-> p, token |-> epToken[p]]

(* A run that was switched off last does not listen once nothing is on its  *)
(* way any more, and its files are gone.                                    *)
OffIsOff ==
  \A p \in AppRuns : Free(p) /\ ~epWanted[p] /\ ~epListen[p] => ~epServer[p] /\ epFile.endpoint # p

EndpointSafe == EndpointTypeOK /\ TokenBeside /\ ListenerFound /\ OffIsOff

(* Every switch settles.                                                    *)
EndpointSettles == \A p \in AppRuns : epListen[p] ~> (~epListen[p] /\ ~epStops[p])
=============================================================================
