------------------------------ MODULE FastUpload ------------------------------
(***************************************************************************)
(* One upload on a client of the pool (src/main/ftp/fastTransfer.ts): on   *)
(* the fast path STOR is sent while the data connection is still being     *)
(* made and the file follows as soon as it is, on the standard path after  *)
(* the server's 1xx.  Replies, the data connection and the local file may  *)
(* fail in any order; the outcome decides whether the client is used again *)
(* and whether the fast path is given up (TransferQueue.ts, run()).        *)
(*                                                                         *)
(* The server is external.  It is honest: a 2xx follows the end of data.   *)
(***************************************************************************)
EXTENDS Integers, Sequences

VARIABLES
  fastPath,      \* uploadFile() rather than uploadStandard()
  upTask,        \* "open", "done" or "failed"
  verdict,       \* of a failure: is it a reply, is the fast path to blame
  upData,        \* the data socket: "connecting", "up", "tls", "sending", "ended", "closed"
  handedOver, preliminary, controlDone,
  starts,        \* calls of source.start()
  dataError,     \* "none", or an early error: "broken" or "source"
  sourceError, dataDone,
  sentAll,       \* as many bytes were passed to the socket as the file had when it was opened
  ctrlOpen,
  ctrlTimer,     \* the control socket has a timeout
  watchdog,      \* TransferWatchdog runs
  storReplies,   \* the server's replies on their way
  server,        \* "stor" before its 1xx, "reading", "twice" after another, or "over"
  serverGot,     \* what the server has of what was sent, after the data connection ended
  serverEnds     \* how the server closed the data connection, "" while it has not

upVars == <<fastPath, upTask, verdict, upData, handedOver, preliminary, controlDone, starts,
            dataError, sourceError, dataDone, sentAll, ctrlOpen, ctrlTimer, watchdog,
            storReplies, server, serverGot, serverEnds>>
upServer == <<server, serverGot, serverEnds>>
upTimers == <<ctrlTimer, watchdog>>
upEnd == <<upTask, verdict, ctrlOpen>>

Open == upTask = "open"
Socket == upData \notin {"connecting", "closed"}

(* Resolver.onError() and the rejection of the task: the data socket is    *)
(* destroyed.  onError() sets the timeout of the control connection, and   *)
(* basic-ftp clears it again as the task ends, within the same call.       *)
Fails(reply, suspect, stays) ==
  /\ upTask' = "failed"
  /\ verdict' = [reply |-> reply, suspect |-> suspect]
  /\ ctrlOpen' = stays
  /\ upData' = "closed" /\ ctrlTimer' = FALSE /\ watchdog' = FALSE
CloseWithError(suspect) == Fails(FALSE, suspect, FALSE)

(* tryResolve(): data and 2xx are both needed.  Fault: data will do.        *)
DataWillDo(data, reply) == data
BothDone(data, reply) == data /\ reply

(* fastUpload(): a file that changed while it was read is no success, and  *)
(* nobody's fault.                                                         *)
SizeChecked ==
  IF sentAll THEN upTask' = "done" /\ UNCHANGED verdict
  ELSE upTask' = "failed" /\ verdict' = [reply |-> FALSE, suspect |-> FALSE]

(* The end of the task clears the timeout of the control connection.       *)
Resolves ==
  /\ SizeChecked /\ upData' = "closed"
  /\ ctrlTimer' = FALSE /\ watchdog' = FALSE
  /\ UNCHANGED ctrlOpen

(* maybeStart(): source.start() once, after the TLS handshake.             *)
StartSource(data) ==
  /\ IF starts = 0
     THEN \/ upData' = "sending" /\ starts' = 1 /\ ctrlTimer' = FALSE /\ watchdog' = TRUE
          \/ upData' = "tls" /\ UNCHANGED <<starts, upTimers>>
     ELSE upData' = data /\ UNCHANGED <<starts, upTimers>>
  /\ UNCHANGED upEnd

-----------------------------------------------------------------------------
(* raw.connect()                                                           *)
Connected ==
  /\ upData = "connecting"
  /\ handedOver' = preliminary
  /\ StartSource("up")
  /\ UNCHANGED <<fastPath, preliminary, controlDone, dataError, sourceError, dataDone,
                 storReplies, upServer, sentAll>>

(* The late 425 would answer the next command: the control connection goes.*)
ConnectFails ==
  /\ upData = "connecting"
  /\ CloseWithError(~preliminary)
  /\ UNCHANGED <<fastPath, handedOver, preliminary, controlDone, starts, dataError,
                 sourceError, dataDone, storReplies, upServer, sentAll>>

SecureConnect ==
  /\ upData = "tls"
  /\ upData' = "sending" /\ starts' = 1 /\ ctrlTimer' = FALSE /\ watchdog' = TRUE
  /\ UNCHANGED <<fastPath, upEnd, handedOver, preliminary, controlDone, dataError,
                 sourceError, dataDone, storReplies, upServer, sentAll>>

(* The file has been passed to the socket, which ends: to where a read is  *)
(* short, or one byte more than there were (RingSource.pump()).            *)
SourceSent ==
  /\ upData = "sending"
  /\ upData' = "ended"
  /\ sentAll' \in BOOLEAN
  /\ UNCHANGED <<fastPath, upEnd, handedOver, preliminary, controlDone, starts, dataError,
                 sourceError, dataDone, upTimers, storReplies, upServer>>

(* The callback of socket.end(): onDataDone().                             *)
DataDone ==
  /\ upData = "ended" /\ ~dataDone
  /\ dataDone' = TRUE
  /\ IF BothDone(TRUE, controlDone)
     THEN Resolves
     ELSE ctrlTimer' = TRUE /\ watchdog' = FALSE /\ UNCHANGED <<upEnd, upData>>
  /\ UNCHANGED <<fastPath, handedOver, preliminary, controlDone, starts, dataError,
                 sourceError, storReplies, upServer, sentAll>>

(* onEarlyDataError(): before 1xx the reply decides.  Without a reply to   *)
(* come the task fails at once; else the timeout of the control connection *)
(* is back.  Fault: it is not.                                             *)
TimersLost == UNCHANGED ctrlTimer /\ watchdog' = FALSE
TimersBack == ctrlTimer' = TRUE /\ watchdog' = FALSE

EarlyDataError(kind) ==
  /\ dataError' = kind
  /\ IF controlDone
     THEN Fails(FALSE, kind = "broken", TRUE)
     ELSE upData' = "closed" /\ TimersBack /\ UNCHANGED upEnd

(* A local read error closes the connection once 1xx came.                 *)
SourceFails ==
  /\ upData = "sending"
  /\ sourceError' = TRUE
  /\ IF handedOver THEN CloseWithError(FALSE) /\ UNCHANGED dataError
     ELSE EarlyDataError("source")
  /\ UNCHANGED <<fastPath, handedOver, preliminary, controlDone, starts, dataDone,
                 storReplies, upServer, sentAll>>

(* The server's reset or end of the data connection arrives.  After the    *)
(* file has been passed its end is no error.                               *)
DataBreaks ==
  /\ Open /\ Socket /\ serverEnds # ""
  /\ upData = "ended" => serverEnds = "reset"
  /\ IF ~handedOver THEN EarlyDataError("broken")
     ELSE /\ UNCHANGED dataError
          /\ IF serverEnds = "reset" THEN CloseWithError(FALSE)
             ELSE IF upData = "sending" THEN Fails(FALSE, FALSE, TRUE)
             ELSE upData' = "closed" /\ UNCHANGED <<upEnd, upTimers>>
  /\ UNCHANGED <<fastPath, handedOver, preliminary, controlDone, starts, sourceError,
                 dataDone, storReplies, upServer, sentAll>>

-----------------------------------------------------------------------------
(* The handler of replies.                                                 *)

(* 1xx: the second is ignored; after an early error the server has begun   *)
(* what cannot succeed.                                                    *)
Preliminary ==
  /\ preliminary' = TRUE
  /\ UNCHANGED <<controlDone, dataError>>
  /\ IF preliminary THEN UNCHANGED <<handedOver, starts, upData, upTimers, upEnd>>
     ELSE IF dataError # "none"
     THEN CloseWithError(dataError = "broken") /\ UNCHANGED <<handedOver, starts>>
     ELSE IF Socket
     THEN handedOver' = TRUE /\ IF upData = "up" THEN StartSource("up")
                                ELSE UNCHANGED <<starts, upData, upTimers, upEnd>>
     ELSE IF handedOver        \* the standard path, on a closed data connection
     THEN Fails(FALSE, FALSE, TRUE) /\ UNCHANGED <<handedOver, starts>>
     ELSE UNCHANGED <<handedOver, starts, upData, upTimers, upEnd>>

Completion ==
  /\ controlDone' = TRUE
  /\ UNCHANGED <<preliminary, handedOver, starts, dataError>>
  /\ IF dataError # "none" THEN Fails(FALSE, dataError = "broken", TRUE)
     ELSE IF BothDone(dataDone, TRUE) THEN Resolves
     ELSE UNCHANGED <<upData, upTimers, upEnd>>

(* An error reply; 425, 426 and 503 before 1xx blame the fast path.        *)
ErrorReply(code) ==
  /\ Fails(TRUE, fastPath /\ ~preliminary /\ code = "425", TRUE)
  /\ UNCHANGED <<preliminary, controlDone, handedOver, starts, dataError>>

Reply ==
  /\ Open /\ storReplies # <<>>
  /\ storReplies' = Tail(storReplies)
  /\ LET reply == Head(storReplies) IN
       \/ reply = "1xx" /\ Preliminary
       \/ reply = "2xx" /\ Completion
       \/ reply \in {"425", "550"} /\ ErrorReply(reply)
  /\ UNCHANGED <<fastPath, sourceError, dataDone, upServer, sentAll>>

(* A timeout, a 3xx or the loss of the control connection.  Only some of   *)
(* the messages blame the fast path.                                       *)
ControlFails ==
  /\ Open /\ (ctrlTimer \/ watchdog)
  /\ \E blamed \in BOOLEAN : CloseWithError(blamed /\ fastPath /\ ~preliminary)
  /\ UNCHANGED <<fastPath, handedOver, preliminary, controlDone, starts, dataError,
                 sourceError, dataDone, storReplies, upServer, sentAll>>

-----------------------------------------------------------------------------
(* The server.                                                             *)

Says(reply) == storReplies' = Append(storReplies, reply)
ServerOnly == UNCHANGED <<fastPath, upEnd, upData, handedOver, preliminary, controlDone,
                          starts, dataError, sourceError, dataDone, upTimers, sentAll>>

(* Some servers send a second 1xx.                                         *)
ServerBegins ==
  /\ \/ server = "stor" /\ server' = "reading"
     \/ server = "reading" /\ server' = "twice"
  /\ Says("1xx")
  /\ UNCHANGED <<serverGot, serverEnds>> /\ ServerOnly

(* The end of data has come; a server may have sent no 1xx.                *)
ServerCompletes ==
  /\ server # "over" /\ serverEnds = "" /\ upData \in {"ended", "closed"}
  /\ server' = "over" /\ Says("2xx") /\ serverEnds' = "fin"
  /\ serverGot' = IF upData = "ended" THEN "all" ELSE "part"
  /\ ServerOnly

ServerRefuses ==
  /\ server # "over"
  /\ server' = "over"
  /\ \E code \in {"425", "550"} : Says(code)
  /\ UNCHANGED <<serverGot, serverEnds>> /\ ServerOnly

ServerEndsData(how) ==
  /\ upData # "connecting" /\ serverEnds \in {"", "fin"} /\ serverEnds # how
  /\ serverEnds' = how
  /\ UNCHANGED <<server, serverGot, storReplies>> /\ ServerOnly

-----------------------------------------------------------------------------
UpInit ==
  /\ fastPath \in BOOLEAN
  /\ upTask = "open" /\ verdict = [reply |-> FALSE, suspect |-> FALSE]
  /\ upData = IF fastPath THEN "connecting" ELSE "up"
  /\ handedOver = ~fastPath
  /\ preliminary = FALSE /\ controlDone = FALSE /\ starts = 0
  /\ dataError = "none" /\ sourceError = FALSE /\ dataDone = FALSE /\ sentAll = FALSE
  /\ ctrlOpen = TRUE /\ ctrlTimer = TRUE /\ watchdog = FALSE
  /\ storReplies = <<>> /\ server = "stor" /\ serverGot = "part" /\ serverEnds = ""

UpProgress ==
  \/ Connected \/ ConnectFails \/ SecureConnect \/ SourceSent \/ DataDone \/ SourceFails
  \/ DataBreaks \/ Reply \/ ControlFails

UpNext ==
  \/ UpProgress
  \/ ServerBegins \/ ServerCompletes \/ ServerRefuses
  \/ \E how \in {"fin", "reset"} : ServerEndsData(how)

UpSpec == UpInit /\ [][UpNext]_upVars /\ WF_upVars(UpProgress)

-----------------------------------------------------------------------------
UpTypeOK ==
  /\ upTask \in {"open", "done", "failed"}
  /\ verdict \in [reply : BOOLEAN, suspect : BOOLEAN]
  /\ upData \in {"connecting", "up", "tls", "sending", "ended", "closed"}
  /\ dataError \in {"none", "broken", "source"} /\ starts \in 0..1
  /\ {fastPath, handedOver, preliminary, controlDone, sourceError, dataDone, sentAll,
      ctrlOpen, ctrlTimer, watchdog} \subseteq BOOLEAN

(* A success is the whole file on the server, as it was when it was opened.*)
SuccessWhole == upTask = "done" => serverGot = "all" /\ sentAll

(* A client that is used again (run(), releaseAfterError()) has no reply   *)
(* of this upload still to come: it would answer the next command.         *)
UsedAgain ==
  \/ upTask = "done"
  \/ upTask = "failed" /\ verdict.reply /\ ctrlOpen /\ ~verdict.suspect
RepliesDrained == UsedAgain => server = "over" /\ storReplies = <<>>

(* While the upload is open some timer runs, and none runs on an idle      *)
(* client; no socket outlives the upload.                                  *)
Watched ==
  /\ Open => ctrlTimer \/ watchdog
  /\ ~Open => ~ctrlTimer /\ ~watchdog /\ upData = "closed"

(* Only what happened before 1xx on the fast path is blamed on it.         *)
BlameFair == verdict.suspect => fastPath /\ (~preliminary \/ dataError = "broken")

UpSafe == UpTypeOK /\ SuccessWhole /\ RepliesDrained /\ Watched /\ BlameFair

(* Every upload ends, whatever the server says or does not say.            *)
UpEnds == <>(upTask # "open")

(* "A local read error is not the server's fault, so it is not seen as the *)
(* fast path's either" (run(), sourceError).                               *)
LocalErrorNotBlamed == sourceError => ~verdict.suspect
=============================================================================
