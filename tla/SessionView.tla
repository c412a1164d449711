----------------------------- MODULE SessionView -----------------------------
(***************************************************************************)
(* What the window shows of one connection (useFtpStore.ts, with           *)
(* useConnectionStatus.ts and useAgentSync.ts) against what the main       *)
(* process has (ftp:connect in ftpHandlers.ts, FtpConnectionManager.ts,    *)
(* and the agent's connectSaved and disconnect in agentOps.ts).  Answers   *)
(* and events reach the window in the order they were sent, later.         *)
(***************************************************************************)
EXTENDS Naturals, Sequences, FiniteSets, Filtering

CONSTANTS MaxViewCalls,    \* bound: connects of the window
          MaxViewEvents    \* bound: disconnects, agent commands and lost connections

ASSUME ViewAssumption == {MaxViewCalls, MaxViewEvents} \subseteq Nat

VARIABLES mainStatus,  \* the manager: "off", "login", "on", "error"
          wants,       \* the last one asked of it: "connect" by anyone, "off" by the window
          calls,       \* connects of the window: their generation and where each stands
          agentAt,     \* connectSaved: "none", "reveal", "login", "list"
          wire,        \* answers and events on their way to the window
          shown,       \* connections[server].status
          generation,  \* connectGeneration
          tool,        \* the call of the toolbar in progress, or 0
          viewEvents   \* events so far (bound)

viewVars == <<mainStatus, wants, calls, agentAt, wire, shown, generation, tool, viewEvents>>

Status(s) == [kind |-> "status", value |-> s, call |-> 0]
AgentSays(s) == [kind |-> "agent", value |-> s, call |-> 0]
Answer(c, s) == [kind |-> "answer", value |-> s, call |-> c]
GoneAnswer == [kind |-> "gone", value |-> "disconnected", call |-> 0]

StandAt(stage) == {c \in DOMAIN calls : calls[c].stage = stage}
ViewEvent == viewEvents < MaxViewEvents /\ viewEvents' = viewEvents + 1

Move(cs, to) == [c \in DOMAIN calls |-> IF c \in cs THEN [calls[c] EXCEPT !.stage = to] ELSE calls[c]]

(* The answers to a set of calls, in the order of the calls.                *)
AnswersTo(cs, value) ==
  LET order == Only([c \in DOMAIN calls |-> c], cs) IN [i \in DOMAIN order |-> Answer(order[i], value)]

-----------------------------------------------------------------------------
(* The window asks: by the toolbar, or by a remote tab on its own.          *)
GuiConnect(byTool) ==
  /\ Len(calls) < MaxViewCalls
  /\ byTool => tool = 0
  /\ generation' = generation + 1
  /\ calls' = Append(calls, [gen |-> generation + 1, stage |-> "reveal"])
  /\ shown' = IF shown = "connected" THEN shown ELSE "connecting"
  /\ tool' = IF byTool THEN Len(calls) + 1 ELSE tool
  /\ wants' = "connect"
  /\ UNCHANGED <<mainStatus, agentAt, wire, viewEvents>>

(* registry.connect, once the saved password has been read: reuse, join, or log in. *)
Asked(who, joined, reused) ==
  CASE mainStatus = "on"    -> reused /\ UNCHANGED mainStatus
    [] mainStatus = "login" -> joined /\ UNCHANGED <<mainStatus, wire>>
    [] OTHER                -> joined /\ mainStatus' = "login"
                                      /\ wire' = Append(wire, Status("connecting"))

Revealed(c) ==
  /\ c \in StandAt("reveal")
  /\ Asked(c, calls' = Move({c}, "login"),
           calls' = Move({c}, "over") /\ wire' = Append(wire, Answer(c, "connected")))
  /\ UNCHANGED <<wants, agentAt, shown, generation, tool, viewEvents>>

(* The password cannot be read, or the request is not that server's: no connect is tried. *)
Refused(c) ==
  /\ c \in StandAt("reveal")
  /\ calls' = Move({c}, "over")
  /\ wire' = Append(wire, Answer(c, "error"))
  /\ UNCHANGED <<mainStatus, wants, agentAt, shown, generation, tool, viewEvents>>

LoginEnds(ok) ==
  /\ mainStatus = "login"
  /\ mainStatus' = IF ok THEN "on" ELSE "error"
  /\ LET s == IF ok THEN "connected" ELSE "error"
     IN  wire' = Append(wire, Status(s)) \o AnswersTo(StandAt("login"), s)
  /\ calls' = Move(StandAt("login"), "over")
  /\ agentAt' = IF agentAt = "login" THEN IF ok THEN "list" ELSE "none" ELSE agentAt
  /\ UNCHANGED <<wants, shown, generation, tool, viewEvents>>

(* manager.disconnect: whoever waited for the login is told it was cancelled, once its client has
   noticed.                                                                                       *)
Disconnected(more) ==
  /\ mainStatus' = "off"
  /\ wire' = Append(wire, Status("disconnected")) \o more
  /\ calls' = Move(StandAt("login"), "orphan")
  /\ agentAt' = IF agentAt = "login" THEN "none" ELSE agentAt

OrphanTold(c) ==
  /\ c \in StandAt("orphan")
  /\ calls' = Move({c}, "over")
  /\ wire' = Append(wire, Answer(c, "error"))
  /\ UNCHANGED <<mainStatus, wants, agentAt, shown, generation, tool, viewEvents>>

GuiDisconnect ==
  /\ ViewEvent
  /\ calls # <<>> \/ agentAt # "none" \/ mainStatus # "off"
  /\ generation' = generation + 1
  /\ tool' = 0
  /\ wants' = "off"
  /\ Disconnected(<<GoneAnswer>>)
  /\ UNCHANGED shown

ConnectionLost ==
  /\ ViewEvent /\ mainStatus = "on"
  /\ mainStatus' = "error"
  /\ wire' = Append(wire, Status("error"))
  /\ UNCHANGED <<wants, calls, agentAt, shown, generation, tool>>

-----------------------------------------------------------------------------
(* The agent                                                                *)
AgentConnect ==
  /\ ViewEvent /\ agentAt = "none"
  /\ agentAt' = IF mainStatus = "on" THEN "list" ELSE "reveal"
  /\ wants' = "connect"
  /\ UNCHANGED <<mainStatus, calls, wire, shown, generation, tool>>

AgentRevealed ==
  /\ agentAt = "reveal"
  /\ Asked("agent", agentAt' = "login", agentAt' = "list" /\ UNCHANGED wire)
  /\ UNCHANGED <<wants, calls, shown, generation, tool, viewEvents>>

AgentOpens ==
  /\ agentAt = "list"
  /\ agentAt' = "none"
  /\ wire' = IF mainStatus = "on" THEN Append(wire, AgentSays("connected")) ELSE wire
  /\ UNCHANGED <<mainStatus, wants, calls, shown, generation, tool, viewEvents>>

AgentDisconnect ==
  /\ ViewEvent /\ mainStatus = "on" /\ agentAt = "none"
  /\ Disconnected(<<AgentSays("disconnected")>>)
  /\ UNCHANGED <<wants, shown, generation, tool>>

-----------------------------------------------------------------------------
(* The window takes the next message.                                       *)

(* Fault: an answer counts whatever has happened since. *)
AnyAnswer(c) == TRUE

Current(c) == calls[c].gen = generation

Taken(m) ==
  CASE m.kind = "answer" ->
         /\ shown' = IF Current(m.call) THEN m.value ELSE shown
         /\ tool' = IF tool = m.call THEN 0 ELSE tool
         /\ UNCHANGED generation
    [] m.kind = "agent" /\ tool = 0 ->
         generation' = generation + 1 /\ shown' = m.value /\ UNCHANGED tool
    [] m.kind = "agent" /\ tool # 0 -> UNCHANGED <<shown, tool, generation>>
    [] OTHER -> shown' = m.value /\ UNCHANGED <<tool, generation>>

Deliver ==
  /\ wire # <<>>
  /\ wire' = Tail(wire)
  /\ Taken(Head(wire))
  /\ UNCHANGED <<mainStatus, wants, calls, agentAt, viewEvents>>

-----------------------------------------------------------------------------
ViewInit ==
  /\ mainStatus = "off" /\ wants = "off"
  /\ calls = <<>> /\ agentAt = "none" /\ wire = <<>>
  /\ shown = "disconnected" /\ generation = 0 /\ tool = 0
  /\ viewEvents = 0

ViewProgress ==
  \/ Deliver \/ AgentRevealed \/ AgentOpens
  \/ \E ok \in BOOLEAN : LoginEnds(ok)
  \/ \E c \in DOMAIN calls : Revealed(c) \/ Refused(c) \/ OrphanTold(c)

ViewNext ==
  \/ ViewProgress
  \/ \E byTool \in BOOLEAN : GuiConnect(byTool)
  \/ GuiDisconnect \/ ConnectionLost \/ AgentConnect \/ AgentDisconnect

ViewSpec == ViewInit /\ [][ViewNext]_viewVars /\ WF_viewVars(ViewProgress)

-----------------------------------------------------------------------------
ViewTypeOK ==
  /\ mainStatus \in {"off", "login", "on", "error"}
  /\ agentAt \in {"none", "reveal", "login", "list"}
  /\ shown \in {"disconnected", "connecting", "connected", "error"}
  /\ tool \in DOMAIN calls \union {0}
  /\ \A c \in DOMAIN calls : calls[c].stage \in {"reveal", "login", "orphan", "over"}

(* Nothing is under way and everything sent has been taken. *)
Quiet == /\ wire = <<>> /\ mainStatus # "login" /\ agentAt = "none"
         /\ \A c \in DOMAIN calls : calls[c].stage = "over"

(* The window then never shows a connection that is not there, nor one for ever being made, and a
   connection it does not show it shows as failed (a refused connect over a living connection).    *)
ShownIsThere == Quiet => /\ shown = "connected" => mainStatus = "on"
                         /\ shown # "connecting"
ThereIsShown == (Quiet /\ mainStatus = "on") => shown \in {"connected", "error"}

(* A toolbar connect that has been answered no longer keeps the agent's sessions out.              *)
ToolFree == Quiet => tool = 0

(* An attempt the window gave up leaves no trace: its late failure is not shown as an error of a
   connection that nobody asked for any more.                                                      *)
GivenUpQuietly == (Quiet /\ wants = "off" /\ mainStatus = "off") => shown = "disconnected"

ViewSafe == ViewTypeOK /\ ShownIsThere /\ ThereIsShown /\ ToolFree /\ GivenUpQuietly

(* Every connect and disconnect comes to rest.                                                     *)
ViewSettles == <>[]Quiet

(* "그 연결만 끊는다. 연결 중이면 그 시도를 버린다." (useFtpStore.ts:42): with nothing asked since,
   a connection the window ended or gave up does not come up afterwards.                           *)
CancelSticks == (wants = "off") => mainStatus # "on"
=============================================================================
