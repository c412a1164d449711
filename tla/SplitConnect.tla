---------------------------- MODULE SplitConnect -----------------------------
(***************************************************************************)
(* Servers dropped on the split view (splitConnect.ts), above the tabs     *)
(* (TabLayout) and the toolbar's connect (useServerStore.ts).  A drop      *)
(* opens a placeholder tab in the pane and queues an attempt; attempts run *)
(* one at a time; one that fails or takes 20 s is undone when the user has *)
(* closed its message.  Between the drop and that moment the user and the  *)
(* other attempts go on changing the tabs.                                 *)
(***************************************************************************)
EXTENDS TabLayout

CONSTANTS PaneServers,      \* servers with a saved login
          MaxAttempts,      \* bound: servers dropped, or connected from the toolbar
          MaxLayoutTabs,    \* bound: tabs ever opened by the user
          MaxLayoutSteps    \* bound: steps of the user on the tabs

ASSUME PaneAssumption == /\ PaneServers \subseteq Nat \ {0}
                         /\ {MaxAttempts, MaxLayoutTabs, MaxLayoutSteps} \subseteq Nat

VARIABLES layout,       \* useTabsStore
          attempts,     \* attempts so far, in order, with what their undoing needs
          waiters,      \* attempts waiting for their turn
          connecting,   \* useServerStore.connecting: the attempt that logs in, or 0
          pendings,     \* pendingConnects
          linked,       \* servers shown as connected
          layoutSteps   \* steps of the user so far (bound)

splitVars == <<layout, attempts, waiters, connecting, pendings, linked, layoutSteps>>

Attempt(server, pane, ph, displaced, prev) ==
  [server |-> server, pane |-> pane, ph |-> ph, displaced |-> displaced, prev |-> prev,
   stage |-> "waiting", before |-> layout, touched |-> FALSE]

Numbers == DOMAIN attempts
At(a, stage) == attempts[a].stage = stage
Stage(as, a, stage) == [as EXCEPT ![a].stage = stage]

(* Ghost: whoever changes the tabs touches the layout every open attempt would restore. *)
Touch(as, except) ==
  [a \in DOMAIN as |-> IF a = except THEN as[a]
                       ELSE [as[a] EXCEPT !.touched = TRUE, !.before = EmptyLayout]]

(* drain: with no attempt logging in, the first that waits starts. *)
Drain(as, queue, busy) ==
  IF busy = 0 /\ queue # <<>>
  THEN /\ attempts' = Stage(as, Head(queue), "login")
       /\ waiters' = Tail(queue)
       /\ connecting' = Head(queue)
  ELSE attempts' = as /\ waiters' = queue /\ connecting' = busy

-----------------------------------------------------------------------------
(* connectIntoPane, and without a pane connectNow or a shelf drop beside a shown split. *)
DropInPane(server, pane) ==
  /\ Len(attempts) < MaxAttempts
  /\ layout.tabs # <<>> /\ server \notin linked
  /\ LET opened == Opened(layout, server, FALSE)
         ph == NextId(layout)
         displaced == IF Shown(layout) THEN HalfIn(layout, pane) ELSE 0
         n == Len(attempts) + 1
     IN  /\ layout' = Placed(opened, ph, pane)
         /\ Drain(Touch(Append(attempts, Attempt(server, pane, ph, displaced, layout.active)), n),
                  Append(waiters, n), connecting)
  /\ pendings' = pendings \union {server}
  /\ UNCHANGED <<linked, layoutSteps>>

(* A connected server gets a tab of its own in the pane at once. *)
DropLinked(server, pane) ==
  /\ layoutSteps < MaxLayoutSteps /\ layoutSteps' = layoutSteps + 1
  /\ server \in linked /\ layout.tabs # <<>>
  /\ LET mine == {i \in DOMAIN layout.tabs : /\ layout.tabs[i] # layout.active
                                             /\ layout.srv[layout.tabs[i]] = server}
         first == CHOOSE i \in mine : \A k \in mine : i <= k
     IN  layout' = IF mine # {} THEN Placed(layout, layout.tabs[first], pane)
                   ELSE Placed(Opened(layout, server, FALSE), NextId(layout), pane)
  /\ attempts' = Touch(attempts, 0)
  /\ UNCHANGED <<waiters, connecting, pendings, linked>>

(* The toolbar's Connect, refused while another attempt logs in. *)
ToolbarConnect(server) ==
  /\ connecting = 0 /\ Len(attempts) < MaxAttempts
  /\ attempts' = Append(attempts, [Attempt(server, "none", 0, 0, 0) EXCEPT !.stage = "login"])
  /\ connecting' = Len(attempts) + 1
  /\ UNCHANGED <<layout, waiters, pendings, linked, layoutSteps>>

(* useServerStore.connect succeeds: the tab is adopted, connecting goes off (which starts the next
   attempt), and the attempt reports only after the list of servers has been read again. *)
LoggedIn(a) ==
  /\ connecting = a
  /\ layout' = Adopted(layout, attempts[a].server, TRUE)
  /\ linked' = linked \union {attempts[a].server}
  /\ Drain(Touch(Stage(attempts, a, "loading"), a), waiters, 0)
  /\ UNCHANGED <<pendings, layoutSteps>>

(* runConnect's answer: the mark goes with it. *)
AttemptDone(a) ==
  /\ At(a, "loading")
  /\ attempts' = Stage(attempts, a, "done")
  /\ pendings' = IF attempts[a].pane = "none" THEN pendings ELSE pendings \ {attempts[a].server}
  /\ UNCHANGED <<layout, waiters, connecting, linked, layoutSteps>>

(* The login fails, or the user cancels it: the store shows an error or the disconnect. *)
EndOf(a) == IF attempts[a].pane = "none" THEN "done" ELSE "message"

LoginFails(a) ==
  /\ connecting = a
  /\ Drain(Stage(attempts, a, EndOf(a)), waiters, 0)
  /\ pendings' = IF attempts[a].pane = "none" THEN pendings ELSE pendings \ {attempts[a].server}
  /\ linked' = linked \ {attempts[a].server}
  /\ UNCHANGED <<layout, layoutSteps>>

(* connectingKey() === key: it compares servers, not attempts. *)
OwnKeyLogsIn(a) == connecting # 0 /\ attempts[connecting].server = attempts[a].server

(* The 20 s timer of an attempt that has not reported. *)
TimedOut(a) ==
  /\ attempts[a].stage \in {"login", "loading"} /\ attempts[a].pane # "none"
  /\ OwnKeyLogsIn(a)
  /\ LET own == Stage(attempts, a, "message")
         hit == connecting
         gone == IF hit = a THEN own ELSE Stage(own, hit, EndOf(hit))
     IN  /\ Drain(gone, waiters, 0)
         /\ pendings' = pendings \ ({attempts[a].server} \union
                          (IF attempts[hit].pane = "none" THEN {} ELSE {attempts[hit].server}))
  /\ linked' = linked \ {attempts[a].server}
  /\ UNCHANGED <<layout, layoutSteps>>

PutBack(s, rev) ==
  IF IsHalf(s, rev.ph) /\ rev.displaced # 0 THEN Placed(s, rev.displaced, rev.pane) ELSE s

(* revert *)
Reverted(s, rev) ==
  LET closed == Closed(PutBack(s, rev), rev.ph)
  IN  IF Has(closed, rev.prev) THEN Activated(closed, rev.prev) ELSE closed

MessageClosed(a) ==
  /\ At(a, "message")
  /\ layout' = Reverted(layout, attempts[a])
  /\ attempts' = Touch(Stage(attempts, a, "undone"), a)
  /\ UNCHANGED <<waiters, connecting, pendings, linked, layoutSteps>>

-----------------------------------------------------------------------------
(* The user works on the tabs; the agent's sessions adopt without activating. *)
UserLayouts ==
  {Opened(layout, 0, TRUE)}
    \union {Closed(layout, id) : id \in ToSet(layout.tabs)}
    \union {Activated(layout, id) : id \in ToSet(layout.tabs)}
    \union {Cycled(layout, forward) : forward \in BOOLEAN}
    \union {Moved(layout, id, before) : id \in ToSet(layout.tabs), before \in ToSet(layout.tabs) \union {0}}
    \union {Placed(layout, id, pane) : id \in ToSet(layout.tabs), pane \in Panes}
    \union {Swapped(layout), Toggled(layout), Unsplit(layout)}
    \union {Adopted(layout, server, FALSE) : server \in PaneServers}

TabCommand ==
  /\ layoutSteps < MaxLayoutSteps /\ layoutSteps' = layoutSteps + 1
  /\ \E to \in UserLayouts : /\ to # layout /\ Len(to.srv) <= MaxLayoutTabs + Len(attempts)
                             /\ layout' = to
  /\ attempts' = Touch(attempts, 0)
  /\ UNCHANGED <<waiters, connecting, pendings, linked>>

-----------------------------------------------------------------------------
SplitInit ==
  /\ layout = Opened(EmptyLayout, 0, TRUE)
  /\ attempts = <<>>
  /\ waiters = <<>>
  /\ connecting = 0
  /\ pendings = {}
  /\ linked = {}
  /\ layoutSteps = 0

SplitProgress ==
  \E a \in Numbers : LoggedIn(a) \/ LoginFails(a) \/ AttemptDone(a) \/ TimedOut(a) \/ MessageClosed(a)

SplitNext ==
  \/ SplitProgress
  \/ \E server \in PaneServers : ToolbarConnect(server)
  \/ \E server \in PaneServers, pane \in Panes : DropInPane(server, pane) \/ DropLinked(server, pane)
  \/ TabCommand

SplitSpec == SplitInit /\ [][SplitNext]_splitVars /\ WF_splitVars(SplitProgress)

-----------------------------------------------------------------------------
SplitTypeOK ==
  /\ layout.split \in [left : Nat, right : Nat]
  /\ ToSet(layout.tabs) \subseteq DOMAIN layout.srv
  /\ ToSet(waiters) \subseteq Numbers /\ connecting \in Numbers \union {0}
  /\ pendings \subseteq PaneServers /\ linked \subseteq PaneServers
  /\ \A a \in Numbers : attempts[a].stage \in {"waiting", "login", "loading", "done", "message",
                                               "undone"}

(* An attempt that was undone, with the tabs untouched since its drop, leaves the tabs, the active
   one and a pair that was shown as they were before the drop (M18; revert).                     *)
Restored(a) ==
  LET b == attempts[a].before
  IN  (At(a, "undone") /\ ~attempts[a].touched) =>
        /\ layout.tabs = b.tabs /\ layout.active = b.active
        /\ Shown(b) => layout.split = b.split

(* One login at a time, and it is an attempt that has not ended.                                 *)
OneLogin == \A a \in Numbers : At(a, "login") <=> connecting = a

(* No attempt waits while nothing logs in: drain would have started it.                          *)
NoneForgotten == waiters # <<>> => connecting # 0

SplitSafe == /\ SplitTypeOK /\ LayoutSound(layout) /\ OneLogin /\ NoneForgotten
             /\ \A a \in Numbers : Restored(a)

(* Every attempt ends: connected, given up, or undone.                                           *)
SplitSettles == <>[](\A a \in Numbers : attempts[a].stage \in {"done", "undone"})

(* The pair that was hidden at the drop is there again too: "드롭 전 상태로 되돌린다" (M18).      *)
RestoredHidden ==
  \A a \in Numbers : (At(a, "undone") /\ ~attempts[a].touched) => layout.split = attempts[a].before.split

(* While an attempt into a pane waits or logs in, its server carries the mark that keeps the
   automatic connect away (splitConnect.ts:22-26).                                               *)
PendingMarked ==
  \A a \in Numbers : (attempts[a].pane # "none" /\ attempts[a].stage \in {"waiting", "login"})
                       => attempts[a].server \in pendings

(* A timer never ends an attempt that is not its own (F7, splitConnect.ts:142-143).              *)
TimerOwn ==
  [][\A a, c \in Numbers :
       (TimedOut(a) /\ a # c) => (At(c, "login") => attempts'[c].stage = "login")]_splitVars
=============================================================================
