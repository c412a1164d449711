---------------------------- MODULE ActivityPanel ----------------------------
(***************************************************************************)
(* The transfer panel (useTransferStore.ts, TransferPanel.tsx): it shows    *)
(* the sends begun since it was last closed, each in one row that stands    *)
(* for the call at first and for its batch later.  Batches of agents come   *)
(* by updates alone, and the update of a send's own batch may come before   *)
(* the answer that names it.  Send s has row s and batch 10 * s.            *)
(***************************************************************************)
EXTENDS Naturals, Sequences, FiniteSets, SequencesExt

CONSTANTS PanelSends,     \* sends of this window
          OthersBatches,  \* batches of agents
          MaxPanelActs    \* bound: what the user and agents do

ASSUME PanelAssumption == /\ PanelSends \subseteq 1..9 /\ OthersBatches \subseteq {n \in Nat : n > 99}
                          /\ MaxPanelActs \in Nat

VARIABLES
  apSend,   \* [send -> where its call stands]: "queued" has its batch, the answer is on its way
  apMain,   \* [batch -> its status in the main process]
  apView,   \* [batch -> its status in the window]; "gone" is in neither list any more
  apMeta,   \* batchMeta
  apPanel,  \* panel: [open, collapsed, rows]
  apMuted,  \* panelMuted
  apHeld,   \* panelHeld
  apOld,    \* history: sends and batches under way when the panel was last closed
  apActs

panelVars == <<apSend, apMain, apView, apMeta, apPanel, apMuted, apHeld, apOld, apActs>>

BatchOf(s) == 10 * s
PanelBatches == {BatchOf(s) : s \in PanelSends} \union OthersBatches
Pending == {s \in PanelSends : apSend[s] \in {"asking", "queued", "sheet"}}
Asking == {s \in PanelSends : apSend[s] \in {"asking", "queued"}}     \* panelSending
Listed(view) == {b \in PanelBatches : view[b] \in {"live", "done", "failed"}}
LiveIn(view) == {b \in PanelBatches : view[b] = "live"}

PanelClosed == [open |-> FALSE, collapsed |-> FALSE, rows |-> <<>>]
WithoutRows(panel, keys) == [panel EXCEPT !.rows = SelectSeq(@, LAMBDA k : k \notin keys)]

(* A new row opens the panel, or joins those that are there.                *)
WithRow(panel, key) ==
  IF ~panel.open \/ panel.rows = <<>> THEN [open |-> TRUE, collapsed |-> FALSE, rows |-> <<key>>]
  ELSE IF Contains(panel.rows, key) THEN panel ELSE [panel EXCEPT !.rows = Append(@, key)]
WithRows(panel, keys) == FoldLeft(WithRow, panel, keys)

(* What is in the panel: pending sends and batches that have jobs.          *)
ShownRows == SelectSeq(apPanel.rows, LAMBDA k : k \in Pending \union Listed(apView))
PanelVisible == apPanel.open /\ ShownRows # <<>>

PanelActs == apActs < MaxPanelActs /\ apActs' = apActs + 1
(* An answer and the update before it are told in one go: no report between.  *)
Telling == \E s \in PanelSends : apSend[s] = "queued"

-----------------------------------------------------------------------------
(* send()                                                                   *)
SendStarts(s) ==
  /\ PanelActs /\ apSend[s] = "none"
  /\ apSend' = [apSend EXCEPT ![s] = "asking"]
  /\ apPanel' = WithRow(apPanel, s)
  /\ UNCHANGED <<apMain, apView, apMeta, apMuted, apHeld, apOld>>

(* One answer less is awaited; after the last the batches held back join.    *)
Attached(panel, held) ==
  IF Cardinality(Asking) = 1 THEN WithRows(panel, SelectSeq(held, LAMBDA b : b \in Listed(apView))) ELSE panel
StillHeld(held) == IF Cardinality(Asking) = 1 THEN <<>> ELSE held

AnsweredBatch(s) ==
  /\ apSend[s] = "queued"
  /\ LET b == BatchOf(s)
         held == SelectSeq(apHeld, LAMBDA k : k # b)
         inPlace == [WithoutRows(apPanel, {b}) EXCEPT !.rows = [i \in DOMAIN @ |-> IF @[i] = s THEN b ELSE @[i]]]
         shown == Contains(apPanel.rows, s)
     IN  /\ apPanel' = Attached(IF shown THEN inPlace ELSE apPanel, held)
         /\ apHeld' = StillHeld(held)
         /\ apMuted' = IF shown \/ b \in Listed(apView) THEN apMuted ELSE apMuted \union {b}
         /\ apMeta' = apMeta \union {b}
  /\ apSend' = [apSend EXCEPT ![s] = "sent"]
  /\ UNCHANGED <<apMain, apView, apOld, apActs>>

(* Conflicts: the sheet asks and the send stays; a failure or a plan that    *)
(* leaves nothing to send ends it, and its row goes.                        *)
AnsweredElse(s) ==
  /\ apSend[s] = "asking" /\ ~Telling
  /\ \E next \in {"sheet", "quit"} :
       /\ apSend' = [apSend EXCEPT ![s] = next]
       /\ LET panel == Attached(apPanel, apHeld) IN
          apPanel' = IF next = "quit" THEN WithoutRows(panel, {s}) ELSE panel
  /\ apHeld' = StillHeld(apHeld)
  /\ UNCHANGED <<apMain, apView, apMeta, apMuted, apOld, apActs>>
PanelSheet(s) ==
  /\ PanelActs /\ apSend[s] = "sheet"
  /\ \/ apSend' = [apSend EXCEPT ![s] = "asking"] /\ UNCHANGED apPanel
     \/ apSend' = [apSend EXCEPT ![s] = "quit"] /\ apPanel' = WithoutRows(apPanel, {s})
  /\ UNCHANGED <<apMain, apView, apMeta, apMuted, apHeld, apOld>>

-----------------------------------------------------------------------------
(* The main process: batches begin, end, run again and are cleared.          *)
MainMoves(b, status) ==
  apMain' = [apMain EXCEPT ![b] = status] /\ UNCHANGED <<apView, apMeta, apPanel, apMuted, apHeld, apOld>>
BatchBegins(s) ==
  /\ apSend[s] = "asking" /\ ~Telling
  /\ apSend' = [apSend EXCEPT ![s] = "queued"]
  /\ MainMoves(BatchOf(s), "live") /\ UNCHANGED apActs
OthersBegin(b) ==
  /\ b \in OthersBatches /\ PanelActs /\ ~Telling
  /\ apMain[b] = "none" /\ MainMoves(b, "live") /\ UNCHANGED apSend
BatchEnds(b) ==
  /\ ~Telling /\ apMain[b] = "live"
  /\ \E end \in {"done", "failed"} : MainMoves(b, end)
  /\ UNCHANGED <<apSend, apActs>>
RetryBatch(b) ==
  /\ PanelActs /\ ~Telling
  /\ apMain[b] = "failed" /\ apView[b] = "failed" /\ MainMoves(b, "live") /\ UNCHANGED apSend
ClearActivity ==
  /\ PanelActs /\ ~Telling
  /\ apMain' = [b \in PanelBatches |-> IF apMain[b] \in {"done", "failed"} THEN "gone" ELSE apMain[b]]
  /\ UNCHANGED <<apSend, apView, apMeta, apPanel, apMuted, apHeld, apOld>>

(* applyUpdate() of what changed in some queues, or of all there is         *)
(* (transfer:getAll): a batch that has come to life gets a row, unless it    *)
(* was muted, or is held back as it may belong to the answer awaited.        *)
NewView(told) ==
  [b \in PanelBatches |-> IF b \notin told \/ (apMain[b] = "gone" /\ apView[b] = "none") THEN apView[b] ELSE apMain[b]]
UpdateCame(told) ==
  LET view == NewView(told)
      seen == apMuted \intersect Listed(view)
      fresh == LiveIn(view) \ (LiveIn(apView) \union seen \union ToSet(apHeld))
      hold == IF Asking # {} THEN fresh \ apMeta ELSE {}
      gone == Listed(apView) \ Listed(view)
  IN  /\ apView' = view
      /\ apMeta' = apMeta \union {b \in told : b \in Listed(view)}
      /\ apMuted' = apMuted \ seen
      /\ apHeld' = apHeld \o SetToSeq(hold)
      /\ apPanel' = WithoutRows(WithRows(apPanel, SetToSeq(fresh \ hold)), gone)
      /\ apOld' = {k \in apOld : k \in PanelBatches => view[k] \in {"none", "live"}}
      /\ UNCHANGED <<apSend, apMain, apActs>>
Updated ==
  \E told \in SUBSET {b \in PanelBatches : apMain[b] # apView[b]} :
    /\ told # {} /\ \A s \in PanelSends : apSend[s] = "queued" => told = {BatchOf(s)}
    /\ UpdateCame(told)

-----------------------------------------------------------------------------
ClosePanel ==
  /\ PanelActs /\ PanelVisible
  /\ apPanel' = PanelClosed /\ apHeld' = <<>>
  /\ apMuted' = apMuted \union {k \in ToSet(apPanel.rows) : k \notin PanelSends \union Listed(apView)}
  /\ apOld' = apOld \union Pending \union {BatchOf(s) : s \in Pending} \union LiveIn(apView)
                    \union {k \in ToSet(apPanel.rows) : k \in PanelBatches /\ apView[k] = "none"}
  /\ UNCHANGED <<apSend, apMain, apView, apMeta>>
TogglePanel ==
  /\ PanelActs /\ PanelVisible /\ apPanel' = [apPanel EXCEPT !.collapsed = ~@]
  /\ UNCHANGED <<apSend, apMain, apView, apMeta, apMuted, apHeld, apOld>>

PanelInit ==
  /\ apSend = [s \in PanelSends |-> "none"] /\ apMain = [b \in PanelBatches |-> "none"]
  /\ apView = [b \in PanelBatches |-> "none"] /\ apMeta = {} /\ apPanel = PanelClosed
  /\ apMuted = {} /\ apHeld = <<>> /\ apOld = {} /\ apActs = 0

PanelNext ==
  \/ \E s \in PanelSends : SendStarts(s) \/ BatchBegins(s) \/ AnsweredBatch(s) \/ AnsweredElse(s) \/ PanelSheet(s)
  \/ \E b \in PanelBatches : OthersBegin(b) \/ BatchEnds(b) \/ RetryBatch(b)
  \/ ClearActivity \/ Updated \/ ClosePanel \/ TogglePanel

PanelSpec == PanelInit /\ [][PanelNext]_panelVars

-----------------------------------------------------------------------------
(* A send never has two rows, as itself and as its batch, although its batch *)
(* may be reported before the answer says whose it is (P2a).                *)
OneRow == /\ IsInjective(apPanel.rows)
          /\ \A s \in PanelSends : ~({s, BatchOf(s)} \subseteq ToSet(apPanel.rows))

(* What began since the panel was closed is in it: a send until it ends, a    *)
(* batch as long as it runs, at the latest when no answer is awaited.        *)
NothingUntold ==
  /\ \A s \in Pending \ apOld : Contains(apPanel.rows, s)
  /\ \A b \in LiveIn(apView) \ apOld : Contains(apPanel.rows, b) \/ (Contains(apHeld, b) /\ Asking # {})

(* A closed panel is not opened again by what was under way then (P2b).      *)
StaysClosed == ToSet(apPanel.rows) \intersect apOld = {}

(* No row is left of a batch the window saw go (P2d), and an open panel has   *)
(* something to show or waits for the first word of a batch.                *)
NoDeadRow ==
  /\ \A k \in ToSet(apPanel.rows) : IF k \in PanelSends THEN k \in Pending ELSE apView[k] # "gone"
  /\ \A k \in apMuted : apView[k] = "none"

PanelSafe == OneRow /\ NothingUntold /\ StaysClosed /\ NoDeadRow
=============================================================================
