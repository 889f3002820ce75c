---------------------------- MODULE PageProofs -----------------------------
(* Machine-checked proofs about the page: undo and redo of the graph's       *)
(* layout implement one timeline, and its bootstrap fails closed, for every  *)
(* set of cases, nodes and APIs.                                             *)
EXTENDS PageProperties, DataLemmas

(* The stacks are well-formed and together within the history's limit.       *)
LayoutInv == HistoryOK(undoLayouts, layout, redoLayouts, LayoutLimit)

-----------------------------------------------------------------------------
(* What a step does to the history.                                          *)

CheckpointMade ==
  undoLayouts' = Latest(Append(undoLayouts, layout)) /\ redoLayouts' = <<>>

Redrawn == undoLayouts' = undoLayouts /\ redoLayouts' = redoLayouts

Restarted == undoLayouts' = <<>> /\ redoLayouts' = <<>>

LEMMA LayoutStepKinds ==
  [Next]_vars =>
    \/ CheckpointMade \/ UndoGraphLayout \/ RedoGraphLayout \/ Redrawn \/ Restarted
PROOF
<1>1. \A new : Checkpointed(new) => CheckpointMade
  BY DEF Checkpointed, CheckpointMade, NoRedo
<1>2. ASSUME \/ MoveStart \/ Rotate \/ ResetLayout \/ SetNodeIcon \/ ResetNodeVisual
             \/ RestoreLayout \/ FinishUpload
      PROVE  CheckpointMade
  BY <1>1, <1>2 DEF MoveStart, Rotate, ResetLayout, SetNodeIcon, ResetNodeVisual,
                    RestoreLayout, FinishUpload
<1>3. ASSUME MovePreview \/ MoveEnd \/ SaveLayout \/ StartUpload \/ RefuseUpload
      PROVE  Redrawn
  BY <1>3 DEF MovePreview, MoveEnd, SaveLayout, StartUpload, RefuseUpload, Redrawn
<1>4. ASSUME SwitchCase \/ LoadLayout  PROVE  Restarted
  BY <1>4 DEF SwitchCase, LoadLayout, FreshLayout, Restarted
<1>5. ASSUME UNCHANGED graph  PROVE  Redrawn
  BY <1>5 DEF graph, Redrawn
<1>. QED
  BY <1>2, <1>3, <1>4, <1>5 DEF Next, LayoutStep, PageLoads, vars

-----------------------------------------------------------------------------
(* The history stays well-formed, and each step is one on the timeline.      *)

LEMMA LatestIsTrimmed ==
  /\ \A s : Latest(s) = Trimmed(s, LayoutLimit)
  /\ \A s : LayoutTimeline!Recent(s) = Trimmed(s, LayoutLimit)
PROOF BY DEF Latest, LayoutTimeline!Recent, Trimmed

LEMMA LayoutLimitIsNat == LayoutLimit \in Nat
PROOF BY LayoutAssumption

LayoutKept == LayoutInv' /\ LayoutTimeline!Next

LEMMA LayoutHistoryInit == Init => LayoutInv /\ LayoutTimeline!Start
PROOF BY LayoutLimitIsNat, FreshHistory
      DEF Init, LayoutInit, LayoutInv, LayoutTimeline!Start, Stacked

LEMMA CheckpointStep ==
  ASSUME LayoutInv, CheckpointMade
  PROVE  LayoutKept
PROOF
<1>1. undoLayouts' = Trimmed(Append(undoLayouts, layout), LayoutLimit) /\ redoLayouts' = <<>>
  BY LatestIsTrimmed DEF CheckpointMade
<1>2. /\ LayoutInv'
      /\ Len(Stacked(undoLayouts', layout', redoLayouts')) = Len(undoLayouts') + 1
      /\ Stacked(undoLayouts', layout', redoLayouts')[Len(undoLayouts') + 1] = layout'
      /\ Stacked(undoLayouts', layout', redoLayouts')
           = Append(Trimmed(SubSeq(Stacked(undoLayouts, layout, redoLayouts),
                                   1, Len(undoLayouts) + 1), LayoutLimit), layout')
  BY <1>1, LayoutLimitIsNat, CommitHistory DEF LayoutInv
<1>3. LayoutTimeline!Change
  BY <1>2, LatestIsTrimmed DEF LayoutTimeline!Change, Stacked
<1>. QED  BY <1>2, <1>3 DEF LayoutKept, LayoutTimeline!Next

LEMMA UndoLayoutStep ==
  ASSUME LayoutInv, UndoGraphLayout
  PROVE  LayoutKept
PROOF
<1>1. /\ undoLayouts # <<>> /\ undoLayouts' = Front(undoLayouts)
      /\ layout' = Last(undoLayouts)
      /\ redoLayouts' = Trimmed(Append(redoLayouts, layout), LayoutLimit)
  BY LatestIsTrimmed DEF UndoGraphLayout
<1>2. /\ LayoutInv'
      /\ Stacked(undoLayouts', layout', redoLayouts')
           = Stacked(undoLayouts, layout, redoLayouts)
      /\ Len(undoLayouts) + 1 > 1 /\ Len(undoLayouts') + 1 = (Len(undoLayouts) + 1) - 1
  BY <1>1, LayoutLimitIsNat, UndoHistory DEF LayoutInv
<1>3. LayoutTimeline!Undo
  BY <1>2 DEF LayoutTimeline!Undo, Stacked
<1>. QED  BY <1>2, <1>3 DEF LayoutKept, LayoutTimeline!Next

LEMMA RedoLayoutStep ==
  ASSUME LayoutInv, RedoGraphLayout
  PROVE  LayoutKept
PROOF
<1>1. /\ redoLayouts # <<>> /\ redoLayouts' = Front(redoLayouts)
      /\ layout' = Last(redoLayouts)
      /\ undoLayouts' = Trimmed(Append(undoLayouts, layout), LayoutLimit)
  BY LatestIsTrimmed DEF RedoGraphLayout
<1>2. /\ LayoutInv'
      /\ Stacked(undoLayouts', layout', redoLayouts')
           = Stacked(undoLayouts, layout, redoLayouts)
      /\ Len(undoLayouts) + 1 < Len(Stacked(undoLayouts, layout, redoLayouts))
      /\ Len(undoLayouts') + 1 = (Len(undoLayouts) + 1) + 1
  BY <1>1, LayoutLimitIsNat, RedoHistory DEF LayoutInv
<1>3. LayoutTimeline!Redo
  BY <1>2 DEF LayoutTimeline!Redo, Stacked
<1>. QED  BY <1>2, <1>3 DEF LayoutKept, LayoutTimeline!Next

LEMMA RedrawStep ==
  ASSUME LayoutInv, Redrawn
  PROVE  LayoutKept
PROOF
<1>1. undoLayouts' = undoLayouts /\ redoLayouts' = redoLayouts
  BY DEF Redrawn
<1>2. /\ HistoryOK(undoLayouts, layout', redoLayouts, LayoutLimit)
      /\ Stacked(undoLayouts, layout', redoLayouts)[Len(undoLayouts) + 1] = layout'
      /\ Stacked(undoLayouts, layout', redoLayouts)
           = [Stacked(undoLayouts, layout, redoLayouts)
                EXCEPT ![Len(undoLayouts) + 1] = layout']
  BY LayoutLimitIsNat, AmendHistory DEF LayoutInv
<1>3. LayoutTimeline!Amend
  BY <1>1, <1>2 DEF LayoutTimeline!Amend, Stacked
<1>. QED  BY <1>1, <1>2, <1>3 DEF LayoutKept, LayoutInv, LayoutTimeline!Next

LEMMA FreshLayoutStep ==
  ASSUME Restarted
  PROVE  LayoutKept
PROOF
<1>1. LayoutInv' /\ LayoutTimeline!Restart
  BY LayoutLimitIsNat, FreshHistory DEF Restarted, LayoutInv, LayoutTimeline!Restart, Stacked
<1>. QED  BY <1>1 DEF LayoutKept, LayoutTimeline!Next

LEMMA LayoutHistoryStep == LayoutInv /\ [Next]_vars => LayoutKept
PROOF
<1>. SUFFICES ASSUME LayoutInv, [Next]_vars  PROVE  LayoutKept
  OBVIOUS
<1>. QED  BY LayoutStepKinds, CheckpointStep, UndoLayoutStep, RedoLayoutStep,
             RedrawStep, FreshLayoutStep

(* Checkpoints, undo and redo of the layout implement one timeline with a    *)
(* cursor (layout-model.mjs:66-72), whatever drags, images that arrive late, *)
(* other cases and reloads come between them.                                *)
THEOREM LayoutImplementsTimeline == Spec => LayoutKeepsTheTimeline
PROOF
<1>1. Init => LayoutInv /\ LayoutTimeline!Start
  BY LayoutHistoryInit
<1>2. LayoutInv /\ [Next]_vars => LayoutInv'
  BY LayoutHistoryStep DEF LayoutKept
<1>3. LayoutInv /\ [Next]_vars
        => [LayoutTimeline!Next]_<<undoLayouts \o <<layout>> \o Reverse(redoLayouts),
                                   Len(undoLayouts) + 1>>
  BY LayoutHistoryStep DEF LayoutKept
<1>. QED
  BY <1>1, <1>2, <1>3, PTL DEF Spec, LayoutKeepsTheTimeline, LayoutTimeline!Spec

-----------------------------------------------------------------------------

(* What the page shows was decided by the base URL it asked, whatever other  *)
(* tabs stored or cleared between its request and the answer                 *)
(* (workbench-client.mjs:125-172).                                           *)
THEOREM BootstrapFailsClosed == Spec => []FailsClosed
PROOF
<1>1. Init => FailsClosed
  BY DEF Init, ClientInit, FailsClosed
<1>2. ASSUME FailsClosed, [Next]_vars  PROVE FailsClosed'
  <2>1. CASE Bootstrap
    <3>1. asked' = asked /\ transport' \in Bootstraps(asked)
      BY <2>1 DEF Bootstrap
    <3>2. CASE asked = NoApi
      BY <3>1, <3>2 DEF Bootstraps, AfterFailure, FailsClosed
    <3>3. CASE asked # NoApi
      BY <3>1, <3>3 DEF Bootstraps, AfterFailure, FailsClosed
    <3>. QED  BY <3>2, <3>3
  <2>2. CASE PageLoads
    <3>1. transport' = "loading"
      BY <2>2 DEF PageLoads, FinishLogin, Logout, Reload, LoadClient
    <3>. QED  BY <3>1 DEF FailsClosed
  <2>3. ASSUME StartLogin \/ LoginFails \/ OtherTabLogsIn \/ UNCHANGED client
        PROVE  UNCHANGED <<asked, transport>>
    BY <2>3 DEF StartLogin, LoginFails, OtherTabLogsIn, client
  <2>4. UNCHANGED <<asked, transport>> => FailsClosed'
    BY <1>2 DEF FailsClosed
  <2>. QED  BY <1>2, <2>1, <2>2, <2>3, <2>4 DEF Next, vars
<1>. QED  BY <1>1, <1>2, PTL DEF Spec
============================================================================
