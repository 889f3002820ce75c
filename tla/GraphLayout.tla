---------------------------- MODULE GraphLayout ---------------------------
(* The layout of the graph on the page: graphView of apps/web/app.mjs with   *)
(* packages/graph-renderer/layout-model.mjs.  Handlers run one at a time,    *)
(* except that the upload of a node's image waits for the file between its   *)
(* two halves.                                                               *)
(*                                                                           *)
(* Positions are the nodes that were moved, a rotation a number of turns, a  *)
(* visual an icon or an image.  Which saved layout is selected follows the   *)
(* workspace's history (ChartWorkspace); here it is the last one saved.  A   *)
(* definition introduced by "Fault:" is a deliberately wrong variant of the  *)
(* definition after it.                                                      *)
EXTENDS Naturals, Sequences, SequencesExt, Functions

CONSTANTS
  Cases,        \* use cases
  FirstCase,    \* the one the page opens ("harbor")
  CaseNodes,    \* the nodes of each
  Turns,        \* of the rotation until it is 0 again (24 in the code)
  LayoutLimit,  \* the length of the undo and redo stacks (20 in the code)
  NoNode,       \* no node is dragged
  NoLayout      \* no layout was saved

ASSUME LayoutAssumption ==
  /\ \A c, d \in Cases : c # d => CaseNodes[c] \cap CaseNodes[d] = {}
  /\ FirstCase \in Cases
  /\ Turns \in Nat \ {0} /\ LayoutLimit \in Nat \ {0}

VARIABLES
  shownCase,    \* activeUseCase
  layout,       \* positions, rotation and visuals of the graph
  undoLayouts,  \* graphView.undo
  redoLayouts,  \* graphView.redo
  savedLayout,  \* the selected layout of the workspace
  dragging,     \* the node under the captured pointer
  uploads       \* the nodes an image is being read for

graph == <<shownCase, layout, undoLayouts, redoLayouts, savedLayout, dragging, uploads>>

CurrentNodes == CaseNodes[shownCase]

EmptyLayout == [moved |-> {}, rotation |-> 0, visuals |-> <<>>]

LayoutInit ==
  /\ shownCase = FirstCase /\ layout = EmptyLayout
  /\ undoLayouts = <<>> /\ redoLayouts = <<>>
  /\ savedLayout = NoLayout /\ dragging = NoNode /\ uploads = {}

-----------------------------------------------------------------------------

Latest(s) ==
  IF Len(s) <= LayoutLimit THEN s ELSE SubSeq(s, Len(s) - LayoutLimit + 1, Len(s))

(* Fault: a checkpoint leaves what was undone ready to be redone.            *)
KeptRedo == redoLayouts

NoRedo == <<>>

(* pushLayoutCheckpoint, and the layout that replaces the present one.  The  *)
(* page is drawn again, which ends a drag.                                   *)
Checkpointed(new) ==
  /\ undoLayouts' = Latest(Append(undoLayouts, layout))
  /\ redoLayouts' = NoRedo
  /\ layout' = new

Still == UNCHANGED <<shownCase, savedLayout, uploads>> /\ dragging' = NoNode

MoveStart == \E node \in CurrentNodes :
  /\ Checkpointed(layout) /\ dragging' = node
  /\ UNCHANGED <<shownCase, savedLayout, uploads>>

Moved == [layout EXCEPT !.moved = @ \cup {dragging}]

MovePreview ==
  /\ dragging # NoNode /\ layout' = Moved
  /\ UNCHANGED <<shownCase, undoLayouts, redoLayouts, savedLayout, dragging, uploads>>

MoveEnd ==
  /\ dragging # NoNode /\ layout' = Moved
  /\ UNCHANGED <<undoLayouts, redoLayouts>> /\ Still

Rotate == \E turns \in {1, Turns - 1} :
  Checkpointed([layout EXCEPT !.rotation = (@ + turns) % Turns]) /\ Still

ResetLayout ==
  Checkpointed([layout EXCEPT !.moved = {}, !.rotation = 0]) /\ Still

WithVisual(node, visual) == [layout EXCEPT !.visuals = (node :> visual) @@ @]

SetNodeIcon == \E node \in CurrentNodes :
  Checkpointed(WithVisual(node, "icon")) /\ Still

ResetNodeVisual == \E node \in CurrentNodes :
  /\ Checkpointed([layout EXCEPT !.visuals = Restrict(@, DOMAIN @ \ {node})])
  /\ Still

UndoGraphLayout ==
  /\ undoLayouts # <<>>
  /\ layout' = Last(undoLayouts) /\ undoLayouts' = Front(undoLayouts)
  /\ redoLayouts' = Latest(Append(redoLayouts, layout))
  /\ Still

RedoGraphLayout ==
  /\ redoLayouts # <<>>
  /\ layout' = Last(redoLayouts) /\ redoLayouts' = Front(redoLayouts)
  /\ undoLayouts' = Latest(Append(undoLayouts, layout))
  /\ Still

SaveLayout ==
  /\ savedLayout' = layout
  /\ UNCHANGED <<shownCase, layout, undoLayouts, redoLayouts, dragging, uploads>>

RestoreLayout ==
  savedLayout # NoLayout /\ Checkpointed(savedLayout) /\ Still

-----------------------------------------------------------------------------
(* The upload of an image for a node: read, checked, shown.                  *)

StartUpload == \E node \in CurrentNodes :
  /\ uploads' = uploads \cup {node}
  /\ UNCHANGED <<shownCase, layout, undoLayouts, redoLayouts, savedLayout, dragging>>

(* The file is no image, too large or unreadable.                            *)
RefuseUpload == \E node \in uploads :
  /\ uploads' = uploads \ {node}
  /\ UNCHANGED <<shownCase, layout, undoLayouts, redoLayouts, savedLayout, dragging>>

FinishUpload == \E node \in uploads :
  /\ Checkpointed(WithVisual(node, "image"))
  /\ uploads' = uploads \ {node} /\ dragging' = NoNode
  /\ UNCHANGED <<shownCase, savedLayout>>

-----------------------------------------------------------------------------

FreshLayout ==
  /\ layout' = EmptyLayout /\ undoLayouts' = <<>> /\ redoLayouts' = <<>>
  /\ savedLayout' = NoLayout /\ dragging' = NoNode

(* Another case, or an import that replaces it: reads of files go on.        *)
SwitchCase == \E case \in Cases :
  shownCase' = case /\ FreshLayout /\ UNCHANGED uploads

(* A page that is loaded again starts over.                                  *)
LoadLayout == shownCase' = FirstCase /\ FreshLayout /\ uploads' = {}

LayoutStep ==
  \/ MoveStart \/ MovePreview \/ MoveEnd \/ Rotate \/ ResetLayout
  \/ SetNodeIcon \/ ResetNodeVisual \/ UndoGraphLayout \/ RedoGraphLayout
  \/ SaveLayout \/ RestoreLayout \/ StartUpload \/ RefuseUpload \/ FinishUpload
  \/ SwitchCase
===========================================================================
