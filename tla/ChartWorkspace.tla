-------------------------- MODULE ChartWorkspace --------------------------
(* The chart workspace of packages/graph-renderer/chart-workspace.mjs, as    *)
(* the event handlers of apps/web/app.mjs use it.  A workspace is a value;   *)
(* every handler computes the next one and commits it, whether it changed    *)
(* or not, which puts the present version on the undo stack.  Query typing   *)
(* and the audit entry of a saved AI note replace the present version        *)
(* without a commit.                                                         *)
(*                                                                           *)
(* Labels, texts, coordinates and styles are left out; a text is blank or    *)
(* not.  Lists whose members are never removed and are told apart by their   *)
(* position only are counters.  A snapshot's own older snapshot is left out, *)
(* because a restore overwrites it.  A definition introduced by "Fault:" is  *)
(* a deliberately wrong variant of the definition after it.                  *)
EXTENDS VisibleGraph, FiniteSets, SequencesExt

CONSTANTS
  Queries,       \* search texts, "" among them
  Matches,       \* the nodes and relationships whose text matches a query
  NodeTypes,     \* the nodes of each type a phrase can name
  Communities,   \* the relationships of each community a phrase can name
  Labels,        \* task labels, "" among them
  StatusChoices, \* the statuses passed for a task and for the review, which
  ReviewChoices, \* need not be known ones
  Snapshots,     \* what earlier sessions may have left in the local storage
  HistoryLimit,  \* the length of the undo and redo stacks (30 in the code)
  MaxCommits,    \* bound on the commits of one session
  NoSnapshot     \* the null of savedWorkspaceSnapshot

TaskStatuses == {"todo", "in-progress", "blocked", "done"}
ReviewStatuses == {"triage", "in-review", "ready-for-review",
                   "needs-more-evidence", "closed-training"}

AuditActions == {"saved-search", "comment-added", "case-note-added",
                 "task-state-updated", "review-status-updated", "ai-note-saved",
                 "workspace-snapshot-saved", "workspace-snapshot-restored"}

ASSUME WorkspaceAssumption ==
  /\ HistoryLimit \in Nat \ {0}
  /\ MaxCommits \in Nat
  /\ "" \in Queries
  /\ Matches \in [Queries -> SUBSET (Nodes \cup Rels)]
  /\ NodeTypes \subseteq SUBSET Nodes
  /\ Communities \subseteq SUBSET Rels

VARIABLES
  present,  \* the workspace without its stacks: content and saved snapshot
  undo,     \* undoStack
  redo,     \* redoStack
  view,     \* the use case and the settings in force
  disk,     \* the snapshot in the browser's local storage
  commits   \* how many commits were made: bounds the model

vars == <<present, undo, redo, view, disk, commits>>

EntityIds == {"manual-entity"} \X (Nat \ {0})
EdgeIds == {"manual-edge"} \X (Nat \ {0})
Points == Nodes \cup EntityIds

(* No row of the source bears the id of a manual item.                       *)
ASSUME IdAssumption == (Nodes \cup Rels) \cap EntityIds = {}

Contents ==
  [query : Queries, pinned : Seq(Nodes), expanded : SUBSET Nodes,
   pathNodes : Seq(Nodes), pathRels : SUBSET Rels,
   entities : Seq(EntityIds),
   edges : Seq([id : EdgeIds, from : Points, to : Points]),
   annotations : Nat, comments : Nat, notes : Nat, searches : Nat, layouts : Nat,
   tasks : Seq([label : Labels, status : TaskStatuses]),
   review : ReviewStatuses, audit : Seq(AuditActions \X Nat),
   redacted : SUBSET (Points \cup Rels)]

Versions == [work : Contents, saved : Contents \cup {NoSnapshot}]

EmptyContent ==
  [query |-> "", pinned |-> <<>>, expanded |-> {}, pathNodes |-> <<>>,
   pathRels |-> {}, entities |-> <<>>, edges |-> <<>>, annotations |-> 0,
   comments |-> 0, notes |-> 0, searches |-> 0, layouts |-> 0, tasks |-> <<>>,
   review |-> "triage", audit |-> <<>>, redacted |-> {}]

CreateChartWorkspace == [work |-> EmptyContent, saved |-> NoSnapshot]

Init ==
  /\ present = CreateChartWorkspace
  /\ undo = <<>> /\ redo = <<>>
  /\ view \in Views
  /\ disk \in Snapshots \cup {NoSnapshot}
  /\ commits = 0

-----------------------------------------------------------------------------
(* The operations on a workspace's content.                                  *)

Elements(s) == {s[i] : i \in DOMAIN s}

(* The members of s, in order, that are not among those gone.                *)
Without(s, gone) ==
  LET kept[n \in 0..Len(s)] ==
        IF n = 0 THEN <<>>
        ELSE IF s[n] \in gone THEN kept[n - 1] ELSE Append(kept[n - 1], s[n])
  IN kept[Len(s)]

WithNew(s, x) == IF x \in Elements(s) THEN s ELSE Append(s, x)

RecordAudit(w, action, n) == [w EXCEPT !.audit = Append(@, <<action, n>>)]

(* The cap of eight results, and their order, are left out.                  *)
SearchGraph(w, v) ==
  IF w.query = "" THEN {} ELSE Matches[w.query] \cap (Nodes \cup Shown[v])

PinSearchResult(w, v, result) ==
  IF result \in Nodes THEN [w EXCEPT !.pinned = WithNew(@, result)]
  ELSE IF result \in Shown[v]
       THEN [w EXCEPT !.pinned = WithNew(WithNew(@, Ends[result][1]), Ends[result][2])]
       ELSE w

Incident(v, node) == {r \in Shown[v] : Touches(r, node)}

Neighbors(v, node) == UNION {{Ends[r][1], Ends[r][2]} : r \in Incident(v, node)}

(* Fault: an expansion replaces the relationships of the path.               *)
ExpandOverPath(w, v, node) ==
  [w EXCEPT !.expanded = @ \cup {node} \cup Neighbors(v, node),
            !.pathRels = Incident(v, node)]

ExpandNeighbors(w, v, node) ==
  [w EXCEPT !.expanded = @ \cup {node} \cup Neighbors(v, node),
            !.pathRels = @ \cup Incident(v, node)]

SetPath(w, path) ==
  [w EXCEPT !.pathNodes = path.nodes, !.pathRels = Elements(path.rels)]

(* The phrases of bloom-exploration.mjs.  The nodes a phrase pins come in the *)
(* order of the rows: any order here.                                        *)
PinInOrder(w, nodes) ==
  {[w EXCEPT !.pinned = @ \o Without(order, Elements(@))] :
     order \in SetToSeqs(nodes)}

ConnectedNodes(v, target, type) ==
  {node \in type : \E r \in Shown[v] : Joins(r, target, node)}

ShowConnected(w, v, target, type) ==
  LET expanded == ExpandNeighbors(w, v, target)
  IN PinInOrder([expanded EXCEPT !.pinned = WithNew(@, target)],
                ConnectedNodes(v, target, type))

ShowCommunity(w, v, community) ==
  LET matching == community \cap Shown[v]
      nodes == UNION {{Ends[r][1], Ends[r][2]} : r \in matching}
  IN PinInOrder([w EXCEPT !.pathRels = @ \cup matching], nodes)

AddAnnotation(w, text) ==
  IF text = "" THEN w ELSE [w EXCEPT !.annotations = @ + 1]

SaveSearch(w) ==
  IF w.query = "" THEN w
  ELSE RecordAudit([w EXCEPT !.searches = @ + 1], "saved-search", w.searches + 1)

AddComment(w, text) ==
  IF text = "" THEN w
  ELSE RecordAudit([w EXCEPT !.comments = @ + 1], "comment-added", w.comments + 1)

AddCaseNote(w, text) ==
  IF text = "" THEN w
  ELSE RecordAudit([w EXCEPT !.notes = @ + 1], "case-note-added", w.notes + 1)

(* The position of the task with this label, after the last when it is new.  *)
TaskPosition(w, label) ==
  IF \E i \in DOMAIN w.tasks : w.tasks[i].label = label
  THEN CHOOSE i \in DOMAIN w.tasks : w.tasks[i].label = label
  ELSE Len(w.tasks) + 1

SetTaskState(w, label, status) ==
  LET n == TaskPosition(w, label)
      known == IF status \in TaskStatuses THEN status ELSE "todo"
      task == [label |-> label, status |-> known]
      tasks == [i \in DOMAIN w.tasks \cup {n} |-> IF i = n THEN task ELSE w.tasks[i]]
  IN IF label = "" THEN w
     ELSE RecordAudit([w EXCEPT !.tasks = tasks], "task-state-updated", n)

SetReviewStatus(w, status) ==
  LET known == IF status \in ReviewStatuses THEN status ELSE "triage"
  IN RecordAudit([w EXCEPT !.review = known], "review-status-updated", 0)

AddManualEntity(w, label) ==
  IF label = "" THEN w
  ELSE [w EXCEPT !.entities = Append(@, <<"manual-entity", Len(@) + 1>>)]

(* Fault: the edges of a removed entity are left behind.                     *)
RemoveEntityOnly(w, id) ==
  [w EXCEPT !.entities = Without(@, {id}),
            !.redacted = @ \ {id}]

(* Fault: the redaction of a removed entity stays for the next of its id.    *)
RemoveKeepingRedaction(w, id) ==
  [w EXCEPT !.entities = Without(@, {id}),
            !.edges = Without(@, {e \in Elements(@) : id \in {e.from, e.to}})]

RemoveManualEntity(w, id) ==
  [w EXCEPT !.entities = Without(@, {id}),
            !.edges = Without(@, {e \in Elements(@) : id \in {e.from, e.to}}),
            !.redacted = @ \ {id}]

AddManualEdge(w, from, to) ==
  IF from = to THEN w
  ELSE [w EXCEPT !.edges =
          Append(@, [id |-> <<"manual-edge", Len(@) + 1>>, from |-> from, to |-> to])]

RemoveManualEdge(w, id) ==
  [w EXCEPT !.edges = Without(@, {e \in Elements(@) : e.id = id}), !.redacted = @ \ {id}]

RedactChartItem(w, id) == [w EXCEPT !.redacted = @ \cup {id}]

RestoreRedactions(w) == [w EXCEPT !.redacted = {}]

SaveLayout(w) == [w EXCEPT !.layouts = @ + 1]

(* What the charts and packets made from a workspace say.                    *)

SourceRows(w) == Elements(w.pinned) \cup w.expanded \cup Elements(w.pathNodes)

(* exportBriefingChart: every dependency of the path that is not redacted, a *)
(* relationship that is not visible by its id alone.                         *)
PathDependencies(w) == w.pathRels \ w.redacted

-----------------------------------------------------------------------------
(* History.                                                                  *)

Recent(s) ==
  IF Len(s) <= HistoryLimit THEN s
  ELSE SubSeq(s, Len(s) - HistoryLimit + 1, Len(s))

(* Fault: what was undone stays ready to be redone after a new change.       *)
RedoAfterChange == redo

RedoOnChange == <<>>

CommitWorkspaceChange(next) ==
  /\ commits < MaxCommits
  /\ commits' = commits + 1
  /\ undo' = Recent(Append(undo, present))
  /\ redo' = RedoOnChange
  /\ present' = next

(* A handler that changes the content and leaves the saved snapshot alone.   *)
Handler(w) ==
  CommitWorkspaceChange([present EXCEPT !.work = w]) /\ UNCHANGED <<view, disk>>

UndoWorkspaceChange ==
  /\ undo # <<>>
  /\ present' = Last(undo)
  /\ undo' = Front(undo)
  /\ redo' = Recent(Append(redo, present))
  /\ UNCHANGED <<view, disk, commits>>

RedoWorkspaceChange ==
  /\ redo # <<>>
  /\ present' = Last(redo)
  /\ redo' = Front(redo)
  /\ undo' = Recent(Append(undo, present))
  /\ UNCHANGED <<view, disk, commits>>

-----------------------------------------------------------------------------
(* The event handlers of apps/web/app.mjs.                                   *)

work == present.work

Texts == {"", "text"}

ChartSearch(query) ==
  /\ present' = [present EXCEPT !.work.query = query]
  /\ UNCHANGED <<undo, redo, view, disk, commits>>

PinResult == \E result \in SearchGraph(work, view) :
  Handler(PinSearchResult(work, view, result))

KeepSearch == Handler(SaveSearch(work))

(* Both ends of the selected relationship, visible or not.                   *)
ExpandSelected == \E r \in Rels :
  Handler(ExpandNeighbors(ExpandNeighbors(work, view, Ends[r][1]), view, Ends[r][2]))

FindPath == \E r \in Rels :
  LET start == IF work.pinned = <<>> THEN Ends[r][1] ELSE Head(work.pinned)
      end == IF work.pinned = <<>> THEN Ends[r][2] ELSE Last(work.pinned)
  IN \E path \in ShortestPaths(view, start, end, Cardinality(Nodes)) :
       Handler(SetPath(work, path))

(* A phrase that is not understood changes nothing.                          *)
RunPhrase ==
  \/ \E target \in Nodes, type \in NodeTypes :
       \E w \in ShowConnected(work, view, target, type) : Handler(w)
  \/ \E start, end \in Nodes :
       \E path \in ShortestPaths(view, start, end, Cardinality(Nodes)) :
         Handler(SetPath(work, path))
  \/ \E community \in Communities :
       \E w \in ShowCommunity(work, view, community) : Handler(w)

Annotate == \E text \in Texts : Handler(AddAnnotation(work, text))

Comment == \E text \in Texts : Handler(AddComment(work, text))

NoteCase == \E text \in Texts : Handler(AddCaseNote(work, text))

SetTask == \E label \in Labels, status \in StatusChoices :
  Handler(SetTaskState(work, label, status))

Review == \E status \in ReviewChoices : Handler(SetReviewStatus(work, status))

AddEntity == \E label \in Texts : Handler(AddManualEntity(work, label))

(* The ends are chosen among the chart's rows, or among the source's nodes   *)
(* when there are none.                                                      *)
EdgeChoices ==
  LET rows == SourceRows(work) \cup Elements(work.entities)
  IN IF rows = {} THEN Nodes ELSE rows

AddEdge == \E from, to \in EdgeChoices : Handler(AddManualEdge(work, from, to))

(* Moves and edits of manual items change what the content leaves out.       *)
EditManualItem ==
  (work.entities # <<>> \/ work.edges # <<>>) /\ Handler(work)

(* The package offers removals; the page has no control for them.            *)
RemoveItem ==
  \/ \E id \in Elements(work.entities) : Handler(RemoveManualEntity(work, id))
  \/ \E e \in Elements(work.edges) : Handler(RemoveManualEdge(work, e.id))

Redact == \E r \in Rels :
  LET id == IF work.entities # <<>> THEN Head(work.entities)
            ELSE IF work.pinned # <<>> THEN Head(work.pinned) ELSE r
  IN Handler(RedactChartItem(work, id))

LiftRedactions == Handler(RestoreRedactions(work))

KeepLayout == Handler(SaveLayout(work))

(* The snapshot holds the content before its own audit entry; writing it to  *)
(* the local storage may fail.                                               *)
SaveWorkspaceSnapshot ==
  /\ CommitWorkspaceChange(
       [work |-> RecordAudit(work, "workspace-snapshot-saved", 0), saved |-> work])
  /\ disk' \in {disk, work}
  /\ UNCHANGED view

(* Fault: a restore keeps the audit log of the session.                      *)
RestoredKeepingAudit(snapshot) ==
  RecordAudit([snapshot EXCEPT !.audit = work.audit], "workspace-snapshot-restored", 0)

Restored(snapshot) == RecordAudit(snapshot, "workspace-snapshot-restored", 0)

SnapshotAtHand == IF present.saved # NoSnapshot THEN present.saved ELSE disk

RestoreWorkspaceSnapshot ==
  /\ CommitWorkspaceChange(
       IF SnapshotAtHand = NoSnapshot THEN present
       ELSE [work |-> Restored(SnapshotAtHand), saved |-> SnapshotAtHand])
  /\ UNCHANGED <<view, disk>>

(* An accepted AI draft becomes a case note by a commit, with an audit entry *)
(* added to the committed version.                                           *)
SaveAiNote ==
  Handler(RecordAudit(AddCaseNote(work, "text"), "ai-note-saved", 0))

ChangeSettings ==
  view' \in Views \ {view} /\ UNCHANGED <<present, undo, redo, disk, commits>>

(* A reload of the page, or another use case: the storage stays.             *)
StartOver ==
  /\ present' = CreateChartWorkspace
  /\ undo' = <<>> /\ redo' = <<>>
  /\ view' \in Views
  /\ UNCHANGED <<disk, commits>>

Next ==
  \/ \E query \in Queries : ChartSearch(query)
  \/ PinResult \/ KeepSearch \/ ExpandSelected \/ FindPath \/ RunPhrase
  \/ Annotate \/ Comment \/ NoteCase \/ SetTask \/ Review
  \/ AddEntity \/ AddEdge \/ EditManualItem \/ RemoveItem
  \/ Redact \/ LiftRedactions \/ KeepLayout
  \/ SaveWorkspaceSnapshot \/ RestoreWorkspaceSnapshot \/ SaveAiNote
  \/ UndoWorkspaceChange \/ RedoWorkspaceChange
  \/ ChangeSettings \/ StartOver

Spec == Init /\ [][Next]_vars
=============================================================================
