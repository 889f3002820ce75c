------------------------ MODULE ChartWorkspaceProofs -----------------------
(* Machine-checked proofs about the chart workspace, for every graph, every  *)
(* history limit and every number of commits: its undo and redo implement one*)
(* timeline, and whatever version comes back, its items have their audit     *)
(* entries, its links their ends, its redacted entities are there and its    *)
(* path has the relationships that join it.                                  *)
EXTENDS ChartWorkspaceProperties, DataLemmas, FiniteSetTheorems

AtHand == AtHandOf(undo, present, redo)

(* The stacks are well-formed and together within the history's limit.       *)
HistoryInv == HistoryOK(undo, present, redo, HistoryLimit)

-----------------------------------------------------------------------------
(* What a step does to the history.                                          *)

Committed == undo' = Recent(Append(undo, present)) /\ redo' = <<>>

Amended == undo' = undo /\ redo' = redo

Restarted == undo' = <<>> /\ redo' = <<>>

LEMMA HandlersCommit ==
  /\ \A next : CommitWorkspaceChange(next) => Committed
  /\ \A w : Handler(w) => Committed
PROOF BY DEF CommitWorkspaceChange, Handler, Committed, RedoOnChange

LEMMA StepKinds ==
  [Next]_vars =>
    \/ Committed \/ UndoWorkspaceChange \/ RedoWorkspaceChange
    \/ Amended \/ Restarted
PROOF
<1>1. ASSUME PinResult \/ KeepSearch \/ ExpandSelected \/ FindPath
      PROVE  Committed
  BY <1>1, HandlersCommit DEF PinResult, KeepSearch, ExpandSelected, FindPath
<1>2. ASSUME RunPhrase  PROVE  Committed
  BY <1>2, HandlersCommit DEF RunPhrase
<1>3. ASSUME Annotate \/ Comment \/ NoteCase \/ SetTask \/ Review
      PROVE  Committed
  BY <1>3, HandlersCommit DEF Annotate, Comment, NoteCase, SetTask, Review
<1>4. ASSUME AddEntity \/ AddEdge \/ EditManualItem \/ RemoveItem
      PROVE  Committed
  BY <1>4, HandlersCommit DEF AddEntity, AddEdge, EditManualItem, RemoveItem
<1>5. ASSUME Redact \/ LiftRedactions \/ KeepLayout \/ SaveAiNote
      PROVE  Committed
  BY <1>5, HandlersCommit DEF Redact, LiftRedactions, KeepLayout, SaveAiNote
<1>6. ASSUME SaveWorkspaceSnapshot \/ RestoreWorkspaceSnapshot
      PROVE  Committed
  BY <1>6, HandlersCommit DEF SaveWorkspaceSnapshot, RestoreWorkspaceSnapshot
<1>7. ASSUME (\E query \in Queries : ChartSearch(query)) \/ ChangeSettings
      PROVE  Amended
  BY <1>7 DEF ChartSearch, ChangeSettings, Amended
<1>8. ASSUME StartOver  PROVE  Restarted
  BY <1>8 DEF StartOver, Restarted
<1>9. ASSUME UNCHANGED vars  PROVE  Amended
  BY <1>9 DEF vars, Amended
<1>. QED
  BY <1>1, <1>2, <1>3, <1>4, <1>5, <1>6, <1>7, <1>8, <1>9 DEF Next

-----------------------------------------------------------------------------
(* The history stays well-formed, holds what was at hand before besides the  *)
(* new version, and each step is one on the timeline.                        *)

LEMMA RecentIsTrimmed ==
  /\ \A s : Recent(s) = Trimmed(s, HistoryLimit)
  /\ \A s : Timeline!Recent(s) = Trimmed(s, HistoryLimit)
PROOF BY DEF Recent, Timeline!Recent, Trimmed

LEMMA LimitIsNat == HistoryLimit \in Nat
PROOF BY WorkspaceAssumption

Kept ==
  /\ HistoryInv'
  /\ undo' \in Seq(AtHand) /\ redo' \in Seq(AtHand)
  /\ Timeline!Next

LEMMA HistoryInit == Init => HistoryInv /\ Timeline!Start
PROOF BY LimitIsNat, FreshHistory DEF Init, HistoryInv, Timeline!Start, Stacked

LEMMA CommitStep ==
  ASSUME HistoryInv, Committed
  PROVE  Kept
PROOF
<1>1. undo' = Trimmed(Append(undo, present), HistoryLimit) /\ redo' = <<>>
  BY RecentIsTrimmed DEF Committed
<1>2. /\ HistoryInv' /\ undo' \in Seq(AtHand) /\ redo' \in Seq(AtHand)
      /\ Len(Stacked(undo', present', redo')) = Len(undo') + 1
      /\ Stacked(undo', present', redo')[Len(undo') + 1] = present'
      /\ Stacked(undo', present', redo')
           = Append(Trimmed(SubSeq(Stacked(undo, present, redo), 1, Len(undo) + 1),
                            HistoryLimit), present')
  BY <1>1, LimitIsNat, CommitHistory DEF HistoryInv, AtHand
<1>3. Timeline!Change
  BY <1>2, RecentIsTrimmed DEF Timeline!Change, Stacked
<1>. QED  BY <1>2, <1>3 DEF Kept, Timeline!Next

LEMMA UndoStep ==
  ASSUME HistoryInv, UndoWorkspaceChange
  PROVE  Kept /\ present' \in AtHand
PROOF
<1>1. /\ undo # <<>> /\ undo' = Front(undo) /\ present' = Last(undo)
      /\ redo' = Trimmed(Append(redo, present), HistoryLimit)
  BY RecentIsTrimmed DEF UndoWorkspaceChange
<1>2. /\ HistoryInv' /\ undo' \in Seq(AtHand) /\ redo' \in Seq(AtHand)
      /\ present' \in AtHand
      /\ Stacked(undo', present', redo') = Stacked(undo, present, redo)
      /\ Len(undo) + 1 > 1 /\ Len(undo') + 1 = (Len(undo) + 1) - 1
  BY <1>1, LimitIsNat, UndoHistory DEF HistoryInv, AtHand
<1>3. Timeline!Undo
  BY <1>2 DEF Timeline!Undo, Stacked
<1>. QED  BY <1>2, <1>3 DEF Kept, Timeline!Next

LEMMA RedoStep ==
  ASSUME HistoryInv, RedoWorkspaceChange
  PROVE  Kept /\ present' \in AtHand
PROOF
<1>1. /\ redo # <<>> /\ redo' = Front(redo) /\ present' = Last(redo)
      /\ undo' = Trimmed(Append(undo, present), HistoryLimit)
  BY RecentIsTrimmed DEF RedoWorkspaceChange
<1>2. /\ HistoryInv' /\ undo' \in Seq(AtHand) /\ redo' \in Seq(AtHand)
      /\ present' \in AtHand
      /\ Stacked(undo', present', redo') = Stacked(undo, present, redo)
      /\ Len(undo) + 1 < Len(Stacked(undo, present, redo))
      /\ Len(undo') + 1 = (Len(undo) + 1) + 1
  BY <1>1, LimitIsNat, RedoHistory DEF HistoryInv, AtHand
<1>3. Timeline!Redo
  BY <1>2 DEF Timeline!Redo, Stacked
<1>. QED  BY <1>2, <1>3 DEF Kept, Timeline!Next

LEMMA AmendStep ==
  ASSUME HistoryInv, Amended
  PROVE  Kept
PROOF
<1>1. undo' = undo /\ redo' = redo
  BY DEF Amended
<1>2. /\ undo \in Seq(AtHand) /\ redo \in Seq(AtHand)
      /\ HistoryOK(undo, present', redo, HistoryLimit)
      /\ Stacked(undo, present', redo)[Len(undo) + 1] = present'
      /\ Stacked(undo, present', redo)
           = [Stacked(undo, present, redo) EXCEPT ![Len(undo) + 1] = present']
  BY LimitIsNat, AmendHistory DEF HistoryInv, AtHand
<1>3. Timeline!Amend
  BY <1>1, <1>2 DEF Timeline!Amend, Stacked
<1>. QED  BY <1>1, <1>2, <1>3 DEF Kept, HistoryInv, Timeline!Next

LEMMA RestartStep ==
  ASSUME Restarted
  PROVE  Kept
PROOF
<1>1. HistoryInv' /\ Timeline!Restart
  BY LimitIsNat, FreshHistory DEF Restarted, HistoryInv, Timeline!Restart, Stacked
<1>2. <<>> \in Seq(AtHand)
  OBVIOUS
<1>. QED  BY <1>1, <1>2 DEF Kept, Restarted, Timeline!Next

LEMMA HistoryStep == HistoryInv /\ [Next]_vars => Kept
PROOF
<1>. SUFFICES ASSUME HistoryInv, [Next]_vars  PROVE  Kept
  OBVIOUS
<1>. QED  BY StepKinds, CommitStep, UndoStep, RedoStep, AmendStep, RestartStep

(* The stacks of every reachable state are well-formed, and no version that  *)
(* undo or redo moves between them is ever dropped (chart-workspace.mjs:     *)
(* 77-105).                                                                  *)
THEOREM HistoryHolds == Spec => []HistoryInv
PROOF
<1>1. HistoryInv /\ [Next]_vars => HistoryInv'
  BY HistoryStep DEF Kept
<1>. QED  BY HistoryInit, <1>1, PTL DEF Spec

(* The workspace's commits, undo, redo, amendments and restarts implement    *)
(* one timeline with a cursor.                                               *)
THEOREM WorkspaceImplementsTimeline == Spec => KeepsTheTimeline
PROOF
<1>1. Init => Timeline!Start
  BY HistoryInit
<1>2. HistoryInv /\ [Next]_vars
        => [Timeline!Next]_<<undo \o <<present>> \o Reverse(redo), Len(undo) + 1>>
  BY HistoryStep DEF Kept
<1>. QED  BY <1>1, <1>2, HistoryHolds, PTL DEF Spec, KeepsTheTimeline, Timeline!Spec

-----------------------------------------------------------------------------
(* Contents keep their types.                                                *)

Task == [label : Labels, status : TaskStatuses]

Entries == AuditActions \X Nat

Edges == [id : EdgeIds, from : Points, to : Points]

WithItems(w, x, y, z) == [w EXCEPT !.entities = x, !.edges = y, !.redacted = z]

LEMMA Retyping ==
  ASSUME NEW w \in Contents
  PROVE  /\ \A x \in Queries : [w EXCEPT !.query = x] \in Contents
         /\ \A x \in Seq(Nodes) : [w EXCEPT !.pinned = x] \in Contents
         /\ \A x \in SUBSET Nodes, y \in SUBSET Rels :
              [w EXCEPT !.expanded = x, !.pathRels = y] \in Contents
         /\ \A x \in Seq(Nodes), y \in SUBSET Rels :
              [w EXCEPT !.pathNodes = x, !.pathRels = y] \in Contents
         /\ \A x \in Seq(EntityIds), y \in Seq(Edges), z \in SUBSET (Points \cup Rels) :
              WithItems(w, x, y, z) \in Contents
         /\ \A x \in Nat :
              /\ [w EXCEPT !.annotations = x] \in Contents
              /\ [w EXCEPT !.comments = x] \in Contents
              /\ [w EXCEPT !.notes = x] \in Contents
              /\ [w EXCEPT !.searches = x] \in Contents
              /\ [w EXCEPT !.layouts = x] \in Contents
         /\ \A x \in Seq(Task) : [w EXCEPT !.tasks = x] \in Contents
         /\ \A x \in ReviewStatuses : [w EXCEPT !.review = x] \in Contents
         /\ \A x \in Seq(Entries) : [w EXCEPT !.audit = x] \in Contents
PROOF
<1>1. /\ \A x \in Queries : [w EXCEPT !.query = x] \in Contents
      /\ \A x \in Seq(Nodes) : [w EXCEPT !.pinned = x] \in Contents
      /\ \A x \in SUBSET Nodes, y \in SUBSET Rels :
           [w EXCEPT !.expanded = x, !.pathRels = y] \in Contents
      /\ \A x \in Seq(Nodes), y \in SUBSET Rels :
           [w EXCEPT !.pathNodes = x, !.pathRels = y] \in Contents
  BY DEF Contents
<1>2. \A x \in Seq(EntityIds), y \in Seq(Edges), z \in SUBSET (Points \cup Rels) :
        WithItems(w, x, y, z) \in Contents
  BY DEF Contents, WithItems, Edges
<1>3. \A x \in Nat :
        /\ [w EXCEPT !.annotations = x] \in Contents
        /\ [w EXCEPT !.comments = x] \in Contents
        /\ [w EXCEPT !.notes = x] \in Contents
        /\ [w EXCEPT !.searches = x] \in Contents
        /\ [w EXCEPT !.layouts = x] \in Contents
  BY DEF Contents
<1>4. /\ \A x \in Seq(Task) : [w EXCEPT !.tasks = x] \in Contents
      /\ \A x \in ReviewStatuses : [w EXCEPT !.review = x] \in Contents
      /\ \A x \in Seq(Entries) : [w EXCEPT !.audit = x] \in Contents
  BY DEF Contents, Task, Entries
<1>. QED  BY <1>1, <1>2, <1>3, <1>4

-----------------------------------------------------------------------------
(* Items come with their audit entries.  Of a content only the fields that   *)
(* count items and their log matter here.                                    *)

LogOK(w) ==
  /\ {"comments", "notes", "searches", "tasks", "audit"} \subseteq DOMAIN w
  /\ w.comments \in Nat /\ w.notes \in Nat /\ w.searches \in Nat
  /\ w.tasks \in Seq(Task) /\ w.audit \in Seq(Entries)
  /\ Audited(w)

(* An operation on other fields keeps what is logged.                        *)
LEMMA SameLog ==
  ASSUME NEW w, LogOK(w), NEW w1,
         {"comments", "notes", "searches", "tasks", "audit"} \subseteq DOMAIN w1,
         w1.comments = w.comments, w1.notes = w.notes, w1.searches = w.searches,
         w1.tasks = w.tasks, w1.audit = w.audit
  PROVE  LogOK(w1)
PROOF BY DEF LogOK, Audited

(* An operation with one audit entry adds at most the item it is about.      *)
LEMMA OneMoreEntry ==
  ASSUME NEW w, LogOK(w), NEW w1, NEW action \in AuditActions, NEW n \in Nat,
         {"comments", "notes", "searches", "tasks", "audit"} \subseteq DOMAIN w1,
         w1.audit = Append(w.audit, <<action, n>>),
         \/ w1.comments = w.comments
         \/ /\ action = "comment-added" /\ n = w.comments + 1
            /\ w1.comments = w.comments + 1,
         \/ w1.notes = w.notes
         \/ /\ action = "case-note-added" /\ n = w.notes + 1
            /\ w1.notes = w.notes + 1,
         \/ w1.searches = w.searches
         \/ /\ action = "saved-search" /\ n = w.searches + 1
            /\ w1.searches = w.searches + 1,
         w1.tasks \in Seq(Task),
         \/ DOMAIN w1.tasks = DOMAIN w.tasks
         \/ /\ action = "task-state-updated"
            /\ DOMAIN w1.tasks = DOMAIN w.tasks \cup {n}
  PROVE  LogOK(w1)
PROOF
<1>. DEFINE Logged(log, a, k) == \E i \in DOMAIN log : log[i] = <<a, k>>
<1>1. PICK entry \in Entries : entry = <<action, n>>
  BY DEF Entries
<1>2. /\ w1.audit \in Seq(Entries)
      /\ \A a, k : Logged(w.audit, a, k) => Logged(w1.audit, a, k)
      /\ Logged(w1.audit, action, n)
  <2>1. PICK log \in Seq(Entries), m \in Nat : log = w.audit /\ m = Len(log)
    BY LenProperties DEF LogOK
  <2>2. PICK log1 \in Seq(Entries) :
          /\ log1 = w1.audit /\ Len(log1) = m + 1
          /\ \A i \in 1..m : log1[i] = log[i]
          /\ log1[m + 1] = entry
    <3>1. /\ Append(log, entry) \in Seq(Entries) /\ Len(Append(log, entry)) = m + 1
          /\ \A i \in 1..m : Append(log, entry)[i] = log[i]
          /\ Append(log, entry)[m + 1] = entry
      BY <2>1, AppendProperties
    <3>2. w1.audit = Append(log, entry)
      BY <1>1, <2>1
    <3>. QED  BY <3>1, <3>2
  <2>3. DOMAIN log = 1..m /\ DOMAIN log1 = 1..(m + 1)
    BY <2>1, <2>2
  <2>4. DOMAIN log \subseteq DOMAIN log1 /\ m + 1 \in DOMAIN log1
    BY <2>3
  <2>. QED  BY <1>1, <2>1, <2>2, <2>3, <2>4
<1>. HIDE DEF Logged
<1>3. \A k \in 1..w1.comments : Logged(w1.audit, "comment-added", k)
  <2>1. PICK c \in Nat : c = w.comments
    BY DEF LogOK
  <2>2. \A k \in 1..c : Logged(w1.audit, "comment-added", k)
    BY <1>2, <2>1 DEF LogOK, Audited, Logged
  <2>3. \A k \in 1..(c + 1) : k \in 1..c \/ k = c + 1
    OBVIOUS
  <2>. QED  BY <1>2, <2>1, <2>2, <2>3
<1>4. \A k \in 1..w1.notes : Logged(w1.audit, "case-note-added", k)
  <2>1. PICK c \in Nat : c = w.notes
    BY DEF LogOK
  <2>2. \A k \in 1..c : Logged(w1.audit, "case-note-added", k)
    BY <1>2, <2>1 DEF LogOK, Audited, Logged
  <2>3. \A k \in 1..(c + 1) : k \in 1..c \/ k = c + 1
    OBVIOUS
  <2>. QED  BY <1>2, <2>1, <2>2, <2>3
<1>5. \A k \in 1..w1.searches : Logged(w1.audit, "saved-search", k)
  <2>1. PICK c \in Nat : c = w.searches
    BY DEF LogOK
  <2>2. \A k \in 1..c : Logged(w1.audit, "saved-search", k)
    BY <1>2, <2>1 DEF LogOK, Audited, Logged
  <2>3. \A k \in 1..(c + 1) : k \in 1..c \/ k = c + 1
    OBVIOUS
  <2>. QED  BY <1>2, <2>1, <2>2, <2>3
<1>6. \A k \in DOMAIN w1.tasks : Logged(w1.audit, "task-state-updated", k)
  <2>1. \A k \in DOMAIN w.tasks : Logged(w1.audit, "task-state-updated", k)
    BY <1>2 DEF LogOK, Audited, Logged
  <2>. QED  BY <1>2, <2>1
<1>7. Audited(w1)
  BY <1>3, <1>4, <1>5, <1>6 DEF Audited, Logged
<1>8. w1.comments \in Nat /\ w1.notes \in Nat /\ w1.searches \in Nat
  BY DEF LogOK
<1>. QED  BY <1>2, <1>7, <1>8 DEF LogOK

LEMMA OtherField ==
  ASSUME NEW w, LogOK(w), NEW f,
         f \notin {"comments", "notes", "searches", "tasks", "audit"}, NEW x
  PROVE  LogOK([w EXCEPT ![f] = x])
PROOF
<1>. DEFINE w1 == [w EXCEPT ![f] = x]
<1>1. DOMAIN w1 = DOMAIN w /\ \A g \in DOMAIN w : g # f => w1[g] = w[g]
  OBVIOUS
<1>2. {"comments", "notes", "searches", "tasks", "audit"} \subseteq DOMAIN w
  BY DEF LogOK
<1>3. /\ {"comments", "notes", "searches", "tasks", "audit"} \subseteq DOMAIN w1
      /\ w1.comments = w.comments /\ w1.notes = w.notes /\ w1.searches = w.searches
      /\ w1.tasks = w.tasks /\ w1.audit = w.audit
  BY <1>1, <1>2
<1>. HIDE DEF w1
<1>4. LogOK(w1)
  BY <1>3, SameLog
<1>. QED  BY <1>4 DEF w1

(* The operations that do not touch what is counted.                         *)
LEMMA QuietOperations ==
  ASSUME NEW w, LogOK(w)
  PROVE  /\ \A query : LogOK([w EXCEPT !.query = query])
         /\ \A v, result : LogOK(PinSearchResult(w, v, result))
         /\ \A v, node : LogOK(ExpandNeighbors(w, v, node))
         /\ \A path : LogOK(SetPath(w, path))
         /\ \A text : LogOK(AddAnnotation(w, text))
         /\ \A label : LogOK(AddManualEntity(w, label))
         /\ \A id : LogOK(RemoveManualEntity(w, id)) /\ LogOK(RemoveManualEdge(w, id))
         /\ \A from, to : LogOK(AddManualEdge(w, from, to))
         /\ \A id : LogOK(RedactChartItem(w, id))
         /\ LogOK(RestoreRedactions(w)) /\ LogOK(SaveLayout(w))
PROOF
<1>. DEFINE Logging == {"comments", "notes", "searches", "tasks", "audit"}
<1>0. \A u, f, x : LogOK(u) /\ f \notin Logging => LogOK([u EXCEPT ![f] = x])
  BY OtherField
<1>. DEFINE Quiet == {"query", "pinned", "expanded", "pathNodes", "pathRels", "annotations",
                      "entities", "edges", "redacted", "layouts"}
<1>1. \A f \in Quiet : f \notin Logging
  OBVIOUS
<1>. HIDE DEF Logging
<1>2. \A u, x : LogOK(u) =>
        /\ LogOK([u EXCEPT !.query = x]) /\ LogOK([u EXCEPT !.pinned = x])
        /\ LogOK([u EXCEPT !.expanded = x]) /\ LogOK([u EXCEPT !.pathNodes = x])
        /\ LogOK([u EXCEPT !.pathRels = x]) /\ LogOK([u EXCEPT !.annotations = x])
        /\ LogOK([u EXCEPT !.entities = x]) /\ LogOK([u EXCEPT !.edges = x])
        /\ LogOK([u EXCEPT !.redacted = x]) /\ LogOK([u EXCEPT !.layouts = x])
  BY <1>0, <1>1
<1>3. \A query : LogOK([w EXCEPT !.query = query])
  BY <1>2
<1>4. \A v, result : LogOK(PinSearchResult(w, v, result))
  BY <1>2 DEF PinSearchResult
<1>5. \A v, node : LogOK(ExpandNeighbors(w, v, node))
  BY <1>2 DEF ExpandNeighbors
<1>6. \A path : LogOK(SetPath(w, path))
  BY <1>2 DEF SetPath
<1>7. \A text : LogOK(AddAnnotation(w, text))
  BY <1>2 DEF AddAnnotation
<1>8. \A label : LogOK(AddManualEntity(w, label))
  BY <1>2 DEF AddManualEntity
<1>9. \A id : LogOK(RemoveManualEntity(w, id)) /\ LogOK(RemoveManualEdge(w, id))
  BY <1>2 DEF RemoveManualEntity, RemoveManualEdge
<1>10. \A from, to : LogOK(AddManualEdge(w, from, to))
  BY <1>2 DEF AddManualEdge
<1>11. \A id : LogOK(RedactChartItem(w, id))
  BY <1>2 DEF RedactChartItem
<1>12. LogOK(RestoreRedactions(w)) /\ LogOK(SaveLayout(w))
  BY <1>2 DEF RestoreRedactions, SaveLayout
<1>. QED
  BY <1>3, <1>4, <1>5, <1>6, <1>7, <1>8, <1>9, <1>10, <1>11, <1>12

LEMMA PhraseOperations ==
  ASSUME NEW w, LogOK(w)
  PROVE  /\ \A v, target, type : \A w1 \in ShowConnected(w, v, target, type) : LogOK(w1)
         /\ \A v, community : \A w1 \in ShowCommunity(w, v, community) : LogOK(w1)
PROOF
<1>1. \A u, x : LogOK(u) =>
        LogOK([u EXCEPT !.pinned = x]) /\ LogOK([u EXCEPT !.pathRels = x])
  <2>1. {"pinned", "pathRels"}
          \cap {"comments", "notes", "searches", "tasks", "audit"} = {}
    OBVIOUS
  <2>. QED  BY <2>1, OtherField
<1>2. \A u, nodes : LogOK(u) => \A w1 \in PinInOrder(u, nodes) : LogOK(w1)
  <2>. SUFFICES ASSUME NEW u, NEW nodes, LogOK(u), NEW w1 \in PinInOrder(u, nodes)
                PROVE  LogOK(w1)
    OBVIOUS
  <2>1. PICK pinned : w1 = [u EXCEPT !.pinned = pinned]
    BY Zenon DEF PinInOrder
  <2>. QED  BY <1>1, <2>1
<1>3. \A v, node : LogOK(ExpandNeighbors(w, v, node))
  BY QuietOperations
<1>4. \A v, target, type : \A w1 \in ShowConnected(w, v, target, type) : LogOK(w1)
  BY <1>1, <1>2, <1>3 DEF ShowConnected
<1>5. \A v, community : \A w1 \in ShowCommunity(w, v, community) : LogOK(w1)
  BY <1>1, <1>2 DEF ShowCommunity
<1>. QED  BY <1>4, <1>5

(* The operations that record an audit entry.                                *)
LEMMA RecordedOnly ==
  ASSUME NEW w, LogOK(w), NEW action \in AuditActions, NEW n \in Nat
  PROVE  LogOK(RecordAudit(w, action, n))
PROOF
<1>. DEFINE w1 == RecordAudit(w, action, n)
<1>1. /\ {"comments", "notes", "searches", "tasks", "audit"} \subseteq DOMAIN w1
      /\ w1.comments = w.comments /\ w1.notes = w.notes /\ w1.searches = w.searches
      /\ w1.tasks = w.tasks /\ w1.audit = Append(w.audit, <<action, n>>)
      /\ w1.tasks \in Seq(Task)
  BY DEF RecordAudit, LogOK
<1>. HIDE DEF w1
<1>2. LogOK(w1)
  BY <1>1, OneMoreEntry
<1>. QED  BY <1>2 DEF w1

LEMMA RecordingOperations ==
  ASSUME NEW w, LogOK(w)
  PROVE  /\ LogOK(SaveSearch(w))
         /\ \A text : LogOK(AddComment(w, text)) /\ LogOK(AddCaseNote(w, text))
         /\ \A status : LogOK(SetReviewStatus(w, status))
PROOF
<1>1. LogOK(RecordAudit([w EXCEPT !.searches = @ + 1], "saved-search", w.searches + 1))
  <2>. DEFINE w1 == RecordAudit([w EXCEPT !.searches = @ + 1], "saved-search", w.searches + 1)
  <2>1. /\ {"comments", "notes", "searches", "tasks", "audit"} \subseteq DOMAIN w1
        /\ w1.comments = w.comments /\ w1.notes = w.notes
        /\ w1.searches = w.searches + 1 /\ w.searches + 1 \in Nat
        /\ w1.tasks = w.tasks /\ w1.tasks \in Seq(Task)
        /\ w1.audit = Append(w.audit, <<"saved-search", w.searches + 1>>)
    BY DEF RecordAudit, LogOK
  <2>. HIDE DEF w1
  <2>2. PICK action \in AuditActions, k \in Nat : action = "saved-search" /\ k = w.searches + 1
    BY <2>1 DEF AuditActions
  <2>3. w1.audit = Append(w.audit, <<action, k>>)
    BY <2>1, <2>2
  <2>4. LogOK(w1)
    BY <2>1, <2>2, <2>3, OneMoreEntry
  <2>. QED  BY <2>4 DEF w1
<1>2. LogOK(RecordAudit([w EXCEPT !.comments = @ + 1], "comment-added", w.comments + 1))
  <2>. DEFINE w1 == RecordAudit([w EXCEPT !.comments = @ + 1], "comment-added", w.comments + 1)
  <2>1. /\ {"comments", "notes", "searches", "tasks", "audit"} \subseteq DOMAIN w1
        /\ w1.notes = w.notes /\ w1.searches = w.searches
        /\ w1.comments = w.comments + 1 /\ w.comments + 1 \in Nat
        /\ w1.tasks = w.tasks /\ w1.tasks \in Seq(Task)
        /\ w1.audit = Append(w.audit, <<"comment-added", w.comments + 1>>)
    BY DEF RecordAudit, LogOK
  <2>. HIDE DEF w1
  <2>2. PICK action \in AuditActions, k \in Nat : action = "comment-added" /\ k = w.comments + 1
    BY <2>1 DEF AuditActions
  <2>3. w1.audit = Append(w.audit, <<action, k>>)
    BY <2>1, <2>2
  <2>4. LogOK(w1)
    BY <2>1, <2>2, <2>3, OneMoreEntry
  <2>. QED  BY <2>4 DEF w1
<1>3. LogOK(RecordAudit([w EXCEPT !.notes = @ + 1], "case-note-added", w.notes + 1))
  <2>. DEFINE w1 == RecordAudit([w EXCEPT !.notes = @ + 1], "case-note-added", w.notes + 1)
  <2>1. /\ {"comments", "notes", "searches", "tasks", "audit"} \subseteq DOMAIN w1
        /\ w1.comments = w.comments /\ w1.searches = w.searches
        /\ w1.notes = w.notes + 1 /\ w.notes + 1 \in Nat
        /\ w1.tasks = w.tasks /\ w1.tasks \in Seq(Task)
        /\ w1.audit = Append(w.audit, <<"case-note-added", w.notes + 1>>)
    BY DEF RecordAudit, LogOK
  <2>. HIDE DEF w1
  <2>2. PICK action \in AuditActions, k \in Nat : action = "case-note-added" /\ k = w.notes + 1
    BY <2>1 DEF AuditActions
  <2>3. w1.audit = Append(w.audit, <<action, k>>)
    BY <2>1, <2>2
  <2>4. LogOK(w1)
    BY <2>1, <2>2, <2>3, OneMoreEntry
  <2>. QED  BY <2>4 DEF w1
<1>4. \A status : LogOK(SetReviewStatus(w, status))
  <2>1. \A known : LogOK([w EXCEPT !.review = known])
    <3>1. "review" \notin {"comments", "notes", "searches", "tasks", "audit"}
      OBVIOUS
    <3>. QED  BY <3>1, OtherField
  <2>2. "review-status-updated" \in AuditActions /\ 0 \in Nat
    BY DEF AuditActions
  <2>. QED  BY <2>1, <2>2, RecordedOnly DEF SetReviewStatus
<1>. QED  BY <1>1, <1>2, <1>3, <1>4 DEF SaveSearch, AddComment, AddCaseNote

(* The list with the task of this label and status.                          *)
NewTasks(w, label, status) ==
  [i \in DOMAIN w.tasks \cup {TaskPosition(w, label)} |->
     IF i = TaskPosition(w, label)
     THEN [label |-> label, status |-> IF status \in TaskStatuses THEN status ELSE "todo"]
     ELSE w.tasks[i]]

LEMMA TaskLists ==
  ASSUME NEW w, w.tasks \in Seq(Task), NEW label \in Labels, NEW status
  PROVE  /\ NewTasks(w, label, status) \in Seq(Task)
         /\ DOMAIN NewTasks(w, label, status) = DOMAIN w.tasks \cup {TaskPosition(w, label)}
         /\ TaskPosition(w, label) \in Nat
         /\ SetTaskState(w, label, status) =
              IF label = "" THEN w
              ELSE RecordAudit([w EXCEPT !.tasks = NewTasks(w, label, status)],
                               "task-state-updated", TaskPosition(w, label))
PROOF
<1>. DEFINE n == TaskPosition(w, label)
            task == [label |-> label,
                     status |-> IF status \in TaskStatuses THEN status ELSE "todo"]
            tasks == [i \in DOMAIN w.tasks \cup {n} |-> IF i = n THEN task ELSE w.tasks[i]]
<1>0. /\ tasks = NewTasks(w, label, status)
      /\ SetTaskState(w, label, status) =
           IF label = "" THEN w
           ELSE RecordAudit([w EXCEPT !.tasks = tasks], "task-state-updated", n)
  BY DEF NewTasks, SetTaskState
<1>1. PICK m \in Nat : m = Len(w.tasks) /\ DOMAIN w.tasks = 1..m
  BY LenProperties
<1>2. n \in 1..m \/ n = m + 1
  BY <1>1 DEF TaskPosition
<1>3. task \in Task
  BY DEF Task, TaskStatuses
<1>. HIDE DEF n, task
<1>4. DOMAIN tasks = DOMAIN w.tasks \cup {n} /\ tasks \in Seq(Task)
  <2>1. PICK k \in Nat : DOMAIN w.tasks \cup {n} = 1..k
    <3>1. n \in 1..m => DOMAIN w.tasks \cup {n} = 1..m
      BY <1>1
    <3>2. n = m + 1 => DOMAIN w.tasks \cup {n} = 1..(m + 1) /\ m + 1 \in Nat
      BY <1>1
    <3>. QED  BY <1>2, <3>1, <3>2
  <2>2. \A i \in DOMAIN w.tasks : w.tasks[i] \in Task
    BY <1>1
  <2>3. tasks = [i \in 1..k |-> IF i = n THEN task ELSE w.tasks[i]]
    BY <2>1
  <2>4. \A i \in 1..k : (IF i = n THEN task ELSE w.tasks[i]) \in Task
    BY <1>3, <2>1, <2>2
  <2>. QED  BY <2>1, <2>3, <2>4
<1>5. n \in Nat
  BY <1>2
<1>. HIDE DEF tasks
<1>. QED  BY <1>0, <1>4, <1>5 DEF n

LEMMA TaskOperation ==
  ASSUME NEW w, LogOK(w), NEW label \in Labels, NEW status
  PROVE  LogOK(SetTaskState(w, label, status))
PROOF
<1>0. w.tasks \in Seq(Task)
  BY DEF LogOK
<1>. DEFINE tasks == NewTasks(w, label, status)
            n == TaskPosition(w, label)
<1>1. /\ n \in Nat
      /\ tasks \in Seq(Task) /\ DOMAIN tasks = DOMAIN w.tasks \cup {n}
      /\ SetTaskState(w, label, status) =
             IF label = "" THEN w
             ELSE RecordAudit([w EXCEPT !.tasks = tasks], "task-state-updated", n)
  BY <1>0, TaskLists
<1>. HIDE DEF tasks, n
<1>2. LogOK(RecordAudit([w EXCEPT !.tasks = tasks], "task-state-updated", n))
  <2>. DEFINE w1 == RecordAudit([w EXCEPT !.tasks = tasks], "task-state-updated", n)
  <2>1. /\ {"comments", "notes", "searches", "tasks", "audit"} \subseteq DOMAIN w1
        /\ w1.comments = w.comments /\ w1.searches = w.searches /\ w1.notes = w.notes
        /\ w1.tasks = tasks
        /\ w1.audit = Append(w.audit, <<"task-state-updated", n>>)
    BY DEF RecordAudit, LogOK
  <2>. HIDE DEF w1
  <2>2. PICK action \in AuditActions : action = "task-state-updated"
    BY DEF AuditActions
  <2>3. /\ w1.audit = Append(w.audit, <<action, n>>)
        /\ w1.tasks \in Seq(Task) /\ DOMAIN w1.tasks = DOMAIN w.tasks \cup {n}
    BY <1>1, <2>1, <2>2
  <2>4. LogOK(w1)
    BY <1>1, <2>1, <2>2, <2>3, OneMoreEntry
  <2>. QED  BY <2>4 DEF w1
<1>. QED  BY <1>1, <1>2

-----------------------------------------------------------------------------
(* Sequences of a content.                                                   *)

(* The members that are left, in their order.                                *)
LEMMA WithoutMembers ==
  ASSUME NEW S, NEW s \in Seq(S), NEW gone
  PROVE  /\ Without(s, gone) \in Seq(S)
         /\ Elements(Without(s, gone)) = Elements(s) \ gone
PROOF
<1>. DEFINE next(done, e) == IF e \in gone THEN done ELSE Append(done, e)
            step == [t \in Seq(S) \X (1..Len(s)) |-> next(t[1], s[t[2]])]
            Defines(f) == f = [n \in 0..Len(s) |->
                                 IF n = 0 THEN <<>>
                                 ELSE IF s[n] \in gone THEN f[n - 1]
                                 ELSE Append(f[n - 1], s[n])]
<1>1. PICK m \in Nat : m = Len(s) /\ DOMAIN s = 1..m /\ \A i \in 1..m : s[i] \in S
  BY LenProperties
<1>2. <<>> \in Seq(S)
  OBVIOUS
<1>3. step \in [Seq(S) \X (1..m) -> Seq(S)]
  BY <1>1
<1>4. PICK f : Computes(f, Seq(S), <<>>, step, m)
  <2>. DEFINE X == Seq(S)
  <2>1. <<>> \in X /\ step \in [X \X (1..m) -> X]
    BY <1>2, <1>3
  <2>. HIDE DEF X, step
  <2>. QED  BY <2>1, BoundedIteration DEF X
<1>5. ASSUME NEW n \in 1..m  PROVE  f[n] = next(f[n - 1], s[n])
  <2>1. n - 1 \in 0..m
    OBVIOUS
  <2>2. <<f[n - 1], n>> \in Seq(S) \X (1..m)
    BY <1>4, <2>1 DEF Computes
  <2>. QED  BY <1>1, <1>4, <2>2 DEF Computes
<1>. HIDE DEF step
<1>6. Defines(f)
  <2>1. ASSUME NEW n \in 0..m, n # 0  PROVE  n \in 1..m
    BY <2>1
  <2>. QED  BY <1>1, <1>4, <1>5, <2>1 DEF Computes
<1>. DEFINE kept == CHOOSE g : Defines(g)
<1>7. Defines(kept)
  <2>. HIDE DEF Defines
  <2>. QED  BY <1>6
<1>8. Without(s, gone) = kept[m]
  BY <1>1 DEF Without
<1>. HIDE DEF kept
<1>9. kept[0] = <<>> /\ \A n \in 1..m : kept[n] = next(kept[n - 1], s[n])
  <2>1. \A n \in 0..m : kept[n] = IF n = 0 THEN <<>>
                                ELSE IF s[n] \in gone THEN kept[n - 1]
                                ELSE Append(kept[n - 1], s[n])
    BY <1>1, <1>7
  <2>2. 0 \in 0..m /\ \A n \in 1..m : n \in 0..m /\ n # 0
    OBVIOUS
  <2>. QED  BY <2>1, <2>2
<1>. HIDE DEF Defines, next
<1>. DEFINE first(n) == {s[i] : i \in 1..n} \ gone
            T == {n \in Nat : n <= m => kept[n] \in Seq(S) /\ Elements(kept[n]) = first(n)}
<1>10. 0 \in T
  <2>1. kept[0] \in Seq(S) /\ Elements(kept[0]) = {} /\ first(0) = {}
    BY <1>2, <1>9 DEF Elements
  <2>. QED  BY <2>1
<1>11. ASSUME NEW n \in Nat, n \in T  PROVE  n + 1 \in T
  <2>. SUFFICES ASSUME n + 1 <= m
                PROVE  kept[n + 1] \in Seq(S) /\ Elements(kept[n + 1]) = first(n + 1)
    OBVIOUS
  <2>1. /\ n <= m /\ n + 1 \in 1..m /\ (n + 1) - 1 = n
        /\ 1..(n + 1) = (1..n) \cup {n + 1}
    OBVIOUS
  <2>2. kept[n] \in Seq(S) /\ Elements(kept[n]) = first(n)
    BY <1>11, <2>1
  <2>3. kept[n + 1] = IF s[n + 1] \in gone THEN kept[n] ELSE Append(kept[n], s[n + 1])
    BY <1>9, <2>1 DEF next
  <2>4. first(n + 1) = IF s[n + 1] \in gone THEN first(n) ELSE first(n) \cup {s[n + 1]}
    BY <2>1
  <2>5. s[n + 1] \in S
    BY <1>1, <2>1
  <2>. HIDE DEF first
  <2>6. CASE s[n + 1] \in gone
    BY <2>2, <2>3, <2>4, <2>6
  <2>7. CASE s[n + 1] \notin gone
    <3>1. /\ Append(kept[n], s[n + 1]) \in Seq(S)
          /\ Elements(Append(kept[n], s[n + 1])) = Elements(kept[n]) \cup {s[n + 1]}
      <4>1. PICK done \in Seq(S), e \in S : done = kept[n] /\ e = s[n + 1]
        BY <2>2, <2>5
      <4>2. /\ Append(done, e) \in Seq(S)
            /\ Members(Append(done, e)) = Members(done) \cup {e}
        BY MembersOfAppend
      <4>. QED  BY <4>1, <4>2 DEF Elements, Members
    <3>. QED  BY <2>2, <2>3, <2>4, <2>7, <3>1
  <2>. QED  BY <2>6, <2>7
<1>. HIDE DEF T
<1>12. m \in T
  BY <1>10, <1>11, Inductive
<1>13. first(m) = Elements(s) \ gone
  BY <1>1 DEF Elements
<1>. QED  BY <1>8, <1>12, <1>13 DEF T

LEMMA ElementsOfAppend ==
  ASSUME NEW S, NEW s \in Seq(S), NEW e \in S
  PROVE  Append(s, e) \in Seq(S) /\ Elements(Append(s, e)) = Elements(s) \cup {e}
PROOF
<1>1. /\ Append(s, e) \in Seq(S)
      /\ Members(Append(s, e)) = Members(s) \cup {e}
  BY MembersOfAppend
<1>. QED  BY <1>1 DEF Elements, Members

-----------------------------------------------------------------------------
(* Paths.                                                                    *)

Walks == [nodes : Seq(Nodes), rels : Seq(Rels)]

LEMMA ExtendedWalks ==
  ASSUME NEW v \in Views, NEW paths \in SUBSET Walks
  PROVE  LongerPaths(v, paths) \in SUBSET Walks
PROOF
<1>1. Shown[v] \subseteq Rels
  BY GraphAssumption
<1>2. ASSUME NEW path \in Walks, NEW r \in Rels, NEW node \in Nodes
      PROVE  Extension(path, r, node) \in Walks
  BY DEF Extension, Walks
<1>. QED  BY <1>1, <1>2 DEF LongerPaths

(* The sets of simple paths obey the equation that defines them.             *)
LEMMA PathsByLength ==
  ASSUME NEW v \in Views, NEW s \in Nodes
  PROVE  /\ SimplePaths(v, s)[0] = {Trivial(s)}
         /\ \A n \in Nat : SimplePaths(v, s)[n + 1] = LongerPaths(v, SimplePaths(v, s)[n])
         /\ \A n \in Nat : SimplePaths(v, s)[n] \in SUBSET Walks
PROOF
<1>. DEFINE step == [t \in (SUBSET Walks) \X Nat |-> LongerPaths(v, t[1])]
            Defines(f) == f = [n \in Nat |->
                                 IF n = 0 THEN {Trivial(s)} ELSE LongerPaths(v, f[n - 1])]
<1>1. {Trivial(s)} \in SUBSET Walks
  BY DEF Trivial, Walks
<1>2. step \in [(SUBSET Walks) \X Nat -> SUBSET Walks]
  BY ExtendedWalks
<1>3. PICK f \in [Nat -> SUBSET Walks] :
        f[0] = {Trivial(s)} /\ \A n \in Nat : f[n + 1] = step[<<f[n], n + 1>>]
  <2>. DEFINE X == SUBSET Walks
              a == {Trivial(s)}
  <2>1. a \in X /\ step \in [X \X Nat -> X]
    BY <1>1, <1>2
  <2>. HIDE DEF step, X, a
  <2>2. PICK f : Iterates(f, X, a, step)
    BY <2>1, Iteration
  <2>. QED  BY <2>2 DEF X, a, Iterates
<1>4. ASSUME NEW n \in Nat  PROVE  f[n + 1] = LongerPaths(v, f[n])
  <2>1. <<f[n], n + 1>> \in (SUBSET Walks) \X Nat
    OBVIOUS
  <2>. QED  BY <1>3, <2>1
<1>. HIDE DEF step
<1>5. Defines(f)
  <2>1. ASSUME NEW n \in Nat
        PROVE  f[n] = IF n = 0 THEN {Trivial(s)} ELSE LongerPaths(v, f[n - 1])
    <3>1. CASE n = 0
      BY <1>3, <3>1
    <3>2. CASE n # 0
      <4>1. n - 1 \in Nat /\ (n - 1) + 1 = n
        BY <3>2
      <4>. QED  BY <1>4, <3>2, <4>1
    <3>. QED  BY <3>1, <3>2
  <2>. QED  BY <1>3, <2>1
<1>6. SimplePaths(v, s) = CHOOSE g : Defines(g)
  BY DEF SimplePaths
<1>7. Defines(SimplePaths(v, s))
  <2>. HIDE DEF Defines
  <2>. QED  BY <1>5, <1>6
<1>. DEFINE paths == SimplePaths(v, s)
<1>. HIDE DEF paths
<1>8. \A n \in Nat : paths[n] = IF n = 0 THEN {Trivial(s)} ELSE LongerPaths(v, paths[n - 1])
  BY <1>7 DEF paths
<1>9. ASSUME NEW n \in Nat  PROVE  paths[n + 1] = LongerPaths(v, paths[n])
  <2>1. n + 1 \in Nat /\ n + 1 # 0 /\ (n + 1) - 1 = n
    OBVIOUS
  <2>. QED  BY <1>8, <2>1
<1>10. paths[0] = {Trivial(s)}
  BY <1>8
<1>. DEFINE S == {n \in Nat : paths[n] \in SUBSET Walks}
<1>11. 0 \in S
  BY <1>1, <1>10
<1>12. ASSUME NEW n \in Nat, n \in S  PROVE  n + 1 \in S
  BY <1>9, <1>12, ExtendedWalks
<1>. HIDE DEF S
<1>13. Nat \subseteq S
  BY <1>11, <1>12, Inductive
<1>. QED  BY <1>9, <1>10, <1>13 DEF paths, S

(* A path is made of joined nodes.                                           *)
PathOK(p) ==
  /\ p.nodes \in Seq(Nodes) /\ Elements(p.rels) \subseteq Rels
  /\ \A i \in 1..(Len(p.nodes) - 1) :
       \E r \in Elements(p.rels) : Joins(r, p.nodes[i], p.nodes[i + 1])

LEMMA ExtensionOK ==
  ASSUME NEW p \in Walks, p.nodes # <<>>, PathOK(p),
         NEW r \in Rels, NEW node \in Nodes, Joins(r, LastNode(p), node)
  PROVE  LET q == Extension(p, r, node)
         IN q \in Walks /\ q.nodes # <<>> /\ PathOK(q)
PROOF
<1>. DEFINE q == Extension(p, r, node)
<1>1. /\ q.nodes = Append(p.nodes, node) /\ q.rels = Append(p.rels, r)
      /\ p.nodes \in Seq(Nodes) /\ p.rels \in Seq(Rels)
  BY DEF Extension, Walks
<1>2. PICK n \in Nat \ {0} : n = Len(p.nodes)
  BY <1>1
<1>3. /\ q.nodes \in Seq(Nodes) /\ Len(q.nodes) = n + 1
      /\ \A i \in 1..n : q.nodes[i] = p.nodes[i]
      /\ q.nodes[n + 1] = node
  BY <1>1, <1>2, AppendProperties
<1>4. q.rels \in Seq(Rels) /\ Elements(q.rels) = Elements(p.rels) \cup {r}
  BY <1>1, ElementsOfAppend
<1>5. Elements(q.rels) \subseteq Rels
  BY <1>4 DEF PathOK
<1>6. q \in Walks
  BY <1>1, <1>3, <1>4 DEF Extension, Walks
<1>. HIDE DEF q
<1>7. ASSUME NEW i \in 1..(Len(q.nodes) - 1)
      PROVE  \E e \in Elements(q.rels) : Joins(e, q.nodes[i], q.nodes[i + 1])
  <2>1. CASE i = n
    <3>1. q.nodes[i] = LastNode(p) /\ q.nodes[i + 1] = node
      BY <1>2, <1>3, <2>1 DEF LastNode
    <3>. QED  BY <1>4, <3>1
  <2>2. CASE i # n
    <3>1. i \in 1..(n - 1) /\ i \in 1..n /\ i + 1 \in 1..n
      BY <1>2, <1>3, <2>2
    <3>2. \E e \in Elements(p.rels) : Joins(e, p.nodes[i], p.nodes[i + 1])
      BY <1>2, <3>1 DEF PathOK
    <3>. QED  BY <1>3, <1>4, <3>1, <3>2
  <2>. QED  BY <2>1, <2>2
<1>8. PathOK(q) /\ q.nodes # <<>>
  BY <1>3, <1>5, <1>7 DEF PathOK
<1>. QED  BY <1>6, <1>8 DEF q

LEMMA PathsAreJoined ==
  ASSUME NEW v \in Views, NEW s \in Nodes, NEW n \in Nat,
         NEW p \in SimplePaths(v, s)[n]
  PROVE  PathOK(p)
PROOF
<1>. DEFINE paths == SimplePaths(v, s)
            Fine(q) == q \in Walks /\ q.nodes # <<>> /\ PathOK(q)
            T == {k \in Nat : \A q \in paths[k] : Fine(q)}
<1>1. 0 \in T
  <2>1. paths[0] = {Trivial(s)}
    BY PathsByLength
  <2>2. Trivial(s).nodes = <<s>> /\ Trivial(s).rels = <<>> /\ Trivial(s) \in Walks
    BY DEF Trivial, Walks
  <2>3. PathOK(Trivial(s))
    BY <2>2 DEF PathOK, Elements
  <2>4. Fine(Trivial(s))
    BY <2>2, <2>3
  <2>. HIDE DEF Fine
  <2>. QED  BY <2>1, <2>4
<1>2. ASSUME NEW k \in Nat, k \in T  PROVE  k + 1 \in T
  <2>. SUFFICES ASSUME NEW q \in paths[k + 1]  PROVE  Fine(q)
    OBVIOUS
  <2>1. paths[k + 1] = LongerPaths(v, paths[k]) /\ Shown[v] \subseteq Rels
    BY PathsByLength, GraphAssumption
  <2>2. PICK o \in paths[k], r \in Rels, node \in Nodes :
          Joins(r, LastNode(o), node) /\ q = Extension(o, r, node)
    BY <2>1 DEF LongerPaths
  <2>3. Fine(o)
    BY <1>2
  <2>. QED  BY <2>2, <2>3, ExtensionOK
<1>. HIDE DEF T
<1>3. n \in T
  BY <1>1, <1>2, Inductive
<1>. QED  BY <1>3 DEF T

LEMMA FoundPathsOK ==
  ASSUME NEW v \in Views, NEW s \in Nodes, NEW e, NEW bound \in Nat,
         NEW p \in ShortestPaths(v, s, e, bound)
  PROVE  PathOK(p)
PROOF
<1>1. p = NoPath \/ \E n \in Nat : p \in SimplePaths(v, s)[n]
  BY DEF ShortestPaths
<1>2. PathOK(NoPath)
  BY DEF PathOK, NoPath, Elements
<1>. QED  BY <1>1, <1>2, PathsAreJoined

-----------------------------------------------------------------------------
(* Manual links stay anchored, redactions go with entities, paths stay whole.*)

ChartOK(w) ==
  w \in Contents /\ Anchored(w) /\ RedactsItsEntities(w) /\ Connected(w)

LEMMA Lifted ==
  ASSUME NEW w \in Contents
  PROVE  PathDependencies(RestoreRedactions(w)) = w.pathRels
PROOF
<1>1. /\ RestoreRedactions(w).pathRels = w.pathRels
      /\ RestoreRedactions(w).redacted = {}
  BY DEF Contents, RestoreRedactions
<1>. QED  BY <1>1 DEF PathDependencies

(* An operation that leaves the manual items and the path alone, though it   *)
(* may list more relationships with the path.                                *)
LEMMA SameChart ==
  ASSUME NEW w, ChartOK(w), NEW w1 \in Contents,
         w1.entities = w.entities, w1.edges = w.edges, w1.redacted = w.redacted,
         w1.pathNodes = w.pathNodes, w.pathRels \subseteq w1.pathRels
  PROVE  ChartOK(w1)
PROOF
<1>1. Anchored(w1) /\ RedactsItsEntities(w1)
  BY DEF ChartOK, Anchored, RedactsItsEntities
<1>2. Connected(w1)
  BY Lifted DEF ChartOK, Connected
<1>. QED  BY <1>1, <1>2 DEF ChartOK

Asides == {"query", "pinned", "annotations", "comments", "notes", "searches",
           "layouts", "tasks", "review", "audit"}

LEMMA Elsewhere ==
  ASSUME NEW w, ChartOK(w), NEW f \in Asides, NEW x, [w EXCEPT ![f] = x] \in Contents
  PROVE  ChartOK([w EXCEPT ![f] = x])
PROOF
<1>. DEFINE w1 == [w EXCEPT ![f] = x]
<1>1. {"entities", "edges", "redacted", "pathNodes", "pathRels"} \subseteq DOMAIN w \ Asides
  BY DEF ChartOK, Contents, Asides
<1>2. \A g \in DOMAIN w : g # f => w1[g] = w[g]
  OBVIOUS
<1>3. /\ w1.entities = w.entities /\ w1.edges = w.edges /\ w1.redacted = w.redacted
      /\ w1.pathNodes = w.pathNodes /\ w1.pathRels = w.pathRels
  BY <1>1, <1>2
<1>. HIDE DEF w1
<1>4. ChartOK(w1)
  BY <1>3, SameChart DEF w1
<1>. QED  BY <1>4 DEF w1

LEMMA WithNewTyped ==
  ASSUME NEW s \in Seq(Nodes), NEW x \in Nodes
  PROVE  WithNew(s, x) \in Seq(Nodes)
PROOF BY DEF WithNew

LEMMA NeighborsAreNodes ==
  ASSUME NEW v \in Views, NEW node
  PROVE  Incident(v, node) \subseteq Rels /\ Neighbors(v, node) \subseteq Nodes
PROOF
<1>1. Incident(v, node) \subseteq Rels
  BY GraphAssumption DEF Incident
<1>2. \A r \in Rels : {Ends[r][1], Ends[r][2]} \subseteq Nodes
  BY GraphAssumption
<1>. QED  BY <1>1, <1>2 DEF Neighbors

(* Search results, expansions and what phrases pin.                          *)
LEMMA ChartSearches ==
  ASSUME NEW w, ChartOK(w), NEW v \in Views
  PROVE  /\ \A query \in Queries : ChartOK([w EXCEPT !.query = query])
         /\ \A result \in Nodes \cup Rels : ChartOK(PinSearchResult(w, v, result))
         /\ \A node \in Nodes : ChartOK(ExpandNeighbors(w, v, node))
PROOF
<1>0. w \in Contents
  BY DEF ChartOK
<1>1. \A query \in Queries : ChartOK([w EXCEPT !.query = query])
  BY <1>0, Retyping, Elsewhere DEF Asides
<1>2. \A x \in Seq(Nodes) : ChartOK([w EXCEPT !.pinned = x])
  BY <1>0, Retyping, Elsewhere DEF Asides
<1>3. \A result \in Nodes \cup Rels : ChartOK(PinSearchResult(w, v, result))
  <2>. TAKE result \in Nodes \cup Rels
  <2>1. w.pinned \in Seq(Nodes)
    BY <1>0 DEF Contents
  <2>2. CASE result \in Nodes
    BY <1>2, <2>1, <2>2, WithNewTyped DEF PinSearchResult
  <2>3. CASE result \notin Nodes /\ result \in Shown[v]
    <3>1. Ends[result][1] \in Nodes /\ Ends[result][2] \in Nodes
      BY <2>3, GraphAssumption
    <3>2. WithNew(WithNew(w.pinned, Ends[result][1]), Ends[result][2]) \in Seq(Nodes)
      BY <2>1, <3>1, WithNewTyped
    <3>. QED  BY <1>2, <2>3, <3>2 DEF PinSearchResult
  <2>4. CASE result \notin Nodes /\ result \notin Shown[v]
    BY <2>4 DEF PinSearchResult
  <2>. QED  BY <2>2, <2>3, <2>4
<1>4. \A node \in Nodes : ChartOK(ExpandNeighbors(w, v, node))
  <2>. TAKE node \in Nodes
  <2>1. PICK x \in SUBSET Nodes, y \in SUBSET Rels :
          /\ w.pathRels \subseteq y
          /\ ExpandNeighbors(w, v, node) = [w EXCEPT !.expanded = x, !.pathRels = y]
    <3>1. w.expanded \subseteq Nodes /\ w.pathRels \subseteq Rels
      BY <1>0 DEF Contents
    <3>2. /\ w.expanded \cup {node} \cup Neighbors(v, node) \in SUBSET Nodes
          /\ w.pathRels \cup Incident(v, node) \in SUBSET Rels
      BY <3>1, NeighborsAreNodes
    <3>3. ExpandNeighbors(w, v, node)
            = [w EXCEPT !.expanded = w.expanded \cup {node} \cup Neighbors(v, node),
                        !.pathRels = w.pathRels \cup Incident(v, node)]
      BY DEF ExpandNeighbors
    <3>. QED  BY <3>2, <3>3
  <2>. DEFINE w1 == [w EXCEPT !.expanded = x, !.pathRels = y]
  <2>2. w1 \in Contents
    BY <1>0, Retyping
  <2>3. /\ w1.entities = w.entities /\ w1.edges = w.edges /\ w1.redacted = w.redacted
        /\ w1.pathNodes = w.pathNodes /\ w1.pathRels = y
    BY <1>0 DEF Contents
  <2>. HIDE DEF w1
  <2>4. ChartOK(w1)
    BY <2>1, <2>2, <2>3, SameChart
  <2>. QED  BY <2>1, <2>4 DEF w1
<1>. QED  BY <1>1, <1>3, <1>4

LEMMA PathSet ==
  ASSUME NEW w, ChartOK(w), NEW p, PathOK(p)
  PROVE  ChartOK(SetPath(w, p))
PROOF
<1>. DEFINE w1 == SetPath(w, p)
<1>1. w \in Contents /\ p.nodes \in Seq(Nodes) /\ Elements(p.rels) \in SUBSET Rels
  BY DEF ChartOK, PathOK
<1>2. w1 \in Contents
  BY <1>1, Retyping DEF SetPath
<1>3. /\ w1.entities = w.entities /\ w1.edges = w.edges /\ w1.redacted = w.redacted
      /\ w1.pathNodes = p.nodes /\ w1.pathRels = Elements(p.rels)
  BY <1>1 DEF SetPath, Contents
<1>. HIDE DEF w1
<1>4. Anchored(w1) /\ RedactsItsEntities(w1)
  BY <1>3 DEF ChartOK, Anchored, RedactsItsEntities
<1>5. Connected(w1)
  BY <1>2, <1>3, Lifted DEF PathOK, Connected
<1>6. ChartOK(w1)
  BY <1>2, <1>4, <1>5 DEF ChartOK
<1>. QED  BY <1>6 DEF w1

(* What is pinned in some order.                                             *)
LEMMA PinnedInOrder ==
  ASSUME NEW w, ChartOK(w), NEW nodes \in SUBSET Nodes, NEW w1 \in PinInOrder(w, nodes)
  PROVE  ChartOK(w1)
PROOF
<1>1. w \in Contents /\ w.pinned \in Seq(Nodes)
  BY DEF ChartOK, Contents
<1>2. PICK order \in SetToSeqs(nodes) :
        w1 = [w EXCEPT !.pinned = @ \o Without(order, Elements(@))]
  BY DEF PinInOrder
<1>3. IsFiniteSet(nodes) /\ Cardinality(nodes) \in Nat
  BY GraphAssumption, FS_Subset, FS_CardinalityType
<1>4. order \in Seq(Nodes)
  BY <1>2, <1>3 DEF SetToSeqs
<1>5. w.pinned \o Without(order, Elements(w.pinned)) \in Seq(Nodes)
  <2>1. Without(order, Elements(w.pinned)) \in Seq(Nodes)
    BY <1>4, WithoutMembers
  <2>. QED  BY <1>1, <2>1
<1>6. PICK x \in Seq(Nodes) : w1 = [w EXCEPT !.pinned = x]
  BY <1>2, <1>5
<1>. QED  BY <1>1, <1>6, Retyping, Elsewhere DEF Asides

LEMMA PhrasesPin ==
  ASSUME NEW w, ChartOK(w), NEW v \in Views
  PROVE  /\ \A target \in Nodes, type \in NodeTypes :
              \A w1 \in ShowConnected(w, v, target, type) : ChartOK(w1)
         /\ \A community : \A w1 \in ShowCommunity(w, v, community) : ChartOK(w1)
PROOF
<1>1. ASSUME NEW target \in Nodes, NEW type \in NodeTypes,
             NEW w1 \in ShowConnected(w, v, target, type)
      PROVE  ChartOK(w1)
  <2>. DEFINE expanded == ExpandNeighbors(w, v, target)
  <2>1. ChartOK(expanded)
    BY ChartSearches
  <2>2. expanded \in Contents /\ expanded.pinned \in Seq(Nodes)
    BY <2>1 DEF ChartOK, Contents
  <2>3. WithNew(expanded.pinned, target) \in Seq(Nodes)
    BY <2>2, WithNewTyped
  <2>4. w1 \in PinInOrder([expanded EXCEPT !.pinned = WithNew(expanded.pinned, target)],
                          ConnectedNodes(v, target, type))
    BY DEF ShowConnected
  <2>. HIDE DEF expanded
  <2>5. ChartOK([expanded EXCEPT !.pinned = WithNew(expanded.pinned, target)])
    BY <2>1, <2>2, <2>3, Retyping, Elsewhere DEF Asides
  <2>6. ConnectedNodes(v, target, type) \in SUBSET Nodes
    BY WorkspaceAssumption DEF ConnectedNodes
  <2>. QED  BY <2>4, <2>5, <2>6, PinnedInOrder
<1>2. ASSUME NEW community, NEW w1 \in ShowCommunity(w, v, community)
      PROVE  ChartOK(w1)
  <2>. DEFINE matching == community \cap Shown[v]
              nodes == UNION {{Ends[r][1], Ends[r][2]} : r \in matching}
              listed == [w EXCEPT !.pathRels = @ \cup matching]
  <2>1. w \in Contents /\ w.pathRels \subseteq Rels /\ w.expanded \in SUBSET Nodes
    BY DEF ChartOK, Contents
  <2>2. matching \subseteq Rels
    BY GraphAssumption
  <2>3. nodes \in SUBSET Nodes
    BY <2>2, GraphAssumption
  <2>4. listed \in Contents
    <3>1. w.pathRels \cup matching \in SUBSET Rels
      BY <2>1, <2>2
    <3>. HIDE DEF matching
    <3>2. listed = [w EXCEPT !.expanded = w.expanded, !.pathRels = w.pathRels \cup matching]
      BY <2>1 DEF Contents
    <3>. QED  BY <2>1, <3>1, <3>2, Retyping
  <2>5. /\ listed.entities = w.entities /\ listed.edges = w.edges
        /\ listed.redacted = w.redacted
        /\ listed.pathNodes = w.pathNodes /\ w.pathRels \subseteq listed.pathRels
    BY <2>1 DEF Contents
  <2>6. w1 \in PinInOrder(listed, nodes)
    BY DEF ShowCommunity
  <2>. HIDE DEF listed, nodes
  <2>7. ChartOK(listed)
    BY <2>4, <2>5, SameChart
  <2>. QED  BY <2>3, <2>6, <2>7, PinnedInOrder
<1>. QED  BY <1>1, <1>2

(* New manual items and redactions of a content.                             *)
ItemsOK(x, y, z) ==
  /\ x \in Seq(EntityIds) /\ y \in Seq(Edges) /\ z \in SUBSET (Points \cup Rels)
  /\ \A e \in Elements(y) : {e.from, e.to} \subseteq Nodes \cup Elements(x)
  /\ z \cap EntityIds \subseteq Elements(x)

LEMMA ManualItems ==
  ASSUME NEW w, ChartOK(w), NEW x, NEW y, NEW z, ItemsOK(x, y, z)
  PROVE  ChartOK(WithItems(w, x, y, z))
PROOF
<1>. DEFINE w1 == WithItems(w, x, y, z)
<1>1. w \in Contents
  BY DEF ChartOK
<1>2. w1 \in Contents
  BY <1>1, Retyping DEF ItemsOK
<1>3. /\ w1.entities = x /\ w1.edges = y /\ w1.redacted = z
      /\ w1.pathNodes = w.pathNodes /\ w1.pathRels = w.pathRels
  BY <1>1 DEF Contents, WithItems
<1>. HIDE DEF w1
<1>4. Anchored(w1) /\ RedactsItsEntities(w1)
  BY <1>3 DEF ItemsOK, Anchored, RedactsItsEntities
<1>5. Connected(w1)
  BY <1>1, <1>2, <1>3, Lifted DEF ChartOK, Connected
<1>6. ChartOK(w1)
  BY <1>2, <1>4, <1>5 DEF ChartOK
<1>. QED  BY <1>6 DEF w1

LEMMA ItemOperations ==
  ASSUME NEW w, ChartOK(w)
  PROVE  /\ \A label : ChartOK(AddManualEntity(w, label))
         /\ \A id : ChartOK(RemoveManualEntity(w, id)) /\ ChartOK(RemoveManualEdge(w, id))
         /\ \A from, to \in Nodes \cup Elements(w.entities) : ChartOK(AddManualEdge(w, from, to))
         /\ \A id \in Nodes \cup Rels \cup Elements(w.entities) : ChartOK(RedactChartItem(w, id))
         /\ ChartOK(RestoreRedactions(w))
PROOF
<1>1. /\ w \in Contents
      /\ w.entities \in Seq(EntityIds) /\ w.edges \in Seq(Edges)
      /\ w.redacted \in SUBSET (Points \cup Rels)
      /\ Elements(w.entities) \subseteq EntityIds
  BY DEF ChartOK, Contents, Edges, Elements
<1>2. /\ \A e \in Elements(w.edges) : {e.from, e.to} \subseteq Nodes \cup Elements(w.entities)
      /\ w.redacted \cap EntityIds \subseteq Elements(w.entities)
  BY DEF ChartOK, Anchored, RedactsItsEntities
<1>3. ASSUME NEW label  PROVE  ChartOK(AddManualEntity(w, label))
  <2>1. CASE label = ""
    BY <2>1 DEF AddManualEntity
  <2>2. CASE label # ""
    <3>1. PICK id \in EntityIds : id = <<"manual-entity", Len(w.entities) + 1>>
      <4>1. Len(w.entities) + 1 \in Nat \ {0}
        BY <1>1
      <4>. QED  BY <4>1 DEF EntityIds
    <3>. DEFINE x == Append(w.entities, id)
    <3>2. x \in Seq(EntityIds) /\ Elements(x) = Elements(w.entities) \cup {id}
      BY <1>1, ElementsOfAppend
    <3>3. AddManualEntity(w, label) = WithItems(w, x, w.edges, w.redacted)
      BY <1>1, <2>2, <3>1 DEF AddManualEntity, Contents, WithItems
    <3>. HIDE DEF x
    <3>4. /\ \A e \in Elements(w.edges) : {e.from, e.to} \subseteq Nodes \cup Elements(x)
          /\ w.redacted \cap EntityIds \subseteq Elements(x)
      BY <1>2, <3>2
    <3>. QED  BY <1>1, <3>2, <3>3, <3>4, ManualItems DEF ItemsOK
  <2>. QED  BY <2>1, <2>2
<1>4. ASSUME NEW id  PROVE  ChartOK(RemoveManualEntity(w, id))
  <2>. DEFINE x == Without(w.entities, {id})
              y == Without(w.edges, {e \in Elements(w.edges) : id \in {e.from, e.to}})
              z == w.redacted \ {id}
  <2>1. x \in Seq(EntityIds) /\ Elements(x) = Elements(w.entities) \ {id}
    BY <1>1, WithoutMembers
  <2>2. /\ y \in Seq(Edges)
        /\ Elements(y) = Elements(w.edges) \ {e \in Elements(w.edges) : id \in {e.from, e.to}}
    BY <1>1, WithoutMembers
  <2>3. RemoveManualEntity(w, id) = WithItems(w, x, y, z)
    BY DEF RemoveManualEntity, WithItems
  <2>4. z \in SUBSET (Points \cup Rels) /\ z = w.redacted \ {id}
    BY <1>1
  <2>. HIDE DEF x, y, z
  <2>5. /\ \A e \in Elements(y) : {e.from, e.to} \subseteq Nodes \cup Elements(x)
        /\ z \cap EntityIds \subseteq Elements(x)
    BY <1>2, <2>1, <2>2, <2>4
  <2>. QED  BY <2>1, <2>2, <2>3, <2>4, <2>5, ManualItems DEF ItemsOK
<1>5. ASSUME NEW id  PROVE  ChartOK(RemoveManualEdge(w, id))
  <2>. DEFINE y == Without(w.edges, {e \in Elements(w.edges) : e.id = id})
              z == w.redacted \ {id}
  <2>1. y \in Seq(Edges) /\ Elements(y) \subseteq Elements(w.edges)
    BY <1>1, WithoutMembers
  <2>2. RemoveManualEdge(w, id) = WithItems(w, w.entities, y, z)
    BY <1>1 DEF RemoveManualEdge, Contents, WithItems
  <2>3. z \in SUBSET (Points \cup Rels) /\ z \subseteq w.redacted
    BY <1>1
  <2>. HIDE DEF y, z
  <2>4. /\ \A e \in Elements(y) : {e.from, e.to} \subseteq Nodes \cup Elements(w.entities)
        /\ z \cap EntityIds \subseteq Elements(w.entities)
    BY <1>2, <2>1, <2>3
  <2>. QED  BY <1>1, <2>1, <2>2, <2>3, <2>4, ManualItems DEF ItemsOK
<1>6. ASSUME NEW from \in Nodes \cup Elements(w.entities),
             NEW to \in Nodes \cup Elements(w.entities)
      PROVE  ChartOK(AddManualEdge(w, from, to))
  <2>1. CASE from = to
    BY <2>1 DEF AddManualEdge
  <2>2. CASE from # to
    <3>1. PICK e \in Edges :
            e = [id |-> <<"manual-edge", Len(w.edges) + 1>>, from |-> from, to |-> to]
      <4>1. <<"manual-edge", Len(w.edges) + 1>> \in EdgeIds
        BY <1>1 DEF EdgeIds
      <4>2. from \in Points /\ to \in Points
        BY <1>1 DEF Points
      <4>. QED  BY <4>1, <4>2 DEF Edges
    <3>. DEFINE y == Append(w.edges, e)
    <3>2. y \in Seq(Edges) /\ Elements(y) = Elements(w.edges) \cup {e}
      BY <1>1, ElementsOfAppend
    <3>3. AddManualEdge(w, from, to) = WithItems(w, w.entities, y, w.redacted)
      BY <1>1, <2>2, <3>1 DEF AddManualEdge, Contents, WithItems
    <3>4. {e.from, e.to} \subseteq Nodes \cup Elements(w.entities)
      BY <3>1
    <3>. HIDE DEF y
    <3>5. \A d \in Elements(y) : {d.from, d.to} \subseteq Nodes \cup Elements(w.entities)
      BY <1>2, <3>2, <3>4
    <3>. QED  BY <1>1, <1>2, <3>2, <3>3, <3>5, ManualItems DEF ItemsOK
  <2>. QED  BY <2>1, <2>2
<1>7. ASSUME NEW id \in Nodes \cup Rels \cup Elements(w.entities)
      PROVE  ChartOK(RedactChartItem(w, id))
  <2>. DEFINE z == w.redacted \cup {id}
  <2>1. RedactChartItem(w, id) = WithItems(w, w.entities, w.edges, z)
    BY <1>1 DEF RedactChartItem, Contents, WithItems
  <2>2. z \in SUBSET (Points \cup Rels)
    BY <1>1 DEF Points
  <2>3. z \cap EntityIds \subseteq Elements(w.entities)
    BY <1>2, IdAssumption
  <2>. HIDE DEF z
  <2>. QED  BY <1>1, <1>2, <2>1, <2>2, <2>3, ManualItems DEF ItemsOK
<1>8. ChartOK(RestoreRedactions(w))
  <2>1. RestoreRedactions(w) = WithItems(w, w.entities, w.edges, {})
    BY <1>1 DEF RestoreRedactions, Contents, WithItems
  <2>. QED  BY <1>1, <1>2, <2>1, ManualItems DEF ItemsOK
<1>. QED  BY <1>3, <1>4, <1>5, <1>6, <1>7, <1>8

(* What is counted, and what is recorded with an audit entry.                *)
LEMMA RecordedChart ==
  ASSUME NEW w, ChartOK(w), NEW action \in AuditActions, NEW n \in Nat
  PROVE  ChartOK(RecordAudit(w, action, n))
PROOF
<1>. DEFINE log == Append(w.audit, <<action, n>>)
<1>1. w \in Contents /\ w.audit \in Seq(Entries)
  BY DEF ChartOK, Contents, Entries
<1>2. log \in Seq(Entries)
  BY <1>1 DEF Entries
<1>3. RecordAudit(w, action, n) = [w EXCEPT !.audit = log]
  BY DEF RecordAudit
<1>. HIDE DEF log
<1>4. [w EXCEPT !.audit = log] \in Contents
  BY <1>1, <1>2, Retyping
<1>. QED  BY <1>3, <1>4, Elsewhere DEF Asides

LEMMA CountingOperations ==
  ASSUME NEW w, ChartOK(w)
  PROVE  /\ \A text : ChartOK(AddAnnotation(w, text))
         /\ ChartOK(SaveLayout(w)) /\ ChartOK(SaveSearch(w))
         /\ \A text : ChartOK(AddComment(w, text)) /\ ChartOK(AddCaseNote(w, text))
         /\ \A status : ChartOK(SetReviewStatus(w, status))
         /\ \A label \in Labels : \A status : ChartOK(SetTaskState(w, label, status))
PROOF
<1>0. /\ w \in Contents
      /\ w.annotations + 1 \in Nat /\ w.comments + 1 \in Nat /\ w.notes + 1 \in Nat
      /\ w.searches + 1 \in Nat /\ w.layouts + 1 \in Nat
      /\ w.tasks \in Seq(Task)
  <2>1. w \in Contents
    BY DEF ChartOK
  <2>2. /\ w.annotations \in Nat /\ w.comments \in Nat /\ w.notes \in Nat
        /\ w.searches \in Nat /\ w.layouts \in Nat
    BY <2>1 DEF Contents
  <2>3. w.tasks \in Seq(Task)
    BY <2>1 DEF Contents, Task
  <2>. QED  BY <2>1, <2>2, <2>3
<1>1. /\ {"saved-search", "comment-added", "case-note-added", "review-status-updated",
          "task-state-updated"} \subseteq AuditActions
      /\ 0 \in Nat
  BY DEF AuditActions
<1>2. /\ ChartOK([w EXCEPT !.annotations = w.annotations + 1])
      /\ ChartOK([w EXCEPT !.comments = w.comments + 1])
      /\ ChartOK([w EXCEPT !.notes = w.notes + 1])
      /\ ChartOK([w EXCEPT !.searches = w.searches + 1])
      /\ ChartOK([w EXCEPT !.layouts = w.layouts + 1])
  BY <1>0, Retyping, Elsewhere DEF Asides
<1>3. /\ \A text : ChartOK(AddAnnotation(w, text))
      /\ ChartOK(SaveLayout(w))
  BY <1>2 DEF AddAnnotation, SaveLayout
<1>4. /\ ChartOK(SaveSearch(w))
      /\ \A text : ChartOK(AddComment(w, text)) /\ ChartOK(AddCaseNote(w, text))
  BY <1>0, <1>1, <1>2, RecordedChart DEF SaveSearch, AddComment, AddCaseNote
<1>5. ASSUME NEW status  PROVE  ChartOK(SetReviewStatus(w, status))
  <2>1. PICK known \in ReviewStatuses :
          known = IF status \in ReviewStatuses THEN status ELSE "triage"
    BY DEF ReviewStatuses
  <2>2. ChartOK([w EXCEPT !.review = known])
    BY <1>0, Retyping, Elsewhere DEF Asides
  <2>3. SetReviewStatus(w, status)
          = RecordAudit([w EXCEPT !.review = known], "review-status-updated", 0)
    BY <2>1 DEF SetReviewStatus
  <2>. QED  BY <1>1, <2>2, <2>3, RecordedChart
<1>6. ASSUME NEW label \in Labels, NEW status  PROVE  ChartOK(SetTaskState(w, label, status))
  <2>. DEFINE tasks == NewTasks(w, label, status)
              n == TaskPosition(w, label)
  <2>1. /\ tasks \in Seq(Task) /\ n \in Nat
        /\ SetTaskState(w, label, status) =
             IF label = "" THEN w
             ELSE RecordAudit([w EXCEPT !.tasks = tasks], "task-state-updated", n)
    BY <1>0, TaskLists
  <2>. HIDE DEF tasks, n
  <2>2. ChartOK([w EXCEPT !.tasks = tasks])
    <3>1. [w EXCEPT !.tasks = tasks] \in Contents
      BY <1>0, <2>1, Retyping
    <3>. QED  BY <3>1, Elsewhere DEF Asides
  <2>. QED  BY <1>1, <2>1, <2>2, RecordedChart
<1>. QED  BY <1>3, <1>4, <1>5, <1>6

-----------------------------------------------------------------------------
(* Every step keeps the versions at hand in that order.                      *)

ContentOK(w) == LogOK(w) /\ ChartOK(w)

VersionOK(v) ==
  /\ v \in Versions
  /\ ContentOK(v.work)
  /\ v.saved # NoSnapshot => ContentOK(v.saved)

Sound ==
  /\ VersionOK(present)
  /\ disk # NoSnapshot => ContentOK(disk)
  /\ view \in Views
  /\ commits \in 0..MaxCommits

WorkspaceInv ==
  /\ HistoryInv
  /\ \A v \in AtHand : VersionOK(v)
  /\ Sound

LEMMA SoundKept ==
  ASSUME WorkspaceInv, [Next]_vars, Sound'
  PROVE  WorkspaceInv'
PROOF
<1>1. HistoryInv'
  BY HistoryStep DEF WorkspaceInv, Kept
<1>2. AtHand' \subseteq AtHand \cup {present'}
  <2>1. undo' \in Seq(AtHand) /\ redo' \in Seq(AtHand)
    BY HistoryStep DEF WorkspaceInv, Kept
  <2>2. Members(undo') \subseteq AtHand /\ Members(redo') \subseteq AtHand
    BY <2>1 DEF Members
  <2>. QED  BY <2>2 DEF AtHand, AtHandOf
<1>3. \A v \in AtHand' : VersionOK(v)
  BY <1>2 DEF WorkspaceInv, Sound
<1>. QED  BY <1>1, <1>3 DEF WorkspaceInv

LEMMA WorkOK ==
  ASSUME WorkspaceInv
  PROVE  /\ present \in Versions /\ LogOK(work) /\ ChartOK(work) /\ work \in Contents
         /\ view \in Views
PROOF BY DEF WorkspaceInv, Sound, VersionOK, ContentOK, ChartOK, work

LEMMA CountedCommit ==
  ASSUME WorkspaceInv, NEW next, CommitWorkspaceChange(next)
  PROVE  commits' \in 0..MaxCommits /\ present' = next
PROOF
<1>1. commits \in 0..MaxCommits /\ commits < MaxCommits /\ commits' = commits + 1
  BY DEF WorkspaceInv, Sound, CommitWorkspaceChange
<1>2. MaxCommits \in Nat
  BY WorkspaceAssumption
<1>3. commits' \in 0..MaxCommits
  BY <1>1, <1>2
<1>. QED  BY <1>3 DEF CommitWorkspaceChange

(* A handler that commits a content of that kind.                            *)
LEMMA HandlerOK ==
  ASSUME WorkspaceInv, NEW w, LogOK(w), ChartOK(w), Handler(w)
  PROVE  Sound'
PROOF
<1>1. /\ present' = [present EXCEPT !.work = w] /\ commits' \in 0..MaxCommits
      /\ disk' = disk /\ view' = view
  BY CountedCommit DEF Handler
<1>2. w \in Contents /\ present \in Versions
  BY WorkOK DEF ChartOK
<1>3. present' \in Versions /\ present'.work = w /\ present'.saved = present.saved
  BY <1>1, <1>2 DEF Versions
<1>4. VersionOK(present')
  BY <1>3 DEF VersionOK, ContentOK, WorkspaceInv, Sound
<1>. QED  BY <1>1, <1>4 DEF WorkspaceInv, Sound

LEMMA SearchSteps ==
  ASSUME WorkspaceInv, PinResult \/ KeepSearch \/ ExpandSelected \/ FindPath \/ RunPhrase
  PROVE  Sound'
PROOF
<1>1. PinResult => \E w : LogOK(w) /\ ChartOK(w) /\ Handler(w)
  <2>1. SearchGraph(work, view) \subseteq Nodes \cup Rels
    BY WorkOK, GraphAssumption DEF SearchGraph
  <2>2. \A result \in SearchGraph(work, view) :
          LogOK(PinSearchResult(work, view, result)) /\ ChartOK(PinSearchResult(work, view, result))
    BY <2>1, WorkOK, QuietOperations, ChartSearches
  <2>. QED  BY <2>2 DEF PinResult
<1>2. KeepSearch => \E w : LogOK(w) /\ ChartOK(w) /\ Handler(w)
  BY WorkOK, RecordingOperations, CountingOperations DEF KeepSearch
<1>3. ExpandSelected => \E w : LogOK(w) /\ ChartOK(w) /\ Handler(w)
  <2>1. \A a, b \in Nodes :
          /\ LogOK(ExpandNeighbors(ExpandNeighbors(work, view, a), view, b))
          /\ ChartOK(ExpandNeighbors(ExpandNeighbors(work, view, a), view, b))
    BY WorkOK, QuietOperations, ChartSearches
  <2>2. \A r \in Rels : Ends[r][1] \in Nodes /\ Ends[r][2] \in Nodes
    BY GraphAssumption
  <2>. QED  BY <2>1, <2>2 DEF ExpandSelected
<1>4. \A start \in Nodes : \A end :
        \A path \in ShortestPaths(view, start, end, Cardinality(Nodes)) :
          LogOK(SetPath(work, path)) /\ ChartOK(SetPath(work, path))
  <2>1. Cardinality(Nodes) \in Nat
    BY GraphAssumption, FS_CardinalityType
  <2>. QED  BY <2>1, WorkOK, QuietOperations, FoundPathsOK, PathSet
<1>5. FindPath => \E w : LogOK(w) /\ ChartOK(w) /\ Handler(w)
  <2>1. work.pinned \in Seq(Nodes)
    BY WorkOK DEF Contents
  <2>2. \A r \in Rels : (IF work.pinned = <<>> THEN Ends[r][1] ELSE Head(work.pinned)) \in Nodes
    BY <2>1, GraphAssumption
  <2>. QED  BY <1>4, <2>2 DEF FindPath
<1>6. RunPhrase => \E w : LogOK(w) /\ ChartOK(w) /\ Handler(w)
  <2>1. \A target \in Nodes, type \in NodeTypes :
          \A w \in ShowConnected(work, view, target, type) : LogOK(w) /\ ChartOK(w)
    BY WorkOK, PhraseOperations, PhrasesPin
  <2>2. \A community : \A w \in ShowCommunity(work, view, community) : LogOK(w) /\ ChartOK(w)
    BY WorkOK, PhraseOperations, PhrasesPin
  <2>. QED  BY <1>4, <2>1, <2>2 DEF RunPhrase
<1>. QED  BY <1>1, <1>2, <1>3, <1>5, <1>6, HandlerOK

LEMMA NoteSteps ==
  ASSUME WorkspaceInv, Annotate \/ Comment \/ NoteCase \/ SetTask \/ Review \/ SaveAiNote
  PROVE  Sound'
PROOF
<1>1. Annotate => \E w : LogOK(w) /\ ChartOK(w) /\ Handler(w)
  BY WorkOK, QuietOperations, CountingOperations DEF Annotate
<1>2. Comment \/ NoteCase \/ Review => \E w : LogOK(w) /\ ChartOK(w) /\ Handler(w)
  BY WorkOK, RecordingOperations, CountingOperations DEF Comment, NoteCase, Review
<1>3. SetTask => \E w : LogOK(w) /\ ChartOK(w) /\ Handler(w)
  BY WorkOK, TaskOperation, CountingOperations DEF SetTask
<1>4. SaveAiNote => \E w : LogOK(w) /\ ChartOK(w) /\ Handler(w)
  <2>1. LogOK(AddCaseNote(work, "text")) /\ ChartOK(AddCaseNote(work, "text"))
    BY WorkOK, RecordingOperations, CountingOperations
  <2>2. "ai-note-saved" \in AuditActions /\ 0 \in Nat
    BY DEF AuditActions
  <2>. QED  BY <2>1, <2>2, RecordedOnly, RecordedChart DEF SaveAiNote
<1>. QED  BY <1>1, <1>2, <1>3, <1>4, HandlerOK

LEMMA ChartSteps ==
  ASSUME WorkspaceInv,
         \/ AddEntity \/ AddEdge \/ EditManualItem \/ RemoveItem
         \/ Redact \/ LiftRedactions \/ KeepLayout
  PROVE  Sound'
PROOF
<1>0. /\ work.pinned \in Seq(Nodes) /\ work.expanded \subseteq Nodes
      /\ work.pathNodes \in Seq(Nodes) /\ work.entities \in Seq(EntityIds)
  BY WorkOK DEF Contents
<1>1. AddEntity => \E w : LogOK(w) /\ ChartOK(w) /\ Handler(w)
  BY WorkOK, QuietOperations, ItemOperations DEF AddEntity
<1>2. AddEdge => \E w : LogOK(w) /\ ChartOK(w) /\ Handler(w)
  <2>1. EdgeChoices \subseteq Nodes \cup Elements(work.entities)
    BY <1>0 DEF EdgeChoices, SourceRows, Elements
  <2>. QED  BY <2>1, WorkOK, QuietOperations, ItemOperations DEF AddEdge
<1>3. EditManualItem => \E w : LogOK(w) /\ ChartOK(w) /\ Handler(w)
  BY WorkOK DEF EditManualItem
<1>4. RemoveItem => \E w : LogOK(w) /\ ChartOK(w) /\ Handler(w)
  BY WorkOK, QuietOperations, ItemOperations DEF RemoveItem
<1>5. Redact => \E w : LogOK(w) /\ ChartOK(w) /\ Handler(w)
  <2>1. \A r \in Rels :
          (IF work.entities # <<>> THEN Head(work.entities)
           ELSE IF work.pinned # <<>> THEN Head(work.pinned) ELSE r)
            \in Nodes \cup Rels \cup Elements(work.entities)
    <3>1. work.entities # <<>> => Head(work.entities) \in Elements(work.entities)
      BY <1>0 DEF Elements
    <3>2. work.pinned # <<>> => Head(work.pinned) \in Nodes
      BY <1>0
    <3>. QED  BY <3>1, <3>2
  <2>. QED  BY <2>1, WorkOK, QuietOperations, ItemOperations DEF Redact
<1>6. LiftRedactions \/ KeepLayout => \E w : LogOK(w) /\ ChartOK(w) /\ Handler(w)
  BY WorkOK, QuietOperations, ItemOperations, CountingOperations DEF LiftRedactions, KeepLayout
<1>. QED  BY <1>1, <1>2, <1>3, <1>4, <1>5, <1>6, HandlerOK

LEMMA SnapshotSteps ==
  ASSUME WorkspaceInv, SaveWorkspaceSnapshot \/ RestoreWorkspaceSnapshot
  PROVE  Sound'
PROOF
<1>0. /\ "workspace-snapshot-saved" \in AuditActions
      /\ "workspace-snapshot-restored" \in AuditActions /\ 0 \in Nat
  BY DEF AuditActions
<1>1. ASSUME NEW w, NEW w1, ContentOK(w), ContentOK(w1), present' = [work |-> w1, saved |-> w]
      PROVE  VersionOK(present')
  <2>1. w \in Contents /\ w1 \in Contents
    BY <1>1 DEF ContentOK, ChartOK
  <2>2. present' \in Versions /\ present'.work = w1 /\ present'.saved = w
    BY <1>1, <2>1 DEF Versions
  <2>. QED  BY <1>1, <2>2 DEF VersionOK
<1>2. ASSUME SaveWorkspaceSnapshot  PROVE  Sound'
  <2>1. ContentOK(work) /\ ContentOK(RecordAudit(work, "workspace-snapshot-saved", 0))
    BY <1>0, WorkOK, RecordedOnly, RecordedChart DEF ContentOK
  <2>2. /\ present' = [work |-> RecordAudit(work, "workspace-snapshot-saved", 0),
                       saved |-> work]
        /\ commits' \in 0..MaxCommits
        /\ disk' \in {disk, work} /\ view' = view
    BY <1>2, CountedCommit DEF SaveWorkspaceSnapshot
  <2>3. VersionOK(present')
    BY <1>1, <2>1, <2>2
  <2>. QED  BY <2>1, <2>2, <2>3 DEF WorkspaceInv, Sound
<1>3. ASSUME RestoreWorkspaceSnapshot  PROVE  Sound'
  <2>1. SnapshotAtHand # NoSnapshot => ContentOK(SnapshotAtHand)
    BY DEF SnapshotAtHand, WorkspaceInv, Sound, VersionOK
  <2>2. SnapshotAtHand # NoSnapshot => ContentOK(Restored(SnapshotAtHand))
    BY <1>0, <2>1, RecordedOnly, RecordedChart DEF Restored, ContentOK
  <2>3. /\ present' = IF SnapshotAtHand = NoSnapshot THEN present
                      ELSE [work |-> Restored(SnapshotAtHand), saved |-> SnapshotAtHand]
        /\ commits' \in 0..MaxCommits
        /\ disk' = disk /\ view' = view
    BY <1>3, CountedCommit DEF RestoreWorkspaceSnapshot
  <2>4. VersionOK(present')
    BY <1>1, <2>1, <2>2, <2>3 DEF WorkspaceInv, Sound
  <2>. QED  BY <2>3, <2>4 DEF WorkspaceInv, Sound
<1>. QED  BY <1>2, <1>3

LEMMA EmptyOK == VersionOK(CreateChartWorkspace)
PROOF
<1>1. LogOK(EmptyContent)
  BY DEF LogOK, Audited, EmptyContent
<1>2. EmptyContent \in Contents
  <2>1. "" \in Queries /\ "triage" \in ReviewStatuses /\ 0 \in Nat
    BY WorkspaceAssumption DEF ReviewStatuses
  <2>2. \A S : <<>> \in Seq(S) /\ {} \in SUBSET S
    OBVIOUS
  <2>. QED  BY <2>1, <2>2 DEF EmptyContent, Contents
<1>3. ChartOK(EmptyContent)
  <2>1. /\ EmptyContent.edges = <<>> /\ EmptyContent.redacted = {}
        /\ EmptyContent.pathNodes = <<>> /\ Len(<<>>) - 1 < 1
    BY DEF EmptyContent
  <2>. QED  BY <1>2, <2>1 DEF ChartOK, Anchored, RedactsItsEntities, Connected, Elements
<1>. QED  BY <1>1, <1>2, <1>3 DEF VersionOK, CreateChartWorkspace, ContentOK, Versions

LEMMA OtherSteps ==
  ASSUME WorkspaceInv,
         \/ \E query \in Queries : ChartSearch(query)
         \/ UndoWorkspaceChange \/ RedoWorkspaceChange
         \/ ChangeSettings \/ StartOver \/ UNCHANGED vars
  PROVE  Sound'
PROOF
<1>1. Sound
  BY DEF WorkspaceInv
<1>2. ASSUME NEW query \in Queries, ChartSearch(query)  PROVE  Sound'
  <2>. DEFINE w == [work EXCEPT !.query = query]
  <2>1. ContentOK(w) /\ w \in Contents
    BY WorkOK, QuietOperations, ChartSearches DEF ContentOK, ChartOK
  <2>2. /\ present' = [present EXCEPT !.work = w]
        /\ UNCHANGED <<disk, view, commits>>
    BY <1>2 DEF ChartSearch, work
  <2>. HIDE DEF w
  <2>3. present' \in Versions /\ present'.work = w /\ present'.saved = present.saved
    BY <2>1, <2>2, WorkOK DEF Versions
  <2>4. VersionOK(present')
    BY <1>1, <2>1, <2>3 DEF VersionOK, Sound
  <2>. QED  BY <1>1, <2>2, <2>4 DEF Sound
<1>3. ASSUME UndoWorkspaceChange \/ RedoWorkspaceChange  PROVE  Sound'
  <2>1. present' \in AtHand
    BY <1>3, UndoStep, RedoStep DEF WorkspaceInv
  <2>2. UNCHANGED <<disk, view, commits>>
    BY <1>3 DEF UndoWorkspaceChange, RedoWorkspaceChange
  <2>. QED  BY <1>1, <2>1, <2>2 DEF WorkspaceInv, Sound
<1>4. ASSUME ChangeSettings \/ UNCHANGED vars  PROVE  Sound'
  BY <1>1, <1>4 DEF ChangeSettings, vars, Sound
<1>5. ASSUME StartOver  PROVE  Sound'
  BY <1>1, <1>5, EmptyOK DEF StartOver, Sound
<1>. QED  BY <1>2, <1>3, <1>4, <1>5

LEMMA WorkspaceStep == WorkspaceInv /\ [Next]_vars => WorkspaceInv'
PROOF
<1>. SUFFICES ASSUME WorkspaceInv, [Next]_vars  PROVE  WorkspaceInv'
  OBVIOUS
<1>1. Sound'
  BY SearchSteps, NoteSteps, ChartSteps, SnapshotSteps, OtherSteps DEF Next
<1>. QED  BY <1>1, SoundKept

LEMMA WorkspaceInit == Init => WorkspaceInv
PROOF
<1>. SUFFICES ASSUME Init  PROVE  WorkspaceInv
  OBVIOUS
<1>1. HistoryInv
  BY HistoryInit
<1>2. AtHand = {present} /\ present = CreateChartWorkspace
  BY DEF Init, AtHand, AtHandOf, Members
<1>3. disk # NoSnapshot => ContentOK(disk)
  <2>1. \A w \in Contents : Audited(w) => LogOK(w)
    BY DEF Contents, LogOK, Task, Entries
  <2>. QED  BY <2>1, SnapshotAssumption DEF Init, ContentOK, ChartOK
<1>4. view \in Views /\ commits \in 0..MaxCommits
  <2>1. MaxCommits \in Nat /\ commits = 0
    BY WorkspaceAssumption DEF Init
  <2>. QED  BY <2>1 DEF Init
<1>. QED  BY <1>1, <1>2, <1>3, <1>4, EmptyOK DEF WorkspaceInv, Sound

LEMMA WorkspaceInvHolds == Spec => []WorkspaceInv
PROOF BY WorkspaceInit, WorkspaceStep, PTL DEF Spec

LEMMA ReachableAreOK ==
  ASSUME WorkspaceInv, NEW w \in ReachableContents
  PROVE  Audited(w) /\ Anchored(w) /\ RedactsItsEntities(w) /\ Connected(w)
PROOF
<1>1. \/ \E v \in AtHand : w = v.work
      \/ \E v \in AtHand : w = v.saved /\ v.saved # NoSnapshot
      \/ w = disk /\ disk # NoSnapshot
  BY DEF ReachableContents, AtHand, AtHandOf, Members, Elements
<1>2. ContentOK(w)
  BY <1>1 DEF WorkspaceInv, Sound, VersionOK
<1>. QED  BY <1>2 DEF ContentOK, LogOK, ChartOK

(* Every version at hand, saved or stored is a workspace's, whatever the     *)
(* handlers made of it.                                                      *)
THEOREM WorkspaceTypeCorrect == Spec => []TypeOK
PROOF
<1>1. WorkspaceInv => TypeOK
  <2>. SUFFICES ASSUME WorkspaceInv  PROVE  TypeOK
    OBVIOUS
  <2>1. AtHand \subseteq Versions /\ undo \in Seq(AtHand) /\ redo \in Seq(AtHand)
    BY DEF WorkspaceInv, VersionOK, HistoryInv, HistoryOK, AtHand
  <2>2. undo \in Seq(Versions) /\ redo \in Seq(Versions)
    BY <2>1
  <2>3. disk \in Contents \cup {NoSnapshot}
    BY DEF WorkspaceInv, Sound, ContentOK, ChartOK
  <2>. QED  BY <2>2, <2>3 DEF WorkspaceInv, Sound, VersionOK, TypeOK
<1>. QED  BY <1>1, WorkspaceInvHolds, PTL

(* No undo, redo, restore or reload shows a comment, note, search or task    *)
(* whose audit entry is missing from the log next to it (chart-workspace.mjs:*)
(* 85-105): whole versions come back, with their logs.                       *)
THEOREM WorkspaceItemsAreAudited == Spec => []ItemsAreAudited
PROOF
<1>1. WorkspaceInv => ItemsAreAudited
  BY ReachableAreOK DEF ItemsAreAudited
<1>. QED  BY <1>1, WorkspaceInvHolds, PTL

(* A manual link of any version still within reach ends in a source node or  *)
(* a manual entity of that version, although the removal of an entity frees  *)
(* ids that are given again (removeManualEntity, chart-workspace.mjs:402).   *)
THEOREM LinksStayAnchored == Spec => []EdgesAnchored
PROOF
<1>1. WorkspaceInv => EdgesAnchored
  BY ReachableAreOK DEF EdgesAnchored
<1>. QED  BY <1>1, WorkspaceInvHolds, PTL

(* The redaction of a manual entity goes when the last entity of its id does,*)
(* in every version within reach, so none is left for a new entity to take   *)
(* over (removeManualEntity, chart-workspace.mjs:402-415).                   *)
THEOREM RedactionsGoWithEntities == Spec => []RedactedEntitiesAreThere
PROOF
<1>1. WorkspaceInv => RedactedEntitiesAreThere
  BY ReachableAreOK DEF RedactedEntitiesAreThere
<1>. QED  BY <1>1, WorkspaceInvHolds, PTL

(* Consecutive nodes of a displayed path stay joined by a relationship among *)
(* the dependencies that an export lists, whatever is expanded, pinned,      *)
(* redacted or restored later; the view may have hidden the relationship     *)
(* (setPath and expandNeighbors, chart-workspace.mjs).                       *)
THEOREM DisplayedPathsStayConnected == Spec => []PathsStayConnected
PROOF
<1>1. WorkspaceInv => PathsStayConnected
  BY ReachableAreOK DEF PathsStayConnected
<1>. QED  BY <1>1, WorkspaceInvHolds, PTL
============================================================================
