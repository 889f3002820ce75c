---------------------- MODULE ChartWorkspaceProperties ----------------------
(* What should hold of the chart workspace, and why it might not.            *)
EXTENDS ChartWorkspace

(* Every version at hand has the shape of a workspace.                       *)
TypeOK ==
  /\ present \in Versions
  /\ undo \in Seq(Versions) /\ redo \in Seq(Versions)
  /\ view \in Views
  /\ disk \in Contents \cup {NoSnapshot}
  /\ commits \in 0..MaxCommits

(* All contents a user can still reach: present, by undo, redo or restore.   *)
ReachableContents ==
  LET versions == {present} \cup Elements(undo) \cup Elements(redo)
  IN ({v.work : v \in versions} \cup {v.saved : v \in versions} \cup {disk})
       \ {NoSnapshot}

(* Every end of a manual link is a source node or a manual entity that is    *)
(* there, although ids repeat once an entity has been removed and whole      *)
(* versions come back by undo, redo, restore or after a reload.              *)
Anchored(w) ==
  \A e \in Elements(w.edges) : {e.from, e.to} \subseteq Nodes \cup Elements(w.entities)

EdgesAnchored == \A w \in ReachableContents : Anchored(w)

(* A redaction does not outlive the manual entity it was made for: once no   *)
(* entity has the id any more, none that is given it anew is redacted from   *)
(* the start.  Ids repeat, so an entity does share the redaction of an older *)
(* one that still has its id; and of redacted nodes and relationships, which *)
(* need not be on the chart (app.mjs:1870-1873), nothing is said.            *)
RedactsItsEntities(w) == w.redacted \cap EntityIds \subseteq Elements(w.entities)

RedactedEntitiesAreThere == \A w \in ReachableContents : RedactsItsEntities(w)

(* Two consecutive nodes of a displayed path are joined by a relationship    *)
(* among the dependencies an export lists for the path, visible or not,      *)
(* unless it was redacted: after expansions of other nodes, phrases, changes *)
(* of settings and restores, and again once the redactions are lifted.       *)
Connected(w) ==
  \A i \in 1..(Len(w.pathNodes) - 1) :
    \E r \in PathDependencies(RestoreRedactions(w)) :
      Joins(r, w.pathNodes[i], w.pathNodes[i + 1])

PathsStayConnected == \A w \in ReachableContents : Connected(w)

(* Comments, notes, searches and tasks come with the audit entry that        *)
(* recorded them: no undo, redo, restore or reload shows an item whose entry *)
(* is missing from the log next to it.                                       *)
Audited(w) ==
  LET Logged(action, n) == \E i \in DOMAIN w.audit : w.audit[i] = <<action, n>>
  IN /\ \A n \in 1..w.comments : Logged("comment-added", n)
     /\ \A n \in 1..w.notes : Logged("case-note-added", n)
     /\ \A n \in 1..w.searches : Logged("saved-search", n)
     /\ \A n \in DOMAIN w.tasks : Logged("task-state-updated", n)

ItemsAreAudited == \A w \in ReachableContents : Audited(w)

(* What earlier sessions left in the storage was the content of a version of *)
(* theirs, of which all this held: the first session of all found nothing    *)
(* there, and what a session leaves is among its reachable contents.         *)
ASSUME SnapshotAssumption ==
  \A w \in Snapshots :
    w \in Contents /\ Anchored(w) /\ RedactsItsEntities(w) /\ Connected(w) /\ Audited(w)

(* Undo and redo walk one timeline: whatever was done, undone, amended or    *)
(* restored in between, redo after undo gives back what was there, a change  *)
(* discards what lay ahead, and the stacks' bound never drops a version that *)
(* undo or redo moved between them.                                          *)
Timeline == INSTANCE WorkspaceTimeline WITH
  Limit <- HistoryLimit,
  timeline <- undo \o <<present>> \o Reverse(redo),
  cursor <- Len(undo) + 1

KeepsTheTimeline == Timeline!Spec
=============================================================================
