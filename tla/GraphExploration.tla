------------------------- MODULE GraphExploration -------------------------
(* The algorithms of the workbench.  shortestPath of packages/graph-renderer/ *)
(* chart-workspace.mjs is a machine whose step is one turn of its loops; the *)
(* communities of packages/predictive/community-baselines.mjs and the        *)
(* chronological splits of packages/graph-renderer/graph-model.mjs are       *)
(* operators, and the model gates a module of their own.  A view is the list *)
(* of its visible relationships in the order of the rows.  Labels are        *)
(* positive numbers in their sorting order.  A definition introduced by      *)
(* "Fault:" is a deliberately wrong variant of the definition after it.      *)
EXTENDS VisibleGraph, FiniteSets, FiniteSetsExt, SequencesExt

CONSTANTS
  Anchors,        \* choices of anchored labels: 0 where a node has none
  MaxIterations,  \* of the label propagation (25 in the code)
  Timelines,      \* instants of visible relationships, in order
  Splits,         \* the count, the strategy and the boundary asked for
  Manifests       \* trained artifacts put up for promotion

ASSUME ViewAssumption ==
  /\ Nodes # {}
  /\ <<>> \in Views
  /\ \A view \in Views : /\ view \in Seq(Rels)
                         /\ Shown[view] = {view[i] : i \in DOMAIN view}

ASSUME LabelAssumption ==
  /\ Anchors \subseteq [Nodes -> Nat]
  /\ MaxIterations \in Nat

ASSUME TimelineAssumption ==
  \A instants \in Timelines :
    /\ instants \in Seq(Nat)
    /\ \A i, j \in DOMAIN instants : i <= j => instants[i] <= instants[j]

(* A boundary is a number of percent, or 101 where the user has set none.    *)
ASSUME SplitAssumption ==
  /\ \A s \in Splits : s.count \in Nat \ {0} /\ s.percent \in Nat
  /\ \E s \in Splits : s.count = 1

VARIABLES
  rows,      \* the visible relationships
  start,     \* the node a path is sought from
  end,       \* and to
  queue,     \* paths to extend, shortest first
  visited,   \* nodes some path has reached
  next,      \* the row the scan for the head of the queue is at
  answer,    \* the path found, or none yet
  anchors,   \* the labels known beforehand
  timeline,  \* the instants of the relationships to split
  split,     \* how to split them
  manifest   \* the artifact to promote

inputs == <<rows, start, end, anchors, timeline, split, manifest>>
vars == <<rows, start, end, queue, visited, next, answer, anchors, timeline,
          split, manifest>>

Unknown == [nodes |-> <<>>, rels |-> <<"unknown">>]

Searching == answer = Unknown

StartPath == Trivial(start)

NoSearch == start = (CHOOSE node \in Nodes : TRUE) /\ end = start
NoAnchors == anchors = [node \in Nodes |-> 0]
NoSplit == timeline = <<>> /\ split = (CHOOSE s \in Splits : s.count = 1)

(* The manifest of an artifact that has predicted nothing.                   *)
BlankManifest == CHOOSE m \in Manifests : m.predictions = <<>>
NoManifest == manifest = BlankManifest

(* The algorithms do not depend on each other's input.                       *)
Init ==
  /\ \/ rows \in Views /\ start \in Nodes /\ end \in Nodes
        /\ NoAnchors /\ NoSplit /\ NoManifest
     \/ rows \in Views /\ anchors \in Anchors /\ NoSearch /\ NoSplit /\ NoManifest
     \/ rows = <<>> /\ timeline \in Timelines /\ split \in Splits
        /\ NoSearch /\ NoAnchors /\ NoManifest
     \/ rows = <<>> /\ manifest \in Manifests /\ NoSearch /\ NoAnchors /\ NoSplit
  /\ queue = <<StartPath>>
  /\ visited = {start}
  /\ next = 1
  /\ answer = IF start = end THEN StartPath ELSE Unknown

-----------------------------------------------------------------------------
(* shortestPath.                                                             *)

Current == Head(queue)

(* The end of the row at hand that the current path does not stand on.       *)
Opposite ==
  LET ends == Ends[rows[next]]
  IN IF ends[1] = LastNode(Current) THEN ends[2] ELSE ends[1]

(* Fault: a row is followed from its subject to its object only.             *)
StartsAt(row, node) == Ends[row][1] = node

Meets(row, node) == Touches(row, node)

AtRow == Searching /\ queue # <<>> /\ next <= Len(rows)

Skips == ~Meets(rows[next], LastNode(Current)) \/ Opposite \in visited

SkipRow ==
  /\ AtRow /\ Skips
  /\ next' = next + 1
  /\ UNCHANGED <<inputs, queue, visited, answer>>

Arrive ==
  /\ AtRow /\ ~Skips /\ Opposite = end
  /\ answer' = Extension(Current, rows[next], end)
  /\ UNCHANGED <<inputs, queue, visited, next>>

Follow ==
  /\ AtRow /\ ~Skips /\ Opposite # end
  /\ visited' = visited \cup {Opposite}
  /\ queue' = Append(queue, Extension(Current, rows[next], Opposite))
  /\ next' = next + 1
  /\ UNCHANGED <<inputs, answer>>

(* Fault: the head of the queue is read and not taken.                       *)
SameQueue == queue

ShiftedQueue == Tail(queue)

Dequeue ==
  /\ Searching /\ queue # <<>> /\ next > Len(rows)
  /\ queue' = ShiftedQueue /\ next' = 1
  /\ UNCHANGED <<inputs, visited, answer>>

GiveUp ==
  /\ Searching /\ queue = <<>>
  /\ answer' = NoPath
  /\ UNCHANGED <<inputs, queue, visited, next>>

Next == SkipRow \/ Arrive \/ Follow \/ Dequeue \/ GiveUp

(* The function runs until it returns.                                       *)
Spec == Init /\ [][Next]_vars /\ WF_vars(Next)

-----------------------------------------------------------------------------
(* Communities.                                                              *)

NeighborsFromEdges(node) ==
  {other \in Nodes : \E i \in DOMAIN rows : Joins(rows[i], node, other)}

(* One turn of a component's loop: a node is taken off the stack, and its    *)
(* neighbours that remain are put on it.  The stack is a set, because the    *)
(* order it is emptied in does not show in a component.                      *)
Popped(walk) ==
  IF walk.stack = {} THEN walk
  ELSE LET node == CHOOSE node \in walk.stack : TRUE
           fresh == NeighborsFromEdges(node) \cap walk.remaining
       IN [stack |-> (walk.stack \ {node}) \cup fresh,
           remaining |-> walk.remaining \ fresh,
           members |-> walk.members \cup {node}]

(* The component of first.  No node is put on the stack twice, so the stack  *)
(* is empty after Cardinality(Nodes) turns.                                  *)
Component(first, remaining) ==
  LET walk[n \in 0..Cardinality(Nodes)] ==
        IF n = 0 THEN [stack |-> {first}, remaining |-> remaining, members |-> {}]
        ELSE Popped(walk[n - 1])
  IN walk[Cardinality(Nodes)]

(* One turn of the outer loop: the component of the first node that remains. *)
NextComponent(found) ==
  IF found.remaining = {} THEN found
  ELSE LET first == CHOOSE node \in found.remaining : TRUE
           walk == Component(first, found.remaining \ {first})
       IN [components |-> found.components \cup {walk.members},
           remaining |-> walk.remaining]

ConnectedComponents ==
  LET found[n \in 0..Cardinality(Nodes)] ==
        IF n = 0 THEN [components |-> {}, remaining |-> Nodes]
        ELSE NextComponent(found[n - 1])
  IN found[Cardinality(Nodes)].components

(* The label most neighbours have, the smallest of several; the node's own   *)
(* when no neighbour has one.                                                *)
MajorityLabel(node, labels) ==
  LET around == {other \in NeighborsFromEdges(node) : labels[other] # 0}
      count(label) == Cardinality({other \in around : labels[other] = label})
      heard == {labels[other] : other \in around}
      most == {label \in heard : \A other \in heard : count(label) >= count(other)}
  IN IF anchors[node] # 0 THEN anchors[node]
     ELSE IF heard = {} THEN labels[node] ELSE Min(most)

Round(labels) == [node \in Nodes |-> MajorityLabel(node, labels)]

(* Fault: the loop stops once a node kept its label.                         *)
SomeSettled(labels) == \E node \in Nodes : Round(labels)[node] = labels[node]

Settled(labels) == Round(labels) = labels

(* One turn of the loop, which ends with the round that changes nothing.     *)
Propagated(labels) == IF Settled(labels) THEN labels ELSE Round(labels)

(* labelPropagationCommunities: 0 stands for a community of the node's own.  *)
LabelPropagation ==
  LET labels[n \in 0..MaxIterations] ==
        IF n = 0 THEN anchors ELSE Propagated(labels[n - 1])
  IN labels[MaxIterations]

-----------------------------------------------------------------------------
(* Chronological splits.                                                     *)

Rounded(x, y) == (2 * x + y) \div (2 * y)

(* The first of the largest gaps between neighbouring instants.              *)
LargestGap ==
  LET gap(i) == timeline[i + 1] - timeline[i]
      largest == {i \in 1..(Len(timeline) - 1) :
                    \A j \in 1..(Len(timeline) - 1) : gap(i) >= gap(j)}
  IN Min(largest)

RecommendSplit ==
  IF Len(timeline) < 2 THEN 50
  ELSE Min({90, Max({10, Rounded(100 * LargestGap, Len(timeline))})})

Boundary ==
  LET percent == IF split.percent = 101 THEN RecommendSplit ELSE split.percent
  IN Min({Max({1, Rounded(Len(timeline) * percent, 100)}), Max({1, Len(timeline) - 1})})

Slice(first, last) == SubSeq(timeline, first, Min({last, Len(timeline)}))

(* Fault: the length of a slice is rounded down.                             *)
ShortChunk == Max({1, Len(timeline) \div split.count})

ChunkSize == Max({1, (Len(timeline) + split.count - 1) \div split.count})

(* The models that have relationships, in order.                             *)
Filled(models) ==
  LET kept[n \in 0..Len(models)] ==
        IF n = 0 THEN <<>>
        ELSE IF models[n] = <<>> THEN kept[n - 1] ELSE Append(kept[n - 1], models[n])
  IN kept[Len(models)]

SplitModels ==
  IF split.count = 1 THEN <<timeline>>
  ELSE LET models ==
             IF split.count = 2 /\ ~split.equal
             THEN <<Slice(1, Boundary), Slice(Boundary + 1, Len(timeline))>>
             ELSE [i \in 1..split.count |->
                     Slice((i - 1) * ChunkSize + 1, i * ChunkSize)]
       IN Filled(models)
===========================================================================
