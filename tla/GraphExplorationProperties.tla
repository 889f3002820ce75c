-------------------- MODULE GraphExplorationProperties --------------------
(* What the graph algorithms must find, against definitions that do not      *)
(* follow the code.                                                          *)
EXTENDS GraphExploration, ModelGates

CONSTANT FoldOptions  \* the horizon, the step and the first training window

ASSUME FoldAssumption ==
  FoldOptions \subseteq [horizon : Nat, step : Nat \ {0}, window : Nat]

ASSUME ManifestAssumption ==
  /\ \E m \in Manifests : m.predictions = <<>>
  /\ \A m \in Manifests :
       /\ m.bins \in Nat
       /\ m.predictions \in Seq([score : Int \cup {NoNumber}, label : Int \cup {NoNumber}])

(* The search returns a path with as few relationships as any along visible  *)
(* rows, and says that there is none only when there is none, whatever the   *)
(* order of the rows.                                                        *)
FindsShortestPath ==
  ~Searching => answer \in ShortestPaths(rows, start, end, Cardinality(Nodes))

(* The search comes to an end, over cycles, loops and unreachable parts.     *)
SearchEnds == <>(~Searching)

(* The turns the search can still take: a turn for every row, and one to     *)
(* take the next path, of every path that waits and every node that some     *)
(* path may yet reach.                                                       *)
WorkLeft ==
  IF ~Searching THEN 0
  ELSE (Cardinality(Nodes \ visited) + Len(queue)) * (Len(rows) + 2)
         + Len(rows) + 2 - next

(* Every turn of the loops leaves less to do, so the search returns within   *)
(* that many turns: no path is taken up again and no node is followed twice. *)
WorkRunsOut == [][WorkLeft' \in 0..(WorkLeft - 1)]_vars

(* A path of at most so many relationships joins two nodes.                  *)
Linked(a, b, most) ==
  \E n \in 0..most : \E p \in SimplePaths(rows, a)[n] : LastNode(p) = b

Class(a) == {b \in Nodes : Linked(a, b, Cardinality(Nodes))}

(* The components are the classes of nodes joined by paths.  A node has no   *)
(* label that is foreign to its component, and it ends the label propagation *)
(* without one only when no anchored node is within as many relationships as *)
(* there are rounds: with rounds enough, exactly when its component has none.*)
LabelsFollowComponents ==
  /\ ConnectedComponents = {Class(a) : a \in Nodes}
  /\ \A node \in Nodes :
       LET label == LabelPropagation[node]
       IN /\ label # 0 => \E other \in Class(node) : anchors[other] = label
          /\ label = 0 => \A other \in Nodes :
               Linked(other, node, MaxIterations) => anchors[other] = 0

(* The slices of a split are its rows in order: none is lost or repeated, no *)
(* slice is empty, and there are no more than were asked for.  With at most  *)
(* ten rows, rounding the recommendation to a whole percent and back still   *)
(* cuts where it says: after the largest gap.                                *)
SplitsFollowTheRows ==
  /\ FlattenSeq(SplitModels) = timeline
  /\ Len(SplitModels) <= split.count
  /\ timeline # <<>> => \A i \in DOMAIN SplitModels : SplitModels[i] # <<>>
  /\ Len(timeline) \in 2..10 /\ split.percent = 101 => Boundary = LargestGap

(* A fold knows no event from inside its validation window, only such as are *)
(* at the instant where the window begins, which is the last it trains on    *)
(* (model-gates.mjs:295-301); later folds know what earlier ones knew, and   *)
(* an event with an unreadable date takes no part.  When a step is no longer *)
(* than the horizon, every event after the first training window is in some  *)
(* validation window, and when it is no shorter, two windows meet at most    *)
(* where one ends and the next begins.                                       *)
NoLookAhead(instants, o) ==
  LET events == <<Invalid>> \o instants
      folds == BuildTemporalFolds(events, o.horizon, o.step, o.window)
      validates(k, i) == /\ events[i] >= folds[k].validateFrom
                         /\ events[i] <= folds[k].validateUntil
  IN /\ \A k \in DOMAIN folds :
          /\ 1 \notin folds[k].population
          /\ \A i \in folds[k].population :
               validates(k, i) => events[i] = folds[k].validateFrom
          /\ \A l \in 1..(k - 1) : folds[l].population \subseteq folds[k].population
          /\ o.step >= o.horizon =>
               \A l \in 1..(k - 1) : folds[l].validateUntil <= folds[k].validateFrom
     /\ o.step <= o.horizon =>
          \A i \in 2..(Len(instants) + 1) :
            events[i] > instants[1] + o.window => \E k \in DOMAIN folds : validates(k, i)

FoldsNeverLookAhead == \A o \in FoldOptions : NoLookAhead(timeline, o)

(* By how much the scores of all predictions together are above their labels.*)
Bias(predictions) ==
  LET bias[n \in 0..Len(predictions)] ==
        IF n = 0 THEN 0
        ELSE bias[n - 1] + IF Counted(predictions[n]) THEN Excess(predictions[n]) ELSE 0
  IN bias[Len(predictions)]

(* An artifact eligible for promotion neither overstates nor understates, on *)
(* the whole, by more than the calibration error allowed: however its scores *)
(* fall into the bins, on their boundaries and beyond 0 and 1, and however   *)
(* many bins the manifest asks for, errors of one bin do not make up for     *)
(* those of another (production-readiness.mjs:19-60, 93-164).                *)
BiasIsHeldBack ==
  EligibleForPilot(manifest) =>
    LET n == Total(manifest.predictions)
    IN n > 0 /\ Bias(manifest.predictions) \in -(MaxCalibration * n)..(MaxCalibration * n)
=============================================================================
