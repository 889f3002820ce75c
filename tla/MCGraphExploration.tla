------------------------ MODULE MCGraphExploration ------------------------
(* All graphs of up to three relationships between four nodes, loops and     *)
(* parallel relationships included, in every order of the rows.              *)
EXTENDS GraphExplorationProperties

Four == 1..4
Pairs == {<<1, 2>>, <<2, 3>>, <<3, 4>>, <<1, 4>>, <<3, 1>>, <<2, 2>>, <<2, 1>>}
PairEnds == [pair \in Pairs |-> pair]
Lists ==
  {list \in UNION {[1..n -> Pairs] : n \in 0..3} :
     \A i, j \in DOMAIN list : list[i] = list[j] => i = j}
ListsShown == [list \in Lists |-> {list[i] : i \in DOMAIN list}]

SomeAnchors == {[node \in Four |-> 0], <<1, 0, 0, 0>>, <<2, 0, 0, 1>>}

(* Up to twelve instants with one wide gap.                                  *)
WideGap(n, k) == [i \in 1..n |-> IF i <= k THEN i ELSE i + 9]
GapTimelines == {WideGap(n, k) : n \in 0..12, k \in 1..12}

SomeSplits ==
  [count : 1..4, equal : {FALSE}, percent : {0, 35, 100, 101}]
    \cup [count : {2}, equal : {TRUE}, percent : {101}]

SomeFolds == [horizon : {1, 3}, step : {1, 2, 3}, window : {0, 2}]

(* Up to three predictions with scores on, below and above the boundaries of *)
(* ten bins and of two, and some that do not count.                          *)
SomePredictions ==
  [score : {-20, 0, 14, 30, 49, 50, 89, 100}, label : {0, 1}]
    \cup {[score |-> NoNumber, label |-> 1], [score |-> 140, label |-> NoNumber]}

(* A manifest that passes every gate if its predictions do, and some that    *)
(* fail at one.                                                              *)
Dated(t, label) == [knownAt |-> t, labelKnownAt |-> label]
Complete ==
  [missing |-> {}, dependencies |-> {Dated(3, 0), Dated(2, 4)}, predictionTime |-> 4,
   predictions |-> <<>>, bins |-> 10, redTeam |-> [smurfing |-> 65],
   overreliance |-> TRUE, prohibitedTarget |-> FALSE,
   provider |-> [named |-> TRUE, endpoint |-> TRUE, secrets |-> FALSE,
                 closedPolicy |-> TRUE, approvedMode |-> TRUE]]
Predicted(m) == [m EXCEPT !.predictions = <<[score |-> 89, label |-> 1]>>]

SomeManifests ==
  {[Complete EXCEPT !.predictions = list, !.bins = asked] :
     list \in UNION {[1..n -> SomePredictions] : n \in 0..3}, asked \in {1, 10}}
    \cup {Predicted(m) : m \in {
           [Complete EXCEPT !.missing = {"foldMetrics"}],
           [Complete EXCEPT !.dependencies = {Dated(2, 5)}],
           [Complete EXCEPT !.dependencies = {Dated(Invalid, 0)}],
           [Complete EXCEPT !.predictionTime = Invalid],
           [Complete EXCEPT !.redTeam = [smurfing |-> 66]],
           [Complete EXCEPT !.overreliance = FALSE],
           [Complete EXCEPT !.prohibitedTarget = TRUE],
           [Complete EXCEPT !.provider.secrets = TRUE]}}
Unreadable == -1
GateFields == {"knownAt", "labelKnownAt"}
SmurfingRank == [smurfing |-> 65]
=============================================================================
