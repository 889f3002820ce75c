-------------------------- MODULE MCChartWorkspace --------------------------
(* Instances of the chart workspace for model checking.                      *)
EXTENDS ChartWorkspaceProperties

CONSTANTS n1, n2, r, wide, narrow

(* One relationship, which the narrow view hides.                            *)
OneEnds == r :> <<n1, n2>>
OneShown == (wide :> {r}) @@ (narrow :> {})

(* One search text: it matches a node and the relationship.                  *)
OneQuery == {"", "q"}
OneMatches == ("" :> {}) @@ ("q" :> {n1, r})

OneLabel == {"", "task"}

(* A session that added two entities, removed the first, added another, which*)
(* repeats the id of the second, linked it to a pinned node and took a note. *)
Second == <<"manual-entity", 2>>
EarlierSession ==
  {[EmptyContent EXCEPT
      !.pinned = <<n1>>, !.entities = <<Second, Second>>,
      !.edges = <<[id |-> <<"manual-edge", 1>>, from |-> n1, to |-> Second]>>,
      !.notes = 1, !.audit = <<<<"case-note-added", 1>>>>]}
=============================================================================
