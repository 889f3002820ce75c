--------------------------- MODULE VisibleGraph ---------------------------
(* The graph a workflow shows (graphSource of apps/web/app.mjs): nodes and   *)
(* relationships between two of them.  A view, that is a use case with the   *)
(* settings of its analysis, decides which relationships are visible; paths  *)
(* run along those, in either direction.                                     *)
EXTENDS Naturals, Sequences, FiniteSets

CONSTANTS
  Nodes,  \* source nodes
  Rels,   \* source relationships
  Ends,   \* the subject and the object of a relationship
  Views,  \* use cases with their settings
  Shown   \* the relationships visible in a view

ASSUME GraphAssumption ==
  /\ IsFiniteSet(Nodes)
  /\ Ends \in [Rels -> Nodes \X Nodes]
  /\ Shown \in [Views -> SUBSET Rels]

Joins(r, a, b) == Ends[r] \in {<<a, b>>, <<b, a>>}

Touches(r, node) == node \in {Ends[r][1], Ends[r][2]}

NoPath == [nodes |-> <<>>, rels |-> <<>>]

Extension(path, r, node) ==
  [nodes |-> Append(path.nodes, node), rels |-> Append(path.rels, r)]

LastNode(path) == path.nodes[Len(path.nodes)]

Visits(path, node) == \E i \in DOMAIN path.nodes : path.nodes[i] = node

Trivial(node) == [nodes |-> <<node>>, rels |-> <<>>]

LongerPaths(view, paths) ==
  {Extension(step[1], step[2], step[3]) : step \in
     {t \in paths \X Shown[view] \X Nodes :
        Joins(t[2], LastNode(t[1]), t[3]) /\ ~Visits(t[1], t[3])}}

(* The paths of n relationships from start that visit no node twice.         *)
SimplePaths(view, start) ==
  LET paths[n \in Nat] ==
        IF n = 0 THEN {Trivial(start)} ELSE LongerPaths(view, paths[n - 1])
  IN paths

(* What shortestPath may return: one of the paths with the fewest            *)
(* relationships, which one depends on the order of the rows; an empty path  *)
(* when end cannot be reached.                                               *)
ShortestPaths(view, start, end, bound) ==
  LET Reaching(n) == {p \in SimplePaths(view, start)[n] : LastNode(p) = end}
      shortest == {n \in 0..bound :
                     /\ Reaching(n) # {}
                     /\ \A k \in 0..(n - 1) : Reaching(k) = {}}
  IN IF shortest = {} THEN {NoPath} ELSE UNION {Reaching(n) : n \in shortest}
===========================================================================
