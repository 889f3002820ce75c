----------------------- MODULE GraphExplorationProofs ----------------------
(* Machine-checked proofs about the graph algorithms, for every finite graph *)
(* and every list of its relationships: the breadth-first search finds a     *)
(* shortest path and has less to do with every turn of its loops, components *)
(* are what paths connect and labels stay in them, chronological splits lose *)
(* no row, folds never look ahead and a biased model is held back.           *)
EXTENDS GraphExplorationProperties, DataLemmas, FiniteSetTheorems

-----------------------------------------------------------------------------
(* Paths.                                                                    *)

Walks == [nodes : Seq(Nodes), rels : Seq(Rels)]

LEMMA ExtendedWalks ==
  ASSUME NEW v \in Views, NEW paths \in SUBSET Walks
  PROVE  LongerPaths(v, paths) \in SUBSET Walks
PROOF
<1>1. Shown[v] \subseteq Rels
  BY GraphAssumption
<1>2. ASSUME NEW path \in Walks, NEW r \in Rels, NEW node \in Nodes
      PROVE  Extension(path, r, node) \in Walks
  BY DEF Extension, Walks
<1>. QED  BY <1>1, <1>2 DEF LongerPaths

(* The sets of simple paths obey the equation that defines them.             *)
LEMMA PathsByLength ==
  ASSUME NEW v \in Views, NEW s \in Nodes
  PROVE  /\ SimplePaths(v, s)[0] = {Trivial(s)}
         /\ \A n \in Nat : SimplePaths(v, s)[n + 1] = LongerPaths(v, SimplePaths(v, s)[n])
         /\ \A n \in Nat : SimplePaths(v, s)[n] \in SUBSET Walks
PROOF
<1>. DEFINE X == SUBSET Walks
            a == {Trivial(s)}
            step == [t \in X \X Nat |-> LongerPaths(v, t[1])]
            Defines(f) == f = [n \in Nat |->
                                 IF n = 0 THEN {Trivial(s)} ELSE LongerPaths(v, f[n - 1])]
<1>1. a \in X
  BY DEF Trivial, Walks
<1>2. step \in [X \X Nat -> X]
  BY ExtendedWalks
<1>3. PICK f : Iterates(f, X, a, step)
  <2>. HIDE DEF step, X, a
  <2>. QED  BY <1>1, <1>2, Iteration
<1>4. f \in [Nat -> X] /\ f[0] = a /\ \A n \in Nat : f[n + 1] = LongerPaths(v, f[n])
  <2>1. \A n \in Nat : f[n] \in X /\ n + 1 \in Nat /\ <<f[n], n + 1>> \in X \X Nat
    BY <1>3 DEF Iterates
  <2>. QED  BY <1>3, <2>1 DEF Iterates
<1>. HIDE DEF step
<1>5. Defines(f)
  <2>1. ASSUME NEW n \in Nat \ {0}  PROVE n - 1 \in Nat /\ (n - 1) + 1 = n
    OBVIOUS
  <2>2. \A n \in Nat : f[n] = IF n = 0 THEN {Trivial(s)} ELSE LongerPaths(v, f[n - 1])
    BY <1>4, <2>1
  <2>. QED  BY <1>4, <2>2
<1>6. SimplePaths(v, s) = CHOOSE g : Defines(g)
  BY DEF SimplePaths
<1>7. Defines(SimplePaths(v, s))
  <2>. HIDE DEF Defines
  <2>. QED  BY <1>5, <1>6
<1>. DEFINE paths == SimplePaths(v, s)
<1>. HIDE DEF paths
<1>8. \A n \in Nat : paths[n] = IF n = 0 THEN {Trivial(s)} ELSE LongerPaths(v, paths[n - 1])
  BY <1>7 DEF paths
<1>9. ASSUME NEW n \in Nat  PROVE  paths[n + 1] = LongerPaths(v, paths[n])
  <2>1. n + 1 \in Nat /\ n + 1 # 0 /\ (n + 1) - 1 = n
    OBVIOUS
  <2>. QED  BY <1>8, <2>1
<1>10. paths[0] = {Trivial(s)}
  BY <1>8
<1>. DEFINE S == {n \in Nat : paths[n] \in SUBSET Walks}
<1>11. 0 \in S
  BY <1>1, <1>10
<1>12. ASSUME NEW n \in Nat, n \in S  PROVE  n + 1 \in S
  BY <1>9, <1>12, ExtendedWalks
<1>. HIDE DEF S
<1>13. Nat \subseteq S
  BY <1>11, <1>12, Inductive
<1>. QED  BY <1>9, <1>10, <1>13 DEF paths, S

(* A path of n relationships has n + 1 nodes, all different.                 *)
PathOK(p, n) ==
  /\ p \in Walks
  /\ Len(p.nodes) = n + 1
  /\ Len(p.rels) = n
  /\ \A i, j \in DOMAIN p.nodes : p.nodes[i] = p.nodes[j] => i = j

LEMMA ExtensionOK ==
  ASSUME NEW n \in Nat, NEW p, PathOK(p, n), NEW r \in Rels, NEW node \in Nodes,
         ~Visits(p, node)
  PROVE  LET q == Extension(p, r, node)
         IN /\ PathOK(q, n + 1)
            /\ LastNode(q) = node
            /\ \A x : Visits(q, x) <=> Visits(p, x) \/ x = node
PROOF
<1>. DEFINE q == Extension(p, r, node)
<1>1. /\ q.nodes = Append(p.nodes, node) /\ q.rels = Append(p.rels, r)
      /\ q = [nodes |-> q.nodes, rels |-> q.rels]
      /\ p.nodes \in Seq(Nodes) /\ p.rels \in Seq(Rels)
      /\ Len(p.nodes) = n + 1 /\ Len(p.rels) = n
  BY DEF Extension, Walks, PathOK
<1>2. /\ q.nodes \in Seq(Nodes) /\ Len(q.nodes) = n + 2
      /\ DOMAIN p.nodes = 1..(n + 1) /\ DOMAIN q.nodes = 1..(n + 2)
      /\ \A i \in 1..(n + 1) : q.nodes[i] = p.nodes[i]
      /\ q.nodes[n + 2] = node
  BY <1>1, AppendProperties
<1>3. q.rels \in Seq(Rels) /\ Len(q.rels) = n + 1
  BY <1>1, AppendProperties
<1>. HIDE DEF q
<1>4. q \in Walks
  BY <1>1, <1>2, <1>3 DEF Walks
<1>5. \A i \in 1..(n + 2) : i # n + 2 => i \in 1..(n + 1)
  OBVIOUS
<1>6. \A i \in 1..(n + 1) : p.nodes[i] # node
  BY <1>2 DEF Visits
<1>7. \A i, j \in 1..(n + 2) : q.nodes[i] = q.nodes[j] => i = j
  BY <1>2, <1>5, <1>6 DEF PathOK
<1>8. PathOK(q, n + 1)
  BY <1>2, <1>3, <1>4, <1>7 DEF PathOK
<1>9. LastNode(q) = node
  BY <1>2 DEF LastNode
<1>10. \A i \in 1..(n + 1) : i \in 1..(n + 2)
  OBVIOUS
<1>11. \A x : Visits(q, x) <=> Visits(p, x) \/ x = node
  BY <1>2, <1>5, <1>10 DEF Visits
<1>. QED  BY <1>8, <1>9, <1>11 DEF q

LEMMA TrivialOK ==
  ASSUME NEW s \in Nodes
  PROVE  /\ PathOK(Trivial(s), 0)
         /\ LastNode(Trivial(s)) = s
         /\ \A x : Visits(Trivial(s), x) <=> x = s
PROOF
<1>1. Trivial(s).nodes = <<s>> /\ Trivial(s).rels = <<>> /\ Trivial(s) \in Walks
  BY DEF Trivial, Walks
<1>. QED  BY <1>1 DEF PathOK, LastNode, Visits

(* A longer path extends one that does not visit its last node.              *)
LEMMA LastStep ==
  ASSUME NEW v \in Views, NEW s \in Nodes, NEW n \in Nat, NEW p
  PROVE  p \in SimplePaths(v, s)[n + 1] <=>
           \E o \in SimplePaths(v, s)[n], r \in Shown[v], node \in Nodes :
             /\ Joins(r, LastNode(o), node) /\ ~Visits(o, node)
             /\ p = Extension(o, r, node)
PROOF
<1>. DEFINE paths == SimplePaths(v, s)
<1>1. paths[n + 1] = LongerPaths(v, paths[n])
  BY PathsByLength
<1>. HIDE DEF paths
<1>2. p \in LongerPaths(v, paths[n]) <=>
        \E o \in paths[n], r \in Shown[v], node \in Nodes :
             /\ Joins(r, LastNode(o), node) /\ ~Visits(o, node)
             /\ p = Extension(o, r, node)
  <2>. DEFINE Steps == paths[n] \X Shown[v] \X Nodes
              Fits(t) == Joins(t[2], LastNode(t[1]), t[3]) /\ ~Visits(t[1], t[3])
  <2>1. p \in LongerPaths(v, paths[n]) <=>
          \E t \in Steps : Fits(t) /\ p = Extension(t[1], t[2], t[3])
    BY DEF LongerPaths
  <2>2. ASSUME NEW t \in Steps
        PROVE  t[1] \in paths[n] /\ t[2] \in Shown[v] /\ t[3] \in Nodes
    OBVIOUS
  <2>3. ASSUME NEW o \in paths[n], NEW r \in Shown[v], NEW node \in Nodes
        PROVE  \E t \in Steps : t[1] = o /\ t[2] = r /\ t[3] = node
    <3>1. <<o, r, node>> \in Steps
      OBVIOUS
    <3>. QED  BY <3>1
  <2>. HIDE DEF Steps
  <2>. QED  BY <2>1, <2>2, <2>3
<1>. QED  BY <1>1, <1>2 DEF paths

LEMMA PathsOK ==
  ASSUME NEW v \in Views, NEW s \in Nodes, NEW n \in Nat,
         NEW p \in SimplePaths(v, s)[n]
  PROVE  PathOK(p, n)
PROOF
<1>. DEFINE paths == SimplePaths(v, s)
            T == {k \in Nat : \A q \in paths[k] : PathOK(q, k)}
<1>1. 0 \in T
  BY PathsByLength, TrivialOK
<1>2. ASSUME NEW k \in Nat, k \in T  PROVE  k + 1 \in T
  <2>. SUFFICES ASSUME NEW q \in paths[k + 1]  PROVE  PathOK(q, k + 1)
    OBVIOUS
  <2>1. PICK o \in paths[k], r \in Shown[v], node \in Nodes :
          ~Visits(o, node) /\ q = Extension(o, r, node)
    BY LastStep
  <2>2. PathOK(o, k) /\ r \in Rels
    BY <1>2, GraphAssumption
  <2>. QED  BY <2>1, <2>2, ExtensionOK
<1>. HIDE DEF T
<1>3. n \in T
  BY <1>1, <1>2, Inductive
<1>. QED  BY <1>3 DEF T

(* No path has as many relationships as there are nodes.                     *)
LEMMA PathsAreShort ==
  ASSUME NEW v \in Views, NEW s \in Nodes, NEW n \in Nat,
         NEW p \in SimplePaths(v, s)[n]
  PROVE  n < Cardinality(Nodes) /\ LastNode(p) \in Nodes
PROOF
<1>1. /\ p.nodes \in Seq(Nodes) /\ Len(p.nodes) = n + 1
      /\ \A i, j \in DOMAIN p.nodes : p.nodes[i] = p.nodes[j] => i = j
  BY PathsOK DEF PathOK, Walks
<1>2. DOMAIN p.nodes = 1..(n + 1) /\ LastNode(p) \in Nodes
  BY <1>1 DEF LastNode
<1>3. p.nodes \in [1..(n + 1) -> Nodes]
  BY <1>1, <1>2
<1>4. p.nodes \in Injection(1..(n + 1), Nodes)
  BY <1>1, <1>2, <1>3 DEF Injection, IsInjective
<1>5. IsFiniteSet(1..(n + 1)) /\ Cardinality(1..(n + 1)) = n + 1
  BY FS_Interval
<1>6. IsFiniteSet(Nodes) /\ Cardinality(Nodes) \in Nat
  BY GraphAssumption, FS_CardinalityType
<1>7. n + 1 <= Cardinality(Nodes)
  BY <1>4, <1>5, <1>6, FS_Injection
<1>. QED  BY <1>2, <1>6, <1>7

-----------------------------------------------------------------------------
(* The breadth-first search.                                                 *)

Paths(n) == SimplePaths(rows, start)[n]

Length(p) == Len(p.rels)

InputsOK == rows \in Views /\ start \in Nodes /\ end \in Nodes

(* What waits in the queue, shortest first, has visited nodes only, and no   *)
(* shorter path leads to where it ends.                                      *)
QueueOK ==
  /\ queue \in Seq(Walks)
  /\ \A i \in DOMAIN queue :
       /\ queue[i] \in Paths(Length(queue[i]))
       /\ \A x : Visits(queue[i], x) => x \in visited
       /\ \A k \in Nat : k < Length(queue[i]) =>
            \A o \in Paths(k) : LastNode(o) # LastNode(queue[i])
  /\ \A i, j \in DOMAIN queue :
       i <= j => /\ Length(queue[i]) <= Length(queue[j])
                 /\ Length(queue[j]) <= Length(queue[i]) + 1

(* The ends of all paths no longer than the one at hand are visited.         *)
Covered ==
  queue # <<>> => \A k \in 0..Length(Head(queue)) :
                    \A o \in Paths(k) : LastNode(o) \in visited

Adjacent(a, b) == \E i \in DOMAIN rows : Joins(rows[i], a, b)

(* A visited node waits in the queue or all its neighbours are visited, and  *)
(* those the rows before the one at hand join to the head are.               *)
Expanded ==
  /\ \A a \in visited :
       \/ \E i \in DOMAIN queue : LastNode(queue[i]) = a
       \/ \A b \in Nodes : Adjacent(a, b) => b \in visited
  /\ queue # <<>> =>
       \A i \in DOMAIN rows, b \in Nodes :
         i < next /\ Joins(rows[i], LastNode(Head(queue)), b) => b \in visited

SearchOK ==
  /\ next \in Nat \ {0}
  /\ visited \subseteq Nodes /\ start \in visited /\ end \notin visited
  /\ QueueOK /\ Covered /\ Expanded

Found == answer \in ShortestPaths(rows, start, end, Cardinality(Nodes))

SearchInv == InputsOK /\ IF Searching THEN SearchOK ELSE Found

(* The rows of a view are its relationships, and each has its two ends.      *)
LEMMA RowsAreShown ==
  ASSUME rows \in Views
  PROVE  /\ rows \in Seq(Rels) /\ \A i \in DOMAIN rows : rows[i] \in Shown[rows]
         /\ \A r \in Shown[rows] : \E i \in DOMAIN rows : rows[i] = r
         /\ \A i \in DOMAIN rows : rows[i] \in Rels /\ Ends[rows[i]] \in Nodes \X Nodes
PROOF
<1>1. rows \in Seq(Rels) /\ Shown[rows] = {rows[i] : i \in DOMAIN rows}
  BY ViewAssumption
<1>2. \A i \in DOMAIN rows : rows[i] \in Rels
  BY <1>1
<1>. QED  BY <1>1, <1>2, GraphAssumption

(* What a path without shorter ones, and the lack of paths, answer.          *)
LEMMA ShortestFound ==
  ASSUME InputsOK, NEW n \in Nat, NEW p \in Paths(n), LastNode(p) = end,
         \A k \in Nat : k < n => \A o \in Paths(k) : LastNode(o) # end
  PROVE  p \in ShortestPaths(rows, start, end, Cardinality(Nodes))
PROOF
<1>. DEFINE bound == Cardinality(Nodes)
            Reaching(k) == {o \in Paths(k) : LastNode(o) = end}
            shortest == {k \in 0..bound : /\ Reaching(k) # {}
                                          /\ \A l \in 0..(k - 1) : Reaching(l) = {}}
<1>1. n < bound /\ bound \in Nat
  BY PathsAreShort, GraphAssumption, FS_CardinalityType DEF InputsOK, Paths
<1>2. p \in Reaching(n) /\ n \in 0..bound
  BY <1>1
<1>3. \A l \in 0..(n - 1) : Reaching(l) = {}
  OBVIOUS
<1>4. n \in shortest
  BY <1>2, <1>3
<1>5. ShortestPaths(rows, start, end, bound)
        = IF shortest = {} THEN {NoPath} ELSE UNION {Reaching(k) : k \in shortest}
  BY DEF ShortestPaths, Paths
<1>. HIDE DEF shortest, Reaching
<1>. QED  BY <1>2, <1>4, <1>5

LEMMA NoneFound ==
  ASSUME InputsOK, \A k \in Nat : \A o \in Paths(k) : LastNode(o) # end
  PROVE  NoPath \in ShortestPaths(rows, start, end, Cardinality(Nodes))
PROOF
<1>. DEFINE bound == Cardinality(Nodes)
            Reaching(k) == {o \in Paths(k) : LastNode(o) = end}
            shortest == {k \in 0..bound : /\ Reaching(k) # {}
                                          /\ \A l \in 0..(k - 1) : Reaching(l) = {}}
<1>1. bound \in Nat
  BY GraphAssumption, FS_CardinalityType
<1>2. \A k \in 0..bound : Reaching(k) = {}
  BY <1>1
<1>3. ShortestPaths(rows, start, end, bound)
        = IF shortest = {} THEN {NoPath} ELSE UNION {Reaching(k) : k \in shortest}
  BY DEF ShortestPaths, Paths
<1>. HIDE DEF Reaching
<1>. QED  BY <1>2, <1>3

LEMMA SearchInit == Init => SearchInv
PROOF
<1>. SUFFICES ASSUME Init  PROVE SearchInv
  OBVIOUS
<1>1. rows \in Views /\ start \in Nodes /\ end \in Nodes
  BY ViewAssumption, GraphAssumption DEF Init, NoSearch
<1>2. start # end => answer = Unknown
  BY DEF Init
<1>3. start = end => answer = Trivial(start) /\ ~Searching
  BY DEF Init, StartPath, Trivial, Unknown, Searching
<1>4. /\ Trivial(start) \in Paths(0) /\ \A o \in Paths(0) : o = Trivial(start)
      /\ LastNode(Trivial(start)) = start
      /\ \A x : Visits(Trivial(start), x) => x = start
      /\ Trivial(start) \in Walks /\ Length(Trivial(start)) = 0
  BY <1>1, PathsByLength, TrivialOK DEF Paths, PathOK, Length
<1>5. CASE start = end
  <2>1. \A k \in Nat : k < 0 => \A o \in Paths(k) : LastNode(o) # end
    OBVIOUS
  <2>2. Found
    BY <1>1, <1>3, <1>4, <1>5, <2>1, ShortestFound DEF InputsOK, Found
  <2>. QED  BY <1>1, <1>3, <1>5, <2>2 DEF SearchInv, InputsOK
<1>6. CASE start # end
  <2>1. queue = <<Trivial(start)>> /\ visited = {start} /\ next = 1
    BY DEF Init, StartPath
  <2>2. /\ queue \in Seq(Walks) /\ Head(queue) = Trivial(start)
        /\ \A i \in DOMAIN queue : queue[i] = Trivial(start)
        /\ 1 \in DOMAIN queue /\ queue[1] = Trivial(start)
    BY <1>4, <2>1
  <2>3. QueueOK
    BY <1>4, <2>1, <2>2 DEF QueueOK
  <2>4. Covered
    BY <1>4, <2>1, <2>2 DEF Covered
  <2>5. Expanded
    <3>1. \A i \in DOMAIN rows : ~(i < 1)
      BY <1>1, RowsAreShown
    <3>. QED  BY <1>4, <2>1, <2>2, <3>1 DEF Expanded
  <2>6. SearchOK
    BY <1>1, <1>6, <2>1, <2>3, <2>4, <2>5 DEF SearchOK
  <2>. QED  BY <1>1, <1>2, <1>6, <2>6 DEF SearchInv, InputsOK, Searching
<1>. QED  BY <1>5, <1>6

(* At a row that meets the current path's end, Opposite is its other end.    *)
LEMMA RowEnds ==
  ASSUME rows \in Views, next \in DOMAIN rows
  PROVE  \A b : Joins(rows[next], LastNode(Current), b)
                  <=> Meets(rows[next], LastNode(Current)) /\ b = Opposite
PROOF
<1>1. Ends[rows[next]] \in Nodes \X Nodes
  BY RowsAreShown
<1>2. PICK x \in Nodes, y \in Nodes : Ends[rows[next]] = <<x, y>>
  BY <1>1
<1>. QED  BY <1>2 DEF Joins, Meets, Touches, Opposite

LEMMA SkipRowOK ==
  ASSUME SearchInv, SkipRow  PROVE  SearchInv'
PROOF
<1>1. /\ InputsOK /\ SearchOK /\ Searching
      /\ next \in 1..Len(rows) /\ queue # <<>>
      /\ next' = next + 1 /\ UNCHANGED <<rows, start, end, queue, visited, answer>>
  BY DEF SearchInv, SkipRow, AtRow, SearchOK, inputs
<1>2. next \in DOMAIN rows
  BY <1>1, RowsAreShown DEF InputsOK
<1>3. \A b : Joins(rows[next], LastNode(Head(queue)), b) => b \in visited
  BY <1>1, <1>2, RowEnds DEF SkipRow, Skips, InputsOK, Current
<1>4. Expanded'
  <2>1. \A i \in DOMAIN rows : i < next + 1 => i < next \/ i = next
    BY <1>1, RowsAreShown DEF InputsOK
  <2>2. Expanded
    BY <1>1 DEF SearchOK
  <2>3. \A i \in DOMAIN rows, b \in Nodes :
          i < next + 1 /\ Joins(rows[i], LastNode(Head(queue)), b) => b \in visited
    BY <1>1, <1>3, <2>1, <2>2 DEF Expanded
  <2>. QED  BY <1>1, <2>2, <2>3 DEF Expanded, Adjacent
<1>5. QueueOK' /\ Covered'
  BY <1>1 DEF SearchOK, QueueOK, Covered, Paths
<1>6. SearchOK'
  BY <1>1, <1>4, <1>5 DEF SearchOK
<1>. QED  BY <1>1, <1>6 DEF SearchInv, InputsOK, Searching

(* The path one row longer than the current one.                             *)
LEMMA NextPath ==
  ASSUME SearchInv, AtRow, ~Skips
  PROVE  LET p == Extension(Current, rows[next], Opposite)
             n == Length(Current) + 1
         IN /\ n \in Nat /\ p \in Paths(n) /\ p \in Walks
            /\ Length(p) = n /\ LastNode(p) = Opposite /\ Opposite \in Nodes
            /\ \A x : Visits(p, x) => x \in visited \cup {Opposite}
            /\ \A k \in Nat : k < n => \A o \in Paths(k) : LastNode(o) \in visited
PROOF
<1>. DEFINE p == Extension(Current, rows[next], Opposite)
            n == Length(Current)
<1>1. /\ InputsOK /\ SearchOK /\ Searching
      /\ next \in 1..Len(rows) /\ queue # <<>>
  BY DEF SearchInv, AtRow, SearchOK
<1>2. next \in DOMAIN rows /\ rows[next] \in Rels /\ rows[next] \in Shown[rows]
  BY <1>1, RowsAreShown DEF InputsOK
<1>3. /\ Joins(rows[next], LastNode(Current), Opposite) /\ Opposite \notin visited
      /\ Opposite \in Nodes
  BY <1>1, <1>2, RowEnds, RowsAreShown DEF Skips, InputsOK, Opposite
<1>4. /\ queue \in Seq(Walks) /\ 1 \in DOMAIN queue /\ Current = queue[1]
  BY <1>1 DEF SearchOK, QueueOK, Current
<1>5. /\ Current \in Paths(n) /\ Current \in Walks
      /\ \A x : Visits(Current, x) => x \in visited
  BY <1>1, <1>4 DEF SearchOK, QueueOK
<1>6. n \in Nat
  BY <1>5 DEF Length, Walks
<1>7. PathOK(Current, n)
  BY <1>1, <1>5, <1>6, PathsOK DEF InputsOK, Paths
<1>8. ~Visits(Current, Opposite)
  BY <1>3, <1>5
<1>9. /\ PathOK(p, n + 1) /\ LastNode(p) = Opposite
      /\ \A x : Visits(p, x) <=> Visits(Current, x) \/ x = Opposite
  BY <1>2, <1>3, <1>6, <1>7, <1>8, ExtensionOK
<1>10. p \in Paths(n + 1)
  BY <1>1, <1>2, <1>3, <1>5, <1>6, <1>8, LastStep DEF InputsOK, Paths
<1>11. \A k \in 0..n : \A o \in Paths(k) : LastNode(o) \in visited
  BY <1>1 DEF SearchOK, Covered, Current
<1>12. \A k \in Nat : k < n + 1 => k \in 0..n
  BY <1>6
<1>. HIDE DEF p, n
<1>13. p \in Walks /\ Length(p) = n + 1
  BY <1>9 DEF PathOK, Length
<1>. QED  BY <1>3, <1>5, <1>6, <1>9, <1>10, <1>11, <1>12, <1>13 DEF p, n

LEMMA ArriveOK ==
  ASSUME SearchInv, Arrive  PROVE  SearchInv'
PROOF
<1>1. /\ InputsOK /\ SearchOK /\ AtRow /\ ~Skips /\ Opposite = end
      /\ answer' = Extension(Current, rows[next], Opposite)
      /\ UNCHANGED <<rows, start, end>>
  BY DEF SearchInv, Arrive, AtRow, inputs
<1>. DEFINE n == Length(Current) + 1
<1>2. /\ n \in Nat /\ answer' \in Paths(n) /\ answer' \in Walks
      /\ LastNode(answer') = end
      /\ \A k \in Nat : k < n => \A o \in Paths(k) : LastNode(o) # end
      /\ Len(answer'.rels) = n
  BY <1>1, NextPath DEF SearchOK, Length
<1>. HIDE DEF n
<1>3. answer' \in ShortestPaths(rows, start, end, Cardinality(Nodes))
  BY <1>1, <1>2, ShortestFound
<1>4. PathOK(answer', n)
  BY <1>1, <1>2, PathsOK DEF InputsOK, Paths
<1>5. answer'.nodes # <<>>
  BY <1>2, <1>4 DEF PathOK, Walks
<1>6. answer' # Unknown
  BY <1>5 DEF Unknown
<1>. QED  BY <1>1, <1>3, <1>6 DEF SearchInv, InputsOK, Searching, Found

LEMMA FollowOK ==
  ASSUME SearchInv, Follow  PROVE  SearchInv'
PROOF
<1>. DEFINE p == Extension(Current, rows[next], Opposite)
            n == Length(Current) + 1
            m == Len(queue)
<1>1. /\ InputsOK /\ SearchOK /\ Searching /\ AtRow /\ ~Skips /\ Opposite # end
      /\ next \in 1..Len(rows) /\ queue # <<>>
      /\ visited' = visited \cup {Opposite} /\ queue' = Append(queue, p)
      /\ next' = next + 1 /\ UNCHANGED <<rows, start, end, answer>>
  BY DEF SearchInv, Follow, AtRow, SearchOK, inputs
<1>2. /\ n \in Nat /\ p \in Paths(n) /\ p \in Walks
      /\ Length(p) = n /\ LastNode(p) = Opposite /\ Opposite \in Nodes
      /\ \A x : Visits(p, x) => x \in visited \cup {Opposite}
      /\ \A k \in Nat : k < n => \A o \in Paths(k) : LastNode(o) \in visited
  BY <1>1, NextPath
<1>3. queue \in Seq(Walks) /\ Current = queue[1]
  BY <1>1 DEF SearchOK, QueueOK, Current
<1>4. Opposite \notin visited
  BY <1>1 DEF Skips
<1>5. n = Length(queue[1]) + 1
  BY <1>3
<1>. DEFINE last == Opposite
<1>. HIDE DEF p, n, last
<1>6. /\ m \in Nat /\ 1 \in 1..m /\ DOMAIN queue = 1..m
      /\ queue' \in Seq(Walks) /\ DOMAIN queue' = 1..(m + 1)
      /\ \A i \in 1..m : queue'[i] = queue[i]
      /\ queue'[m + 1] = p /\ queue' # <<>> /\ Head(queue') = Head(queue)
      /\ Head(queue) = queue[1]
  BY <1>1, <1>2, <1>3
<1>. HIDE DEF m
<1>7. QueueOK'
  <2>1. ASSUME NEW i \in 1..(m + 1)
        PROVE  /\ queue'[i] \in Paths(Length(queue'[i]))
               /\ \A x : Visits(queue'[i], x) => x \in visited'
               /\ \A k \in Nat : k < Length(queue'[i]) =>
                    \A o \in Paths(k) : LastNode(o) # LastNode(queue'[i])
    <3>1. CASE i = m + 1
      BY <1>1, <1>2, <1>4, <1>6, <3>1
    <3>2. CASE i # m + 1
      <4>1. i \in 1..m
        BY <1>6, <3>2
      <4>. QED  BY <1>1, <1>6, <4>1 DEF SearchOK, QueueOK
    <3>. QED  BY <3>1, <3>2
  <2>2. ASSUME NEW i \in 1..(m + 1), NEW j \in 1..(m + 1), i <= j
        PROVE  /\ Length(queue'[i]) <= Length(queue'[j])
               /\ Length(queue'[j]) <= Length(queue'[i]) + 1
    <3>1. \A k \in 1..m : /\ Length(queue[k]) \in Nat
                          /\ Length(queue[1]) <= Length(queue[k])
                          /\ Length(queue[k]) <= Length(queue[1]) + 1
      <4>1. \A k \in 1..m : queue[k] \in Walks
        BY <1>3, <1>6
      <4>2. \A k \in 1..m : Length(queue[k]) \in Nat
        BY <4>1 DEF Walks, Length
      <4>3. \A k \in 1..m : 1 <= k
        OBVIOUS
      <4>. QED  BY <1>1, <1>6, <4>2, <4>3 DEF SearchOK, QueueOK
    <3>2. CASE j # m + 1
      <4>1. i \in 1..m /\ j \in 1..m
        BY <1>6, <2>2, <3>2
      <4>. QED  BY <1>1, <1>6, <2>2, <4>1 DEF SearchOK, QueueOK
    <3>3. CASE j = m + 1 /\ i = m + 1
      BY <1>2, <1>6, <3>3
    <3>4. CASE j = m + 1 /\ i # m + 1
      <4>1. i \in 1..m
        BY <1>6, <3>4
      <4>. QED  BY <1>2, <1>5, <1>6, <3>1, <3>4, <4>1
    <3>. QED  BY <3>2, <3>3, <3>4
  <2>. QED  BY <1>1, <1>6, <2>1, <2>2 DEF QueueOK, Paths
<1>8. Covered'
  BY <1>1, <1>6 DEF SearchOK, Covered, Paths
<1>9. Expanded'
  <2>1. Expanded /\ \A i \in DOMAIN rows : i < next + 1 => i < next \/ i = next
    BY <1>1, RowsAreShown DEF InputsOK, SearchOK
  <2>2. next \in DOMAIN rows
    BY <1>1, RowsAreShown DEF InputsOK
  <2>3. \A b : Joins(rows[next], LastNode(Head(queue)), b) => b \in visited'
    BY <1>1, <2>2, RowEnds DEF InputsOK, Current
  <2>4. \A i \in DOMAIN rows, b \in Nodes :
          i < next + 1 /\ Joins(rows[i], LastNode(Head(queue)), b) => b \in visited'
    BY <1>1, <2>1, <2>3 DEF Expanded
  <2>5. ASSUME NEW a \in visited'
        PROVE  \/ \E i \in DOMAIN queue' : LastNode(queue'[i]) = a
               \/ \A b \in Nodes : Adjacent(a, b) => b \in visited'
    <3>1. CASE a = Opposite
      <4>1. m + 1 \in DOMAIN queue' /\ LastNode(queue'[m + 1]) = a
        BY <1>2, <1>6, <3>1
      <4>. QED  BY <4>1
    <3>2. CASE a \in visited
      <4>1. \A i \in 1..m : i \in 1..(m + 1)
        BY <1>6
      <4>. QED  BY <1>1, <1>6, <2>1, <3>2, <4>1 DEF Expanded
    <3>. QED  BY <1>1, <3>1, <3>2
  <2>. QED  BY <1>1, <1>6, <2>4, <2>5 DEF Expanded, Adjacent
<1>10. SearchOK'
  BY <1>1, <1>2, <1>7, <1>8, <1>9 DEF SearchOK
<1>. QED  BY <1>1, <1>10 DEF SearchInv, InputsOK, Searching

LEMMA DequeueOK ==
  ASSUME SearchInv, Dequeue  PROVE  SearchInv'
PROOF
<1>. DEFINE m == Len(queue)
            d == Length(queue[1])
<1>1. /\ InputsOK /\ SearchOK /\ Searching /\ queue # <<>> /\ next > Len(rows)
      /\ queue' = Tail(queue) /\ next' = 1
      /\ UNCHANGED <<rows, start, end, visited, answer>>
  BY DEF SearchInv, Dequeue, ShiftedQueue, SearchOK, inputs
<1>2. queue \in Seq(Walks) /\ Current = queue[1]
  BY <1>1 DEF SearchOK, QueueOK, Current
<1>3. /\ m \in Nat \ {0} /\ DOMAIN queue = 1..m
      /\ queue' \in Seq(Walks) /\ DOMAIN queue' = 1..(m - 1)
      /\ \A i \in 1..(m - 1) : queue'[i] = queue[i + 1] /\ i + 1 \in 1..m
      /\ \A i \in 1..m : i # 1 => i - 1 \in 1..(m - 1) /\ queue'[i - 1] = queue[i]
      /\ 1 \in 1..m /\ Head(queue) = queue[1]
      /\ queue' # <<>> => 1 \in 1..(m - 1) /\ Head(queue') = queue[2] /\ 2 \in 1..m
  BY <1>1, <1>2
<1>. HIDE DEF m
<1>4. \A i \in 1..m : queue[i] \in Walks /\ Length(queue[i]) \in Nat
  <2>1. \A i \in 1..m : queue[i] \in Walks
    BY <1>2, <1>3
  <2>. QED  BY <2>1 DEF Walks, Length
<1>5. QueueOK'
  <2>1. \A i, j \in 1..(m - 1) : i <= j => i + 1 <= j + 1
    OBVIOUS
  <2>. QED  BY <1>1, <1>3, <2>1 DEF SearchOK, QueueOK, Paths
<1>6. \A b \in Nodes : Adjacent(LastNode(queue[1]), b) => b \in visited
  <2>1. \A i \in DOMAIN rows : i < next
    BY <1>1, RowsAreShown DEF InputsOK, SearchOK
  <2>. QED  BY <1>1, <1>3, <2>1 DEF SearchOK, Expanded, Adjacent
<1>7. Expanded'
  <2>1. ASSUME NEW a \in visited
        PROVE  \/ \E i \in DOMAIN queue' : LastNode(queue'[i]) = a
               \/ \A b \in Nodes : Adjacent(a, b) => b \in visited
    <3>1. \/ \E i \in DOMAIN queue : LastNode(queue[i]) = a
          \/ \A b \in Nodes : Adjacent(a, b) => b \in visited
      BY <1>1 DEF SearchOK, Expanded
    <3>. QED  BY <1>3, <1>6, <3>1
  <2>2. \A i \in DOMAIN rows : ~(i < 1)
    BY <1>1, RowsAreShown DEF InputsOK
  <2>. QED  BY <1>1, <2>1, <2>2 DEF Expanded, Adjacent
<1>8. Covered'
  <2>. SUFFICES ASSUME queue' # <<>>, NEW k \in 0..Length(queue[2]), NEW o \in Paths(k)
                PROVE  LastNode(o) \in visited
    BY <1>1, <1>3 DEF Covered, Paths
  <2>1. \A l \in 0..d : \A q \in Paths(l) : LastNode(q) \in visited
    BY <1>1, <1>3 DEF SearchOK, Covered
  <2>2. Length(queue[2]) \in Nat /\ d \in Nat /\ d <= Length(queue[2])
        /\ Length(queue[2]) <= d + 1
    <3>1. 1 \in 1..m /\ 2 \in 1..m /\ 1 <= 2
      BY <1>3
    <3>. QED  BY <1>1, <1>3, <1>4, <3>1 DEF SearchOK, QueueOK
  <2>. HIDE DEF d
  <2>3. CASE k \in 0..d
    BY <2>1, <2>3
  <2>4. CASE k \notin 0..d
    <3>1. k = d + 1 /\ Length(queue[2]) = d + 1
      BY <2>2, <2>4
    <3>2. PICK q \in Paths(d), r \in Shown[rows], node \in Nodes :
            Joins(r, LastNode(q), node) /\ ~Visits(q, node) /\ o = Extension(q, r, node)
      <4>1. o \in SimplePaths(rows, start)[d + 1]
        BY <3>1 DEF Paths
      <4>. QED  BY <1>1, <2>2, <4>1, LastStep DEF InputsOK, Paths
    <3>3. LastNode(o) = node
      <4>1. PathOK(q, d) /\ r \in Rels
        BY <1>1, <2>2, PathsOK, GraphAssumption DEF InputsOK, Paths
      <4>. QED  BY <2>2, <3>2, <4>1, ExtensionOK
    <3>4. Adjacent(LastNode(q), node)
      BY <1>1, <3>2, RowsAreShown DEF InputsOK, Adjacent
    <3>5. LastNode(q) \in visited
      BY <2>1, <2>2
    <3>6. ~\E i \in DOMAIN queue' : LastNode(queue'[i]) = LastNode(q)
      <4>1. SUFFICES ASSUME NEW i \in 1..(m - 1), LastNode(queue[i + 1]) = LastNode(q)
                     PROVE  FALSE
        BY <1>3
      <4>2. i + 1 \in 1..m /\ 2 <= i + 1
        BY <1>3
      <4>3. Length(queue[2]) <= Length(queue[i + 1])
        BY <1>1, <1>3, <4>2 DEF SearchOK, QueueOK
      <4>4. d < Length(queue[i + 1])
        BY <1>4, <2>2, <3>1, <4>2, <4>3
      <4>. QED  BY <1>1, <1>3, <2>2, <4>1, <4>2, <4>4 DEF SearchOK, QueueOK
    <3>7. \A b \in Nodes : Adjacent(LastNode(q), b) => b \in visited
      BY <1>1, <1>7, <3>5, <3>6 DEF Expanded, Adjacent
    <3>. QED  BY <3>3, <3>4, <3>7
  <2>. QED  BY <2>3, <2>4
<1>9. SearchOK'
  BY <1>1, <1>5, <1>7, <1>8 DEF SearchOK
<1>. QED  BY <1>1, <1>9 DEF SearchInv, InputsOK, Searching

(* With nothing left to extend, the visited nodes are all that can be reached.*)
LEMMA GiveUpOK ==
  ASSUME SearchInv, GiveUp  PROVE  SearchInv'
PROOF
<1>1. /\ InputsOK /\ SearchOK /\ queue = <<>> /\ answer' = NoPath
      /\ UNCHANGED <<rows, start, end>>
  BY DEF SearchInv, GiveUp, inputs
<1>2. \A a \in visited : \A b \in Nodes : Adjacent(a, b) => b \in visited
  BY <1>1 DEF SearchOK, Expanded
<1>. DEFINE T == {k \in Nat : \A o \in Paths(k) : LastNode(o) \in visited}
<1>3. 0 \in T
  BY <1>1, PathsByLength, TrivialOK DEF InputsOK, SearchOK, Paths
<1>4. ASSUME NEW k \in Nat, k \in T  PROVE k + 1 \in T
  <2>. SUFFICES ASSUME NEW o \in Paths(k + 1)  PROVE LastNode(o) \in visited
    OBVIOUS
  <2>1. PICK q \in Paths(k), r \in Shown[rows], node \in Nodes :
          Joins(r, LastNode(q), node) /\ ~Visits(q, node) /\ o = Extension(q, r, node)
    BY <1>1, LastStep DEF InputsOK, Paths
  <2>2. PathOK(q, k) /\ r \in Rels
    BY <1>1, PathsOK, GraphAssumption DEF InputsOK, Paths
  <2>3. LastNode(o) = node
    BY <2>1, <2>2, ExtensionOK
  <2>4. Adjacent(LastNode(q), node)
    BY <1>1, <2>1, RowsAreShown DEF InputsOK, Adjacent
  <2>. QED  BY <1>2, <1>4, <2>3, <2>4
<1>. HIDE DEF T
<1>5. Nat \subseteq T
  BY <1>3, <1>4, Inductive
<1>6. \A k \in Nat : \A o \in Paths(k) : LastNode(o) # end
  BY <1>1, <1>5 DEF T, SearchOK
<1>7. NoPath \in ShortestPaths(rows, start, end, Cardinality(Nodes))
  BY <1>1, <1>6, NoneFound
<1>8. NoPath # Unknown
  BY DEF NoPath, Unknown
<1>. QED  BY <1>1, <1>7, <1>8 DEF SearchInv, InputsOK, Searching, Found

LEMMA SearchNext == SearchInv /\ [Next]_vars => SearchInv'
PROOF
<1>. SUFFICES ASSUME SearchInv, [Next]_vars  PROVE SearchInv'
  OBVIOUS
<1>1. CASE UNCHANGED vars
  BY <1>1 DEF vars, SearchInv, InputsOK, Searching, Found, SearchOK, QueueOK,
     Covered, Expanded, Paths, Adjacent
<1>. QED  BY <1>1, SkipRowOK, ArriveOK, FollowOK, DequeueOK, GiveUpOK DEF Next

(* The search returns a path with as few relationships as any along visible  *)
(* rows, or says that there is none when there is none, for every graph,     *)
(* order of its rows and pair of ends.                                       *)
THEOREM SearchFindsShortest == Spec => []FindsShortestPath
PROOF
<1>1. SearchInv => FindsShortestPath
  BY DEF SearchInv, FindsShortestPath, Found
<1>. QED  BY <1>1, SearchInit, SearchNext, PTL DEF Spec

(* The scan stays within the rows.                                           *)
NextOK == next \in 1..(Len(rows) + 1)

LEMMA ScanStaysInside ==
  /\ Init => NextOK
  /\ SearchInv /\ NextOK /\ [Next]_vars => NextOK'
PROOF
<1>1. ASSUME Init  PROVE NextOK
  <2>1. Len(rows) \in Nat
    BY <1>1, ViewAssumption DEF Init
  <2>2. next = 1
    BY <1>1 DEF Init
  <2>. QED  BY <2>1, <2>2 DEF NextOK
<1>2. ASSUME SearchInv, NextOK, [Next]_vars  PROVE NextOK'
  <2>1. rows' = rows /\ Len(rows) \in Nat
    <3>1. rows \in Views
      BY <1>2 DEF SearchInv, InputsOK
    <3>. QED
      BY <1>2, <3>1, ViewAssumption DEF Next, SkipRow, Arrive, Follow, Dequeue, GiveUp, inputs, vars
  <2>2. next \in 1..(Len(rows) + 1)
    BY <1>2 DEF NextOK
  <2>3. next' \in 1..(Len(rows) + 1)
    BY <1>2, <2>1, <2>2 DEF Next, SkipRow, Arrive, Follow, Dequeue, GiveUp, AtRow, vars
  <2>. QED  BY <2>1, <2>3 DEF NextOK
<1>. QED  BY <1>1, <1>2

(* What is left while the search goes on, of its parts.                      *)
LEMMA WorkOf ==
  ASSUME NEW n \in Nat, NEW q \in Nat, NEW l \in Nat, NEW i \in 1..(l + 1)
  PROVE  /\ (n + q) * (l + 2) \in Nat
         /\ 0 < (n + q) * (l + 2) + l + 2 - i
         /\ (n + q) * (l + 2) = (n + q + 1) * (l + 2) - l - 2
PROOF
<1>1. n + q \in Nat /\ l + 2 \in Nat
  OBVIOUS
<1>2. (n + q) * (l + 2) \in Nat
  BY <1>1
<1>3. (n + q + 1) * (l + 2) = (n + q) * (l + 2) + l + 2
  BY <1>1
<1>. QED  BY <1>2, <1>3

LEMMA WorkIsNat == SearchInv /\ NextOK => WorkLeft \in Nat
PROOF
<1>. SUFFICES ASSUME SearchInv, NextOK  PROVE  WorkLeft \in Nat
  OBVIOUS
<1>1. CASE ~Searching
  BY <1>1 DEF WorkLeft
<1>2. CASE Searching
  <2>1. PICK l \in Nat : l = Len(rows)
    BY ViewAssumption DEF SearchInv, InputsOK
  <2>2. PICK i \in 1..(l + 1) : i = next
    BY <2>1 DEF NextOK
  <2>3. PICK q \in Nat : q = Len(queue)
    BY <1>2 DEF SearchInv, SearchOK, QueueOK
  <2>4. PICK n \in Nat : n = Cardinality(Nodes \ visited)
    BY GraphAssumption, FS_Difference, FS_CardinalityType
  <2>5. WorkLeft = (n + q) * (l + 2) + l + 2 - i
    BY <1>2, <2>1, <2>2, <2>3, <2>4 DEF WorkLeft
  <2>6. (n + q) * (l + 2) \in Nat
    BY WorkOf
  <2>. QED  BY <2>5, <2>6
<1>. QED  BY <1>1, <1>2

LEMMA LessIsLeft ==
  ASSUME SearchInv, NextOK, Next  PROVE  WorkLeft' < WorkLeft
PROOF
<1>1. PICK l \in Nat : l = Len(rows) /\ rows' = rows
  BY ViewAssumption
     DEF SearchInv, InputsOK, Next, SkipRow, Arrive, Follow, Dequeue, GiveUp, inputs
<1>2. Searching /\ SearchOK /\ InputsOK
  BY DEF SearchInv, Next, SkipRow, Arrive, Follow, Dequeue, GiveUp, AtRow
<1>3. PICK i \in 1..(l + 1) : i = next
  BY <1>1 DEF NextOK
<1>4. PICK q \in Nat : q = Len(queue) /\ queue \in Seq(Walks)
  BY <1>2 DEF SearchOK, QueueOK
<1>5. IsFiniteSet(Nodes) /\ IsFiniteSet(Nodes \ visited)
  BY GraphAssumption, FS_Difference
<1>6. PICK n \in Nat : n = Cardinality(Nodes \ visited)
  BY <1>5, FS_CardinalityType
<1>7. WorkLeft = (n + q) * (l + 2) + l + 2 - i /\ 0 < WorkLeft
  <2>1. WorkLeft = (n + q) * (l + 2) + l + 2 - i
    BY <1>1, <1>2, <1>3, <1>4, <1>6 DEF WorkLeft
  <2>. QED  BY <2>1, WorkOf
<1>8. (n + q) * (l + 2) \in Nat
  BY WorkOf
<1>9. ASSUME answer' # Unknown  PROVE WorkLeft' < WorkLeft
  <2>1. WorkLeft' = 0
    BY <1>9 DEF WorkLeft, Searching
  <2>. QED  BY <1>7, <2>1
<1>10. CASE SkipRow
  <2>1. WorkLeft' = (n + q) * (l + 2) + l + 2 - (i + 1)
    BY <1>1, <1>2, <1>3, <1>4, <1>6, <1>10 DEF WorkLeft, Searching, SkipRow, inputs
  <2>. QED  BY <1>7, <1>8, <2>1
<1>11. CASE Arrive
  <2>1. answer' = Extension(Current, rows[next], end) /\ Current \in Walks
    <3>1. queue # <<>>
      BY <1>11 DEF Arrive, AtRow
    <3>. QED  BY <1>4, <1>11, <3>1 DEF Arrive, Current
  <2>2. answer'.nodes # <<>>
    BY <2>1 DEF Extension, Walks
  <2>. QED  BY <1>9, <2>2 DEF Unknown
<1>12. CASE Follow
  <2>1. /\ ~Skips /\ visited' = visited \cup {Opposite}
        /\ queue' = Append(queue, Extension(Current, rows[next], Opposite))
        /\ next' = next + 1 /\ answer' = answer /\ AtRow
    BY <1>12 DEF Follow, inputs
  <2>2. Opposite \in Nodes \ visited
    BY <1>2, <2>1, NextPath DEF Skips
  <2>3. Nodes \ visited' = (Nodes \ visited) \ {Opposite}
    BY <2>1
  <2>4. Cardinality(Nodes \ visited') = n - 1
    BY <1>5, <1>6, <2>2, <2>3, FS_RemoveElement
  <2>5. Len(queue') = q + 1
    BY <1>4, <2>1
  <2>6. (n - 1) + (q + 1) = n + q
    OBVIOUS
  <2>7. WorkLeft' = ((n - 1) + (q + 1)) * (l + 2) + l + 2 - (i + 1)
    BY <1>1, <1>2, <1>3, <2>1, <2>4, <2>5 DEF WorkLeft, Searching
  <2>. QED  BY <1>7, <1>8, <2>6, <2>7
<1>13. CASE Dequeue
  <2>1. /\ queue # <<>> /\ next > Len(rows) /\ queue' = Tail(queue) /\ next' = 1
        /\ visited' = visited /\ answer' = answer
    BY <1>13 DEF Dequeue, ShiftedQueue, inputs
  <2>2. q # 0 /\ Len(queue') = q - 1 /\ q - 1 \in Nat
    BY <1>4, <2>1
  <2>3. i = l + 1
    BY <1>1, <1>3, <2>1
  <2>4. WorkLeft' = (n + (q - 1)) * (l + 2) + l + 2 - 1
    BY <1>1, <1>2, <1>6, <2>1, <2>2 DEF WorkLeft, Searching
  <2>5. (n + (q - 1)) * (l + 2) = (n + (q - 1) + 1) * (l + 2) - l - 2
    BY <1>3, <2>2, WorkOf
  <2>6. n + (q - 1) + 1 = n + q
    OBVIOUS
  <2>7. (n + (q - 1)) * (l + 2) = (n + q) * (l + 2) - l - 2
    BY <2>5, <2>6
  <2>. QED  BY <1>7, <1>8, <2>3, <2>4, <2>7
<1>14. CASE GiveUp
  BY <1>9, <1>14 DEF GiveUp, NoPath, Unknown
<1>. QED  BY <1>10, <1>11, <1>12, <1>13, <1>14 DEF Next

(* Every turn leaves less of a number of turns that is never negative: the   *)
(* search cannot run for ever, over cycles, loops and repeated rows.         *)
THEOREM SearchRunsOutOfWork == Spec => WorkRunsOut
PROOF
<1>1. SearchInv /\ NextOK /\ [Next]_vars /\ (WorkLeft \in Nat)'
        => [WorkLeft' \in 0..(WorkLeft - 1)]_vars
  BY LessIsLeft, WorkIsNat
<1>2. Init => SearchInv /\ NextOK
  BY SearchInit, ScanStaysInside
<1>3. SearchInv /\ NextOK /\ [Next]_vars => (SearchInv /\ NextOK)'
  BY SearchNext, ScanStaysInside
<1>4. SearchInv /\ NextOK => WorkLeft \in Nat
  BY WorkIsNat
<1>. QED  BY <1>1, <1>2, <1>3, <1>4, PTL DEF Spec, WorkRunsOut

-----------------------------------------------------------------------------
(* The inputs of the other algorithms, which no step changes.                *)

DataOK ==
  /\ rows \in Views
  /\ anchors \in [Nodes -> Nat]
  /\ timeline \in Timelines \cup {<<>>}
  /\ split \in Splits
  /\ manifest \in Manifests

LEMMA DataHolds == Spec => []DataOK
PROOF
<1>1. Init => DataOK
  <2>. SUFFICES ASSUME Init  PROVE DataOK
    OBVIOUS
  <2>1. rows \in Views
    BY ViewAssumption DEF Init
  <2>2. anchors \in [Nodes -> Nat]
    <3>1. anchors \in Anchors \/ anchors = [node \in Nodes |-> 0]
      BY DEF Init, NoAnchors
    <3>. QED  BY <3>1, LabelAssumption
  <2>3. timeline \in Timelines \cup {<<>>}
    BY DEF Init, NoSplit
  <2>4. manifest \in Manifests
    BY ManifestAssumption DEF Init, NoManifest, BlankManifest
  <2>5. split \in Splits
    BY SplitAssumption DEF Init, NoSplit
  <2>. QED  BY <2>1, <2>2, <2>3, <2>4, <2>5 DEF DataOK
<1>2. DataOK /\ [Next]_vars => DataOK'
  BY DEF DataOK, Next, SkipRow, Arrive, Follow, Dequeue, GiveUp, inputs, vars
<1>. QED  BY <1>1, <1>2, PTL DEF Spec

-----------------------------------------------------------------------------
(* Calibration.                                                              *)

(* A function that starts with a and goes on step by step as long as its     *)
(* values are in X is one that BoundedIteration speaks of.                   *)
LEMMA Computed ==
  ASSUME NEW X, NEW a \in X, NEW m \in Nat, NEW step \in [X \X (1..m) -> X], NEW h,
         h = [n \in 0..m |-> h[n]], h[0] = a,
         \A n \in 1..m : h[n - 1] \in X => h[n] = step[<<h[n - 1], n>>]
  PROVE  Computes(h, X, a, step, m)
PROOF
<1>. DEFINE T == {n \in Nat : n \in 0..m => h[n] \in X}
<1>1. 0 \in T
  OBVIOUS
<1>2. ASSUME NEW n \in Nat, n \in T  PROVE n + 1 \in T
  <2>1. ASSUME n + 1 \in 0..m  PROVE h[n + 1] \in X
    <3>1. n \in 0..m /\ n + 1 \in 1..m /\ (n + 1) - 1 = n
      BY <2>1
    <3>2. h[n] \in X
      BY <1>2, <3>1
    <3>3. h[n + 1] = step[<<h[n], n + 1>>] /\ <<h[n], n + 1>> \in X \X (1..m)
      BY <3>1, <3>2
    <3>. QED  BY <3>3
  <2>. QED  BY <2>1
<1>. HIDE DEF T
<1>3. Nat \subseteq T
  BY <1>1, <1>2, Inductive
<1>4. \A n \in 0..m : h[n] \in X
  <2>1. \A n \in 0..m : n \in Nat /\ n \in T
    BY <1>3
  <2>. QED  BY <2>1 DEF T
<1>5. h \in [0..m -> X]
  BY <1>4
<1>6. \A n \in 1..m : n - 1 \in 0..m
  OBVIOUS
<1>. QED  BY <1>4, <1>5, <1>6 DEF Computes

(* The sums of the first values of f, each from the one before.              *)
Sums(sum, f, m) ==
  /\ sum \in [0..m -> Int] /\ sum[0] = 0
  /\ \A b \in 1..m : sum[b] = sum[b - 1] + f[b]

LEMMA SumsAdd ==
  ASSUME NEW m \in Nat, NEW f \in [1..m -> Int]
  PROVE  \E sum : Sums(sum, f, m) /\ SumTo(f, m) = sum[m]
PROOF
<1>. DEFINE X == Int
            step == [t \in X \X (1..m) |-> t[1] + f[t[2]]]
            Defines(g) == g = [b \in 0..m |-> IF b = 0 THEN 0 ELSE g[b - 1] + f[b]]
<1>1. \A t \in X \X (1..m) : t[1] + f[t[2]] \in X
  OBVIOUS
<1>2. step \in [X \X (1..m) -> X] /\ 0 \in X
  BY <1>1
<1>3. \A x \in X, b \in 1..m : step[<<x, b>>] = x + f[b]
  OBVIOUS
<1>. HIDE DEF step, X
<1>4. PICK g : Computes(g, X, 0, step, m)
  BY <1>2, BoundedIteration
<1>5. Defines(g)
  <2>1. \A b \in 0..m : b # 0 => b \in 1..m /\ b - 1 \in 0..m
    OBVIOUS
  <2>2. \A b \in 0..m : g[b] \in X
    BY <1>4 DEF Computes
  <2>3. \A b \in 1..m : b - 1 \in 0..m
    OBVIOUS
  <2>4. \A b \in 1..m : g[b] = g[b - 1] + f[b]
    BY <1>3, <1>4, <2>2, <2>3 DEF Computes
  <2>. QED  BY <1>4, <2>1, <2>4 DEF Computes
<1>. DEFINE sum == CHOOSE h : Defines(h)
<1>6. Defines(sum)
  <2>. HIDE DEF Defines
  <2>. QED  BY <1>5
<1>7. SumTo(f, m) = sum[m]
  BY DEF SumTo
<1>. HIDE DEF sum
<1>8. /\ sum = [b \in 0..m |-> sum[b]] /\ sum[0] = 0
      /\ \A b \in 1..m : sum[b] = sum[b - 1] + f[b]
  <2>1. \A b \in 0..m : sum[b] = IF b = 0 THEN 0 ELSE sum[b - 1] + f[b]
    BY <1>6
  <2>2. 0 \in 0..m /\ \A b \in 1..m : b \in 0..m /\ b # 0
    OBVIOUS
  <2>3. sum = [b \in 0..m |-> sum[b]]
    BY <1>6
  <2>. QED  BY <2>1, <2>2, <2>3
<1>9. Computes(sum, X, 0, step, m)
  BY <1>2, <1>3, <1>8, Computed
<1>. QED  BY <1>7, <1>8, <1>9 DEF Sums, Computes, X

(* What holds of each sum if it holds of the next: an induction up to m.     *)
LEMMA UpTo ==
  ASSUME NEW m \in Nat, NEW T, 0 \in T, \A b \in 1..m : b - 1 \in T => b \in T
  PROVE  m \in T
PROOF
<1>. DEFINE S == {n \in Nat : n \in 0..m => n \in T}
<1>1. ASSUME NEW n \in Nat, n \in S  PROVE n + 1 \in S
  <2>1. n + 1 \in 0..m => n \in 0..m /\ n + 1 \in 1..m /\ (n + 1) - 1 = n
    OBVIOUS
  <2>. QED  BY <1>1, <2>1
<1>2. 0 \in S
  OBVIOUS
<1>. HIDE DEF S
<1>3. Nat \subseteq S
  BY <1>1, <1>2, Inductive
<1>. QED  BY <1>3 DEF S

LEMMA SumOfNothing ==
  ASSUME NEW m \in Nat
  PROVE  SumTo([b \in 1..m |-> 0], m) = 0
PROOF
<1>. DEFINE f == [b \in 1..m |-> 0]
<1>1. f \in [1..m -> Int] /\ \A b \in 1..m : f[b] = 0
  OBVIOUS
<1>. HIDE DEF f
<1>2. PICK sum : Sums(sum, f, m) /\ SumTo(f, m) = sum[m]
  BY <1>1, SumsAdd
<1>. DEFINE T == {b \in 0..m : sum[b] = 0}
<1>3. 0 \in T
  BY <1>2 DEF Sums
<1>4. ASSUME NEW b \in 1..m, b - 1 \in T  PROVE b \in T
  BY <1>1, <1>2, <1>4 DEF Sums
<1>. HIDE DEF T
<1>5. m \in T
  BY <1>3, <1>4, UpTo
<1>. QED  BY <1>2, <1>5 DEF T, f

(* More in one bin is more in the sum.                                       *)
LEMMA SumWithMore ==
  ASSUME NEW m \in Nat, NEW f \in [1..m -> Int], NEW c \in 1..m, NEW d \in Int,
         NEW g, g = [f EXCEPT ![c] = @ + d]
  PROVE  SumTo(g, m) = SumTo(f, m) + d
PROOF
<1>1. /\ g \in [1..m -> Int] /\ g[c] = f[c] + d
      /\ \A b \in 1..m : f[b] \in Int /\ (b # c => g[b] = f[b])
  OBVIOUS
<1>2. PICK sum : Sums(sum, f, m) /\ SumTo(f, m) = sum[m]
  BY SumsAdd
<1>3. PICK more : Sums(more, g, m) /\ SumTo(g, m) = more[m]
  BY <1>1, SumsAdd
<1>4. \A b \in 0..m : sum[b] \in Int /\ more[b] \in Int
  BY <1>2, <1>3 DEF Sums
<1>. DEFINE T == {b \in 0..m : more[b] = sum[b] + IF b >= c THEN d ELSE 0}
<1>5. 0 \in T
  BY <1>2, <1>3 DEF Sums
<1>6. ASSUME NEW b \in 1..m, b - 1 \in T  PROVE b \in T
  <2>. DEFINE bump(k) == IF k >= c THEN d ELSE 0
  <2>1. /\ sum[b] = sum[b - 1] + f[b] /\ more[b] = more[b - 1] + g[b]
        /\ more[b - 1] = sum[b - 1] + bump(b - 1)
        /\ b \in 0..m /\ b - 1 \in 0..m
    <3>1. sum[b] = sum[b - 1] + f[b]
      <4>. HIDE DEF T, bump
      <4>. QED  BY <1>2, <1>6 DEF Sums
    <3>2. more[b] = more[b - 1] + g[b]
      <4>. HIDE DEF T, bump
      <4>. QED  BY <1>3, <1>6 DEF Sums
    <3>. QED  BY <1>6, <3>1, <3>2
  <2>2. sum[b - 1] \in Int /\ f[b] \in Int
    BY <1>1, <1>4, <2>1
  <2>3. CASE b = c
    BY <1>1, <2>1, <2>2, <2>3
  <2>4. CASE b # c
    <3>1. b - 1 >= c <=> b >= c
      BY <2>4
    <3>. QED  BY <1>1, <2>1, <2>2, <2>4, <3>1
  <2>. QED  BY <2>3, <2>4
<1>. HIDE DEF T
<1>7. m \in T
  BY <1>5, <1>6, UpTo
<1>8. more[m] = sum[m] + d
  BY <1>7 DEF T
<1>. QED  BY <1>2, <1>3, <1>8

(* A sum is no further from 0 than the sum of the distances from 0.          *)
LEMMA GapsAddUp ==
  ASSUME NEW m \in Nat, NEW f \in [1..m -> Int]
  PROVE  LET gaps == SumTo([b \in 1..m |-> Gap(f[b])], m)
         IN gaps \in Int /\ SumTo(f, m) \in (-gaps)..gaps
PROOF
<1>. DEFINE g == [b \in 1..m |-> Gap(f[b])]
<1>1. /\ \A b \in 1..m : f[b] \in Int
      /\ \A x \in Int : Gap(x) \in Int /\ -Gap(x) <= x /\ x <= Gap(x)
  BY DEF Gap
<1>2. g \in [1..m -> Int] /\ \A b \in 1..m : g[b] \in Int /\ -g[b] <= f[b] /\ f[b] <= g[b]
  BY <1>1
<1>. HIDE DEF g
<1>3. PICK sum : Sums(sum, f, m) /\ SumTo(f, m) = sum[m]
  BY SumsAdd
<1>4. PICK gaps : Sums(gaps, g, m) /\ SumTo(g, m) = gaps[m]
  BY <1>2, SumsAdd
<1>. DEFINE T == {b \in 0..m : -gaps[b] <= sum[b] /\ sum[b] <= gaps[b]}
<1>5. 0 \in T
  BY <1>3, <1>4 DEF Sums
<1>6. ASSUME NEW b \in 1..m, b - 1 \in T  PROVE b \in T
  <2>1. /\ sum[b] = sum[b - 1] + f[b] /\ gaps[b] = gaps[b - 1] + g[b]
        /\ b \in 0..m /\ b - 1 \in 0..m
        /\ -gaps[b - 1] <= sum[b - 1] /\ sum[b - 1] <= gaps[b - 1]
    BY <1>3, <1>4, <1>6 DEF Sums
  <2>2. sum[b - 1] \in Int /\ gaps[b - 1] \in Int /\ f[b] \in Int /\ g[b] \in Int
    BY <1>1, <1>2, <1>3, <1>4, <2>1 DEF Sums
  <2>. QED  BY <1>2, <2>1, <2>2
<1>. HIDE DEF T
<1>7. m \in T
  BY <1>5, <1>6, UpTo
<1>8. sum[m] \in Int /\ gaps[m] \in Int
  BY <1>3, <1>4 DEF Sums
<1>. QED  BY <1>3, <1>4, <1>7, <1>8 DEF T, g

Numbers == Int \cup {NoNumber}
Prediction == [score : Numbers, label : Numbers]
Predictions == Seq(Prediction)

LEMMA PredictionsAre ==
  ASSUME NEW ps \in Predictions
  PROVE  Len(ps) \in Nat /\ \A n \in 1..Len(ps) : ps[n] \in Prediction
PROOF BY DEF Predictions

(* A prediction that counts has a bin and an excess.                         *)
LEMMA BinsAndExcesses ==
  ASSUME NEW p \in Prediction, Counted(p), NEW bins \in Nat \ {0}
  PROVE  BinOf(p.score, bins) \in 1..bins /\ Excess(p) \in Int
PROOF
<1>1. p.score \in Int /\ p.label \in Int
  BY DEF Counted, Prediction, Numbers
<1>2. Clamped(p.score) \in 0..100
  BY <1>1 DEF Clamped
<1>3. Clamped(p.score) * bins \in Nat
  BY <1>2
<1>4. (Clamped(p.score) * bins) \div 100 \in Nat
  BY <1>3
<1>5. BinOf(p.score, bins) \in 1..bins
  <2>. DEFINE b == (Clamped(p.score) * bins) \div 100
  <2>1. b \in Nat
    BY <1>4
  <2>2. BinOf(p.score, bins) = IF b + 1 > bins THEN bins ELSE b + 1
    BY DEF BinOf
  <2>. HIDE DEF b
  <2>. QED  BY <2>1, <2>2
<1>. QED  BY <1>1, <1>2, <1>5 DEF Excess

(* The bins after each prediction, and the bias.                             *)
LEMMA TallyOf ==
  ASSUME NEW ps \in Predictions, NEW bins \in Nat \ {0}
  PROVE  \E tally \in [0..Len(ps) -> [1..bins -> Int]] :
           /\ tally[0] = [b \in 1..bins |-> 0]
           /\ \A n \in 1..Len(ps) :
                tally[n] = IF ~Counted(ps[n]) THEN tally[n - 1]
                           ELSE [tally[n - 1] EXCEPT ![BinOf(ps[n].score, bins)] =
                                   @ + Excess(ps[n])]
           /\ Tally(ps, bins) = tally[Len(ps)]
PROOF
<1>. DEFINE X == [1..bins -> Int]
            m == Len(ps)
            a == [b \in 1..bins |-> 0]
            grown(x, n) == IF ~Counted(ps[n]) THEN x
                           ELSE [x EXCEPT ![BinOf(ps[n].score, bins)] = @ + Excess(ps[n])]
            step == [t \in X \X (1..m) |-> grown(t[1], t[2])]
            Defines(g) == g = [n \in 0..m |-> IF n = 0 THEN a
                                 ELSE IF ~Counted(ps[n]) THEN g[n - 1]
                                 ELSE [g[n - 1] EXCEPT ![BinOf(ps[n].score, bins)] =
                                         @ + Excess(ps[n])]]
<1>1. m \in Nat /\ a \in X /\ \A n \in 1..m : ps[n] \in Prediction
  BY PredictionsAre
<1>2. ASSUME NEW x \in X, NEW n \in 1..m  PROVE grown(x, n) \in X
  <2>1. CASE Counted(ps[n])
    <3>1. BinOf(ps[n].score, bins) \in 1..bins /\ Excess(ps[n]) \in Int
      BY <1>1, <2>1, BinsAndExcesses
    <3>. QED  BY <2>1, <3>1
  <2>. QED  BY <2>1
<1>3. Tally(ps, bins) = (CHOOSE g : Defines(g))[m]
  BY DEF Tally
<1>. HIDE DEF X, m, a
<1>4. step \in [X \X (1..m) -> X]
  <2>. HIDE DEF grown
  <2>1. \A t \in X \X (1..m) : t[1] \in X /\ t[2] \in 1..m
    OBVIOUS
  <2>. QED  BY <1>2, <2>1
<1>5. \A x \in X, n \in 1..m : step[<<x, n>>] = grown(x, n)
  <2>. HIDE DEF grown
  <2>. QED  OBVIOUS
<1>. HIDE DEF step
<1>6. PICK g : Computes(g, X, a, step, m)
  BY <1>1, <1>4, BoundedIteration
<1>7. Defines(g)
  <2>1. ASSUME NEW n \in 0..m, n # 0  PROVE g[n] = grown(g[n - 1], n)
    <3>1. n \in 1..m /\ n - 1 \in 0..m
      BY <1>1, <2>1
    <3>2. g[n - 1] \in X /\ g[n] = step[<<g[n - 1], n>>]
      BY <1>6, <3>1 DEF Computes
    <3>. HIDE DEF grown
    <3>. QED  BY <1>5, <3>1, <3>2
  <2>2. g = [n \in 0..m |-> g[n]] /\ g[0] = a
    BY <1>6 DEF Computes
  <2>3. \A n \in 0..m : g[n] = IF n = 0 THEN a ELSE grown(g[n - 1], n)
    <3>. HIDE DEF grown
    <3>. QED  BY <2>1, <2>2
  <2>. QED  BY <2>2, <2>3
<1>. DEFINE tally == CHOOSE h : Defines(h)
<1>8. Defines(tally)
  <2>. HIDE DEF Defines
  <2>. QED  BY <1>7
<1>. HIDE DEF tally
<1>9. /\ tally = [n \in 0..m |-> tally[n]] /\ tally[0] = a
      /\ \A n \in 1..m : tally[n] = grown(tally[n - 1], n)
  <2>1. \A n \in 0..m : tally[n] = IF n = 0 THEN a ELSE grown(tally[n - 1], n)
    BY <1>8
  <2>2. 0 \in 0..m /\ \A n \in 1..m : n \in 0..m /\ n # 0
    BY <1>1
  <2>3. tally = [n \in 0..m |-> tally[n]]
    BY <1>8
  <2>. HIDE DEF grown
  <2>. QED  BY <2>1, <2>2, <2>3
<1>10. Computes(tally, X, a, step, m)
  <2>. HIDE DEF grown
  <2>. QED  BY <1>1, <1>4, <1>5, <1>9, Computed
<1>11. tally \in [0..m -> X] /\ Tally(ps, bins) = tally[m]
  BY <1>3, <1>10 DEF Computes, tally
<1>. QED  BY <1>9, <1>11 DEF X, a, m

LEMMA BiasOf ==
  ASSUME NEW ps \in Predictions
  PROVE  \E bias \in [0..Len(ps) -> Int] :
           /\ bias[0] = 0
           /\ \A n \in 1..Len(ps) :
                bias[n] = bias[n - 1] + IF Counted(ps[n]) THEN Excess(ps[n]) ELSE 0
           /\ Bias(ps) = bias[Len(ps)]
PROOF
<1>. DEFINE m == Len(ps)
            f == [n \in 1..m |-> IF Counted(ps[n]) THEN Excess(ps[n]) ELSE 0]
            Defines(g) == g = [n \in 0..m |-> IF n = 0 THEN 0
                                 ELSE g[n - 1] + IF Counted(ps[n]) THEN Excess(ps[n]) ELSE 0]
<1>1. m \in Nat /\ \A n \in 1..m : ps[n] \in Prediction
  BY PredictionsAre
<1>2. f \in [1..m -> Int]
  <2>1. \A n \in 1..m : Counted(ps[n]) => Excess(ps[n]) \in Int
    <3>1. 1 \in Nat \ {0}
      OBVIOUS
    <3>. HIDE DEF m
    <3>. QED  BY <1>1, <3>1, BinsAndExcesses
  <2>. HIDE DEF m
  <2>. QED  BY <2>1
<1>3. PICK sum : Sums(sum, f, m)
  <2>. HIDE DEF f, m
  <2>. QED  BY <1>1, <1>2, SumsAdd
<1>4. Bias(ps) = (CHOOSE g : Defines(g))[m]
  BY DEF Bias
<1>. HIDE DEF m
<1>5. Defines(sum)
  <2>1. \A n \in 0..m : n # 0 => n \in 1..m
    BY <1>1
  <2>2. \A n \in 1..m : f[n] = IF Counted(ps[n]) THEN Excess(ps[n]) ELSE 0
    OBVIOUS
  <2>. HIDE DEF f
  <2>3. sum = [n \in 0..m |-> sum[n]] /\ sum[0] = 0
        /\ \A n \in 1..m : sum[n] = sum[n - 1] + f[n]
    BY <1>3 DEF Sums
  <2>. QED  BY <2>1, <2>2, <2>3
<1>. DEFINE bias == CHOOSE g : Defines(g)
<1>6. Defines(bias)
  <2>. HIDE DEF Defines
  <2>. QED  BY <1>5
<1>. HIDE DEF bias
<1>7. /\ bias = [n \in 0..m |-> bias[n]] /\ bias[0] = 0
      /\ \A n \in 1..m : bias[n] = bias[n - 1] + IF Counted(ps[n]) THEN Excess(ps[n]) ELSE 0
  <2>1. \A n \in 0..m : bias[n] = IF n = 0 THEN 0
          ELSE bias[n - 1] + IF Counted(ps[n]) THEN Excess(ps[n]) ELSE 0
    BY <1>6
  <2>2. 0 \in 0..m /\ \A n \in 1..m : n \in 0..m /\ n # 0
    BY <1>1
  <2>3. bias = [n \in 0..m |-> bias[n]]
    BY <1>6
  <2>. QED  BY <2>1, <2>2, <2>3
<1>8. bias \in [0..m -> Int]
  <2>. DEFINE X == Int
              step == [t \in X \X (1..m) |-> t[1] + f[t[2]]]
  <2>1. \A n \in 1..m : f[n] \in Int
                         /\ f[n] = IF Counted(ps[n]) THEN Excess(ps[n]) ELSE 0
    BY <1>2
  <2>. HIDE DEF f
  <2>2. /\ step \in [X \X (1..m) -> X] /\ 0 \in X
        /\ \A x \in X, n \in 1..m : step[<<x, n>>] = x + f[n]
    BY <2>1
  <2>. HIDE DEF step, X
  <2>3. \A n \in 1..m : bias[n - 1] \in X => bias[n] = step[<<bias[n - 1], n>>]
    BY <1>7, <2>1, <2>2
  <2>4. Computes(bias, X, 0, step, m)
    BY <1>1, <1>7, <2>2, <2>3, Computed
  <2>. QED  BY <2>4 DEF Computes, X
<1>. QED  BY <1>4, <1>7, <1>8 DEF m, bias

(* The bins put together are the bias.                                       *)
LEMMA BinsMakeTheBias ==
  ASSUME NEW ps \in Predictions, NEW bins \in Nat \ {0}
  PROVE  Tally(ps, bins) \in [1..bins -> Int] /\ SumTo(Tally(ps, bins), bins) = Bias(ps)
PROOF
<1>. DEFINE m == Len(ps)
<1>1. m \in Nat /\ bins \in Nat /\ \A n \in 1..m : ps[n] \in Prediction
  BY PredictionsAre
<1>2. PICK tally \in [0..m -> [1..bins -> Int]] :
        /\ tally[0] = [b \in 1..bins |-> 0]
        /\ \A n \in 1..m :
             tally[n] = IF ~Counted(ps[n]) THEN tally[n - 1]
                        ELSE [tally[n - 1] EXCEPT ![BinOf(ps[n].score, bins)] =
                                @ + Excess(ps[n])]
        /\ Tally(ps, bins) = tally[m]
  BY TallyOf
<1>3. PICK bias \in [0..m -> Int] :
        /\ bias[0] = 0
        /\ \A n \in 1..m :
             bias[n] = bias[n - 1] + IF Counted(ps[n]) THEN Excess(ps[n]) ELSE 0
        /\ Bias(ps) = bias[m]
  BY BiasOf
<1>. HIDE DEF m
<1>. DEFINE T == {n \in 0..m : SumTo(tally[n], bins) = bias[n]}
<1>4. 0 \in T
  BY <1>1, <1>2, <1>3, SumOfNothing
<1>5. ASSUME NEW n \in 1..m, n - 1 \in T  PROVE n \in T
  <2>1. n \in 0..m /\ n - 1 \in 0..m /\ SumTo(tally[n - 1], bins) = bias[n - 1]
        /\ tally[n - 1] \in [1..bins -> Int] /\ bias[n - 1] \in Int
    BY <1>2, <1>3, <1>5
  <2>2. CASE Counted(ps[n])
    <3>1. BinOf(ps[n].score, bins) \in 1..bins /\ Excess(ps[n]) \in Int
      BY <1>1, <2>2, BinsAndExcesses
    <3>2. tally[n] = [tally[n - 1] EXCEPT ![BinOf(ps[n].score, bins)] = @ + Excess(ps[n])]
          /\ bias[n] = bias[n - 1] + Excess(ps[n])
      BY <1>2, <1>3, <2>2
    <3>3. SumTo(tally[n], bins) = SumTo(tally[n - 1], bins) + Excess(ps[n])
      <4>. DEFINE f == tally[n - 1]
                  g == tally[n]
                  c == BinOf(ps[n].score, bins)
                  d == Excess(ps[n])
      <4>1. g = [f EXCEPT ![c] = @ + d]
        BY <3>2
      <4>2. bins \in Nat /\ f \in [1..bins -> Int] /\ c \in 1..bins /\ d \in Int
        BY <1>1, <2>1, <3>1
      <4>. HIDE DEF f, g, c, d
      <4>3. SumTo(g, bins) = SumTo(f, bins) + d
        BY <4>1, <4>2, SumWithMore, Zenon
      <4>. QED  BY <4>3 DEF f, g, d
    <3>. QED  BY <2>1, <3>2, <3>3
  <2>3. CASE ~Counted(ps[n])
    <3>1. tally[n] = tally[n - 1] /\ bias[n] = bias[n - 1] + 0
      BY <1>2, <1>3, <2>3
    <3>. QED  BY <2>1, <3>1
  <2>. QED  BY <2>2, <2>3
<1>. HIDE DEF T
<1>6. m \in T
  BY <1>1, <1>4, <1>5, UpTo
<1>. QED  BY <1>1, <1>2, <1>3, <1>6 DEF T

(* An artifact eligible for promotion is not biased on the whole by more     *)
(* than the calibration error allowed, for every list of predictions and any *)
(* number of bins: the bins' excesses put together are the bias, and a sum   *)
(* is no further from 0 than the sum of the distances.                       *)
THEOREM PromotionHoldsBiasBack == Spec => []BiasIsHeldBack
PROOF
<1>1. DataOK => BiasIsHeldBack
  <2>. SUFFICES ASSUME DataOK, EligibleForPilot(manifest)
                PROVE  LET n == Total(manifest.predictions)
                       IN /\ n > 0
                          /\ Bias(manifest.predictions)
                               \in -(MaxCalibration * n)..(MaxCalibration * n)
    BY DEF BiasIsHeldBack
  <2>. DEFINE ps == manifest.predictions
              bins == BinCount(manifest.bins)
              n == Total(ps)
              gaps == CalibrationError(ps, bins)
  <2>1. ps \in Predictions /\ bins \in Nat \ {0}
    <3>1. manifest \in Manifests
      BY DEF DataOK
    <3>2. manifest.bins \in Nat /\ ps \in Predictions
      BY <3>1, ManifestAssumption DEF Predictions, Prediction, Numbers
    <3>. QED  BY <3>2 DEF BinCount
  <2>2. n > 0 /\ gaps <= MaxCalibration * n
    BY DEF EligibleForPilot, ArtifactPassed, CalibrationPassed
  <2>3. n \in Nat
    <3>1. ps \in Seq(Prediction)
      BY <2>1 DEF Predictions
    <3>2. IsFiniteSet({i \in DOMAIN ps : Counted(ps[i])})
      <4>. HIDE DEF ps
      <4>1. Len(ps) \in Nat /\ DOMAIN ps = 1..Len(ps)
        BY <3>1
      <4>2. IsFiniteSet(1..Len(ps))
        BY <4>1, FS_Interval
      <4>. QED  BY <4>1, <4>2, FS_Subset
    <3>. QED  BY <3>2, FS_CardinalityType DEF Total
  <2>. HIDE DEF ps, bins, n
  <2>4. Tally(ps, bins) \in [1..bins -> Int] /\ SumTo(Tally(ps, bins), bins) = Bias(ps)
    BY <2>1, BinsMakeTheBias
  <2>5. gaps = SumTo([b \in 1..bins |-> Gap(Tally(ps, bins)[b])], bins)
    BY DEF CalibrationError
  <2>. HIDE DEF gaps
  <2>6. gaps \in Int /\ Bias(ps) \in (-gaps)..gaps
    BY <2>1, <2>4, <2>5, GapsAddUp
  <2>7. MaxCalibration * n \in Int
    BY <2>3, GateAssumption
  <2>8. Bias(ps) \in -(MaxCalibration * n)..(MaxCalibration * n)
    <3>. DEFINE most == MaxCalibration * n
    <3>1. most \in Int /\ gaps <= most
      BY <2>2, <2>7
    <3>. HIDE DEF most
    <3>2. Bias(ps) \in -most..most
      BY <2>6, <3>1
    <3>. QED  BY <3>2 DEF most
  <2>. QED  BY <2>2, <2>8 DEF ps, n
<1>. QED  BY <1>1, DataHolds, PTL

-----------------------------------------------------------------------------
(* Folds.                                                                    *)

LEMMA Quotient ==
  ASSUME NEW x \in Nat, NEW s \in Nat \ {0}
  PROVE  x \div s \in Nat /\ (x \div s) * s <= x /\ x < (x \div s) * s + s
OBVIOUS

LEMMA Product ==
  ASSUME NEW a \in Nat, NEW b \in Nat  PROVE a * b \in Nat
OBVIOUS

LEMMA Scaled ==
  ASSUME NEW a \in Int, NEW b \in Int, NEW s \in Nat \ {0}
  PROVE  /\ a * s < b * s => a < b
         /\ a <= b => a * s <= b * s
OBVIOUS

(* Without dated events three folds know nothing.                            *)
LEMMA EmptyFolds ==
  ASSUME NEW o \in FoldOptions
  PROVE  NoLookAhead(<<>>, o)
PROOF
<1>. DEFINE events == <<Invalid>> \o <<>>
            folds == BuildTemporalFolds(events, o.horizon, o.step, o.window)
<1>1. Len(events) = 1 /\ DOMAIN events = {1} /\ events[1] = Invalid
  BY GateAssumption
<1>2. {events[i] : i \in DOMAIN events} \ {Invalid} = {}
  BY <1>1
<1>. HIDE DEF events
<1>3. folds = [k \in 1..3 |-> [trainUntil |-> 0, validateFrom |-> 0, validateUntil |-> 0,
                              population |-> {}]]
  BY <1>2 DEF BuildTemporalFolds
<1>4. /\ DOMAIN folds = 1..3
      /\ \A k \in 1..3 : /\ folds[k].population = {}
                          /\ folds[k].validateUntil = 0 /\ folds[k].validateFrom = 0
      /\ \A k \in 1..3 : \A l \in 1..(k - 1) : l \in 1..3
  BY <1>3
<1>5. \A i \in 2..(Len(<<>>) + 1) : FALSE
  OBVIOUS
<1>. HIDE DEF folds
<1>. QED  BY <1>4, <1>5 DEF NoLookAhead, events, folds

(* The folds of dated events: where each begins and what it knows.           *)
LEMMA FoldsOf ==
  ASSUME NEW t \in Seq(Nat), t # <<>>,
         \A i, j \in DOMAIN t : i <= j => t[i] <= t[j],
         NEW o \in FoldOptions
  PROVE  LET events == <<Invalid>> \o t
             folds == BuildTemporalFolds(events, o.horizon, o.step, o.window)
             first == t[1] + o.window
             known(until) == {i \in 2..(Len(t) + 1) : events[i] <= until}
         IN \E count \in Nat :
              /\ t[Len(t)] <= first + count * o.step
              /\ folds = [k \in 1..count |->
                            [trainUntil |-> first + (k - 1) * o.step,
                             validateFrom |-> first + (k - 1) * o.step,
                             validateUntil |-> first + (k - 1) * o.step + o.horizon,
                             population |-> known(first + (k - 1) * o.step)]]
PROOF
<1>. DEFINE n == Len(t)
            events == <<Invalid>> \o t
            s == o.step
            w == o.window
            h == o.horizon
            first == t[1] + w
            last == t[n]
            dated == {events[i] : i \in DOMAIN events} \ {Invalid}
            count == IF last <= first THEN 0 ELSE (last - first + s - 1) \div s
            known(until) == {i \in 2..(n + 1) : events[i] <= until}
<1>1. s \in Nat \ {0} /\ w \in Nat /\ h \in Nat
  BY FoldAssumption
<1>2. /\ n \in Nat \ {0} /\ DOMAIN t = 1..n
      /\ \A i \in 1..n : t[i] \in Nat
      /\ DOMAIN events = 1..(n + 1)
      /\ events[1] = Invalid /\ \A i \in 1..n : events[i + 1] = t[i]
      /\ \A i \in 1..(n + 1) : i # 1 => i - 1 \in 1..n /\ events[i] = t[i - 1]
  BY GateAssumption
<1>. HIDE DEF events, n
<1>3. 1 \in 1..n /\ n \in 1..n /\ first \in Nat /\ last \in Nat /\ last \in Int
  BY <1>1, <1>2
<1>4. \A i \in 1..n : t[1] <= t[i] /\ t[i] <= last
  <2>1. \A i \in 1..n : 1 <= i /\ i <= n
    BY <1>2
  <2>. QED  BY <1>2, <1>3, <2>1
<1>5. dated = {t[i] : i \in 1..n}
  <2>1. \A i \in 1..n : t[i] # Invalid /\ i + 1 \in 1..(n + 1)
    BY <1>2, GateAssumption
  <2>2. ASSUME NEW x \in dated  PROVE x \in {t[i] : i \in 1..n}
    <3>1. PICK i \in 1..(n + 1) : x = events[i] /\ i # 1
      BY <1>2
    <3>. QED  BY <1>2, <3>1
  <2>3. ASSUME NEW i \in 1..n  PROVE t[i] \in dated
    <3>1. t[i] = events[i + 1] /\ i + 1 \in DOMAIN events
      BY <1>2, <2>1
    <3>. QED  BY <2>1, <3>1
  <2>. HIDE DEF dated
  <2>. QED  BY <2>2, <2>3
<1>6. Min(dated) = t[1] /\ Max(dated) = last /\ dated # {}
  <2>1. t[1] \in dated /\ last \in dated
    BY <1>3, <1>5
  <2>2. \A x \in dated : x \in Nat /\ t[1] <= x /\ x <= last
    BY <1>2, <1>4, <1>5
  <2>. HIDE DEF dated
  <2>3. \A x \in dated : (\A y \in dated : x <= y) <=> x = t[1]
    BY <2>1, <2>2
  <2>4. \A x \in dated : (\A y \in dated : x >= y) <=> x = last
    BY <2>1, <2>2
  <2>. QED  BY <2>1, <2>2, <2>3, <2>4 DEF Min, Max
<1>7. count \in Nat /\ last <= first + count * s
  <2>1. CASE last <= first
    <3>1. count = 0 /\ count * s = 0
      BY <1>1, <2>1
    <3>. QED  BY <1>3, <2>1, <3>1
  <2>2. CASE ~(last <= first)
    <3>. DEFINE x == last - first + s - 1
    <3>1. x \in Nat /\ count = x \div s
      BY <1>1, <1>3, <2>2
    <3>. HIDE DEF count
    <3>2. count \in Nat /\ x < count * s + s
      BY <1>1, <3>1, Quotient
    <3>. DEFINE y == count * s
    <3>3. y \in Int
      BY <1>1, <3>2
    <3>4. last - first + s - 1 < y + s
      BY <3>2
    <3>. HIDE DEF y, s, first, last
    <3>5. last <= first + y
      BY <1>1, <1>3, <3>3, <3>4
    <3>. QED  BY <3>2, <3>5 DEF y
  <2>. QED  BY <2>1, <2>2
<1>8. \A until \in Nat : KnownBy(events, until, h) = known(until)
  <2>. SUFFICES ASSUME NEW until \in Nat
                PROVE  KnownBy(events, until, h) = known(until)
    OBVIOUS
  <2>1. \A i \in 2..(n + 1) : i \in 1..(n + 1) /\ i # 1
    BY <1>2
  <2>2. \A i \in 1..(n + 1) : i # 1 => i \in 2..(n + 1)
    BY <1>2
  <2>3. \A i \in 1..(n + 1) : i # 1 => events[i] # Invalid
    BY <1>2, GateAssumption
  <2>. QED  BY <1>2, <2>1, <2>2, <2>3 DEF KnownBy
<1>9. BuildTemporalFolds(events, h, s, w) =
        [k \in 1..count |-> [trainUntil |-> first + (k - 1) * s,
                             validateFrom |-> first + (k - 1) * s,
                             validateUntil |-> first + (k - 1) * s + h,
                             population |-> KnownBy(events, first + (k - 1) * s, h)]]
  <2>. HIDE DEF h, s, w
  <2>. QED  BY <1>6 DEF BuildTemporalFolds
<1>. HIDE DEF count, dated
<1>10. \A k \in 1..count : first + (k - 1) * s \in Nat
  <2>. SUFFICES ASSUME NEW k \in 1..count
                PROVE  first + (k - 1) * s \in Nat
    OBVIOUS
  <2>1. k - 1 \in Nat
    BY <1>7
  <2>2. (k - 1) * s \in Nat
    BY <1>1, <2>1, Product
  <2>. HIDE DEF s, first
  <2>. QED  BY <1>3, <2>2
<1>. HIDE DEF s, h, w, first, last, known
<1>11. BuildTemporalFolds(events, h, s, w) =
        [k \in 1..count |-> [trainUntil |-> first + (k - 1) * s,
                             validateFrom |-> first + (k - 1) * s,
                             validateUntil |-> first + (k - 1) * s + h,
                             population |-> known(first + (k - 1) * s)]]
  BY <1>8, <1>9, <1>10
<1>. QED  BY <1>7, <1>11 DEF s, h, w, first, last, known, events, n

(* An instant after the first window falls in one of the windows of length s *)
(* that follow each other.                                                   *)
LEMMA SomeWindow ==
  ASSUME NEW first \in Nat, NEW count \in Nat, NEW s \in Nat \ {0}, NEW e \in Nat,
         e > first, e <= first + count * s
  PROVE  \E k \in 1..count : /\ e > first + (k - 1) * s
                             /\ e <= first + (k - 1) * s + s
PROOF
<1>. DEFINE x == e - first - 1
            q == x \div s
<1>1. x \in Nat
  OBVIOUS
<1>. HIDE DEF x
<1>2. q \in Nat /\ q * s <= x /\ x < q * s + s
  BY <1>1, Quotient
<1>. HIDE DEF q
<1>3. q * s \in Int /\ (q + 1) - 1 = q /\ q + 1 \in Int /\ count \in Int
  BY <1>2
<1>4. q * s <= e - first - 1 /\ e - first - 1 < q * s + s
  BY <1>2 DEF x
<1>. DEFINE y == q * s
            z == count * s
<1>5. y \in Int /\ z \in Int /\ y <= e - first - 1 /\ e - first - 1 < y + s
      /\ e <= first + z
  BY <1>2, <1>3, <1>4
<1>6. y < z /\ e > first + y /\ e <= first + y + s
  <2>. HIDE DEF y, z
  <2>. QED  BY <1>5
<1>7. q < count
  BY <1>2, <1>3, <1>6, Scaled
<1>8. q + 1 \in 1..count
  BY <1>2, <1>7
<1>. QED  BY <1>3, <1>6, <1>8

LEMMA DatedFolds ==
  ASSUME NEW t \in Seq(Nat), t # <<>>,
         \A i, j \in DOMAIN t : i <= j => t[i] <= t[j],
         NEW o \in FoldOptions
  PROVE  NoLookAhead(t, o)
PROOF
<1>. DEFINE n == Len(t)
            events == <<Invalid>> \o t
            s == o.step
            h == o.horizon
            first == t[1] + o.window
            folds == BuildTemporalFolds(events, h, s, o.window)
            known(until) == {i \in 2..(n + 1) : events[i] <= until}
            from(k) == first + (k - 1) * s
            validates(k, i) == /\ events[i] >= folds[k].validateFrom
                               /\ events[i] <= folds[k].validateUntil
<1>1. s \in Nat \ {0} /\ o.window \in Nat /\ h \in Nat
  BY FoldAssumption
<1>2. PICK count \in Nat :
        /\ t[n] <= first + count * s
        /\ folds = [k \in 1..count |-> [trainUntil |-> from(k), validateFrom |-> from(k),
                                        validateUntil |-> from(k) + h,
                                        population |-> known(from(k))]]
  BY FoldsOf
<1>3. /\ n \in Nat \ {0} /\ first \in Nat
      /\ \A i \in 2..(n + 1) : events[i] \in Nat /\ events[i] <= t[n]
  <2>1. n \in Nat \ {0} /\ DOMAIN t = 1..n /\ n \in 1..n /\ 1 \in 1..n
    OBVIOUS
  <2>2. \A i \in 2..(n + 1) : i - 1 \in 1..n /\ events[i] = t[i - 1] /\ i - 1 <= n
    BY <2>1
  <2>3. \A i \in 1..n : t[i] \in Nat
    BY <2>1
  <2>. HIDE DEF events, n
  <2>4. first \in Nat
    BY <1>1, <2>1, <2>3
  <2>5. \A i \in 1..n : t[i] <= t[n]
    BY <2>1
  <2>. QED  BY <2>1, <2>2, <2>3, <2>4, <2>5
<1>4. \A k \in 1..count : from(k) \in Nat
  <2>1. \A k \in 1..count : (k - 1) * s \in Nat
    <3>1. \A k \in 1..count : k - 1 \in Nat
      OBVIOUS
    <3>. HIDE DEF s
    <3>. QED  BY <1>1, <3>1, Product
  <2>. HIDE DEF s, first
  <2>. QED  BY <1>3, <2>1
<1>. HIDE DEF s, h, first, events, n, folds
<1>5. /\ DOMAIN folds = 1..count
      /\ \A k \in 1..count : /\ folds[k].validateFrom = from(k)
                              /\ folds[k].validateUntil = from(k) + h
                              /\ folds[k].population = known(from(k))
  BY <1>2
<1>6. ASSUME NEW k \in 1..count, NEW l \in 1..(k - 1)
      PROVE  l \in 1..count /\ from(l) + s <= from(k)
  <2>1. l \in 1..count /\ l <= k - 1 /\ l \in Int /\ k - 1 \in Int /\ l - 1 \in Int
    OBVIOUS
  <2>2. l * s <= (k - 1) * s
    BY <1>1, <2>1, Scaled
  <2>3. l * s = (l - 1) * s + s /\ (l - 1) * s \in Int /\ (k - 1) * s \in Int
    BY <1>1, <2>1
  <2>4. from(l) + s <= from(k)
    <3>. DEFINE y == (l - 1) * s
                z == (k - 1) * s
    <3>1. y + s <= z /\ y \in Int /\ z \in Int
      BY <2>2, <2>3
    <3>. HIDE DEF y, z
    <3>2. (first + y) + s <= first + z
      BY <1>1, <1>3, <3>1
    <3>. QED  BY <3>2 DEF y, z
  <2>. QED  BY <2>1, <2>4
<1>7. ASSUME NEW k \in 1..count
      PROVE  /\ 1 \notin folds[k].population
             /\ \A i \in folds[k].population :
                  validates(k, i) => events[i] = folds[k].validateFrom
             /\ \A l \in 1..(k - 1) : folds[l].population \subseteq folds[k].population
             /\ s >= h => \A l \in 1..(k - 1) :
                            folds[l].validateUntil <= folds[k].validateFrom
  <2>. HIDE DEF from
  <2>1. \A i \in known(from(k)) : i # 1 /\ events[i] \in Nat /\ events[i] <= from(k)
    BY <1>3, <1>4
  <2>2. \A i \in known(from(k)) : events[i] >= from(k) => events[i] = from(k)
    BY <1>4, <2>1
  <2>3. ASSUME NEW l \in 1..(k - 1)
        PROVE  /\ known(from(l)) \subseteq known(from(k))
               /\ s >= h => from(l) + h <= from(k)
               /\ l \in 1..count
    <3>1. l \in 1..count /\ from(l) + s <= from(k) /\ from(l) \in Nat /\ from(k) \in Nat
      BY <1>4, <1>6
    <3>2. from(l) <= from(k) /\ (s >= h => from(l) + h <= from(k))
      BY <1>1, <3>1
    <3>. QED  BY <1>3, <3>1, <3>2
  <2>. HIDE DEF known
  <2>. QED  BY <1>5, <2>1, <2>2, <2>3
<1>8. ASSUME s <= h, NEW i \in 2..(n + 1), events[i] > first
      PROVE  \E k \in DOMAIN folds : validates(k, i)
  <2>1. events[i] \in Nat /\ events[i] <= first + count * s
    <3>. DEFINE y == count * s
    <3>1. y \in Nat /\ t[n] <= first + y
      BY <1>1, <1>2, Product
    <3>2. events[i] \in Nat /\ events[i] <= t[n]
      BY <1>3
    <3>3. t[n] \in Nat
      BY <1>3 DEF n
    <3>. HIDE DEF y
    <3>4. events[i] <= first + y
      BY <1>3, <3>1, <3>2, <3>3
    <3>. QED  BY <3>2, <3>4 DEF y
  <2>2. PICK k \in 1..count : events[i] > from(k) /\ events[i] <= from(k) + s
    <3>. DEFINE e == events[i]
    <3>1. e \in Nat /\ e > first /\ e <= first + count * s
      BY <1>8, <2>1
    <3>. HIDE DEF e
    <3>2. \E k \in 1..count : e > first + (k - 1) * s /\ e <= first + (k - 1) * s + s
      BY <1>1, <1>3, <3>1, SomeWindow
    <3>. QED  BY <3>2 DEF e
  <2>3. from(k) \in Nat /\ k \in DOMAIN folds
    BY <1>4, <1>5
  <2>. HIDE DEF from
  <2>4. events[i] >= from(k) /\ events[i] <= from(k) + h
    BY <1>1, <1>8, <2>1, <2>2, <2>3
  <2>. QED  BY <1>5, <2>3, <2>4
<1>9. NoLookAhead(t, o) <=>
        /\ \A k \in DOMAIN folds :
             /\ 1 \notin folds[k].population
             /\ \A i \in folds[k].population :
                  validates(k, i) => events[i] = folds[k].validateFrom
             /\ \A l \in 1..(k - 1) : folds[l].population \subseteq folds[k].population
             /\ s >= h => \A l \in 1..(k - 1) :
                            folds[l].validateUntil <= folds[k].validateFrom
        /\ s <= h =>
             \A i \in 2..(n + 1) :
               events[i] > first => \E k \in DOMAIN folds : validates(k, i)
  BY DEF NoLookAhead, folds, events, s, h, first, n
<1>. HIDE DEF validates
<1>. QED  BY <1>5, <1>7, <1>8, <1>9

(* A fold knows nothing from inside its validation window but what is at the *)
(* instant it begins with, later folds know what earlier ones knew, and the  *)
(* windows cover what comes after the first training, or meet at their ends  *)
(* at most, or both, for every list of events and every choice of horizon,   *)
(* step and window (model-gates.mjs:267-308).                                *)
THEOREM NoFoldLooksAhead == Spec => []FoldsNeverLookAhead
PROOF
<1>1. DataOK => FoldsNeverLookAhead
  <2>. SUFFICES ASSUME DataOK, NEW o \in FoldOptions  PROVE NoLookAhead(timeline, o)
    BY DEF FoldsNeverLookAhead
  <2>1. CASE timeline = <<>>
    BY <2>1, EmptyFolds
  <2>2. CASE timeline # <<>>
    <3>1. timeline \in Timelines
      BY <2>2 DEF DataOK
    <3>. QED  BY <2>2, <3>1, TimelineAssumption, DatedFolds
  <2>. QED  BY <2>1, <2>2
<1>. QED  BY <1>1, DataHolds, PTL

-----------------------------------------------------------------------------
(* Classes of nodes joined by paths.                                         *)

(* A path that visits a node has a part that ends there.                     *)
LEMMA PartOfPath ==
  ASSUME NEW v \in Views, NEW s \in Nodes, NEW n \in Nat,
         NEW p \in SimplePaths(v, s)[n], NEW x, Visits(p, x)
  PROVE  \E m \in Nat : \E q \in SimplePaths(v, s)[m] : LastNode(q) = x
PROOF
<1>. DEFINE paths == SimplePaths(v, s)
            Ended(y) == \E m \in Nat : \E q \in paths[m] : LastNode(q) = y
            T == {k \in Nat : \A q \in paths[k] : \A y : Visits(q, y) => Ended(y)}
<1>1. 0 \in T
  <2>1. \A q \in paths[0] : \A y : Visits(q, y) => LastNode(q) = y
    BY PathsByLength, TrivialOK
  <2>. QED  BY <2>1
<1>2. ASSUME NEW k \in Nat, k \in T  PROVE  k + 1 \in T
  <2>. SUFFICES ASSUME NEW q \in paths[k + 1], NEW y, Visits(q, y)  PROVE  Ended(y)
    OBVIOUS
  <2>1. PICK o \in paths[k], r \in Shown[v], node \in Nodes :
          ~Visits(o, node) /\ q = Extension(o, r, node)
    BY LastStep
  <2>2. PathOK(o, k) /\ r \in Rels
    BY PathsOK, GraphAssumption
  <2>3. (Visits(o, y) \/ y = node) /\ LastNode(q) = node
    BY <2>1, <2>2, ExtensionOK
  <2>4. CASE Visits(o, y)
    BY <1>2, <2>1, <2>4
  <2>5. CASE y = node
    <3>1. k + 1 \in Nat
      OBVIOUS
    <3>. QED  BY <2>3, <2>5, <3>1
  <2>. QED  BY <2>3, <2>4, <2>5
<1>. HIDE DEF T
<1>3. n \in T
  BY <1>1, <1>2, Inductive
<1>. QED  BY <1>3 DEF T

(* A class has its node and the neighbours of its nodes, ...                 *)
LEMMA ClassIsClosed ==
  ASSUME rows \in Views, NEW a \in Nodes
  PROVE  /\ Class(a) \subseteq Nodes /\ a \in Class(a)
         /\ \A b \in Class(a), c \in Nodes : Adjacent(b, c) => c \in Class(a)
PROOF
<1>. DEFINE paths == SimplePaths(rows, a)
<1>1. Cardinality(Nodes) \in Nat
  BY GraphAssumption, FS_CardinalityType
<1>2. ASSUME NEW n \in Nat, NEW p \in paths[n]  PROVE LastNode(p) \in Class(a)
  <2>1. n \in 0..Cardinality(Nodes) /\ LastNode(p) \in Nodes
    BY <1>1, PathsAreShort
  <2>. QED  BY <2>1 DEF Class, Linked
<1>3. a \in Class(a)
  BY <1>2, PathsByLength, TrivialOK
<1>4. ASSUME NEW b \in Class(a), NEW c \in Nodes, Adjacent(b, c)
      PROVE  c \in Class(a)
  <2>0. PICK n \in Nat : \E p \in paths[n] : LastNode(p) = b
    BY <1>1 DEF Class, Linked
  <2>1. PICK p \in paths[n] : LastNode(p) = b
    BY <2>0
  <2>2. PICK i \in DOMAIN rows : Joins(rows[i], b, c)
    BY <1>4 DEF Adjacent
  <2>3. rows[i] \in Shown[rows] /\ rows[i] \in Rels
    BY <2>2, RowsAreShown
  <2>4. CASE Visits(p, c)
    BY <1>2, <2>4, PartOfPath
  <2>5. CASE ~Visits(p, c)
    <3>1. Extension(p, rows[i], c) \in paths[n + 1]
      BY <2>1, <2>2, <2>3, <2>5, LastStep
    <3>2. LastNode(Extension(p, rows[i], c)) = c
      BY <2>3, <2>5, PathsOK, ExtensionOK
    <3>3. n + 1 \in Nat
      OBVIOUS
    <3>. QED  BY <1>2, <3>1, <3>2, <3>3
  <2>. QED  BY <2>4, <2>5
<1>. QED  BY <1>3, <1>4 DEF Class

(* ... is in every set that has them, ...                                    *)
LEMMA ClassIsLeast ==
  ASSUME rows \in Views, NEW a \in Nodes, NEW S, a \in S,
         \A b \in S, c \in Nodes : Adjacent(b, c) => c \in S
  PROVE  Class(a) \subseteq S
PROOF
<1>. DEFINE paths == SimplePaths(rows, a)
            T == {k \in Nat : \A p \in paths[k] : LastNode(p) \in S}
<1>1. 0 \in T
  BY PathsByLength, TrivialOK
<1>2. ASSUME NEW k \in Nat, k \in T  PROVE  k + 1 \in T
  <2>. SUFFICES ASSUME NEW q \in paths[k + 1]  PROVE  LastNode(q) \in S
    OBVIOUS
  <2>1. PICK o \in paths[k], r \in Shown[rows], node \in Nodes :
          /\ Joins(r, LastNode(o), node)
          /\ ~Visits(o, node) /\ q = Extension(o, r, node)
    BY LastStep
  <2>2. PathOK(o, k) /\ r \in Rels
    BY PathsOK, GraphAssumption
  <2>3. LastNode(q) = node
    BY <2>1, <2>2, ExtensionOK
  <2>4. Adjacent(LastNode(o), node)
    BY <2>1, RowsAreShown DEF Adjacent
  <2>. QED  BY <1>2, <2>3, <2>4
<1>. HIDE DEF T
<1>3. Nat \subseteq T
  BY <1>1, <1>2, Inductive
<1>. QED  BY <1>3, GraphAssumption, FS_CardinalityType DEF T, Class, Linked

(* ... and is the class of each of its nodes.                                *)
LEMMA ClassesAreEqual ==
  ASSUME rows \in Views, NEW a \in Nodes, NEW b \in Class(a)
  PROVE  b \in Nodes /\ Class(b) = Class(a)
PROOF
<1>1. b \in Nodes
  BY ClassIsClosed
<1>2. Class(b) \subseteq Class(a)
  BY <1>1, ClassIsClosed, ClassIsLeast
<1>3. a \in Class(b)
  <2>. SUFFICES ASSUME a \notin Class(b)  PROVE FALSE
    OBVIOUS
  <2>. DEFINE S == Nodes \ Class(b)
  <2>1. \A c \in S, d \in Nodes : Adjacent(c, d) => d \in S
    <3>1. \A c, d : Adjacent(c, d) => Adjacent(d, c)
      BY DEF Adjacent, Joins
    <3>. QED  BY <1>1, <3>1, ClassIsClosed
  <2>2. a \in S
    OBVIOUS
  <2>. HIDE DEF S
  <2>3. Class(a) \subseteq S
    BY <2>1, <2>2, ClassIsLeast
  <2>. QED  BY <1>1, <2>3, ClassIsClosed DEF S
<1>4. Class(a) \subseteq Class(b)
  BY <1>1, <1>3, ClassIsClosed, ClassIsLeast
<1>. QED  BY <1>1, <1>2, <1>4

-----------------------------------------------------------------------------
(* Components.                                                               *)

WalkStates == [stack : SUBSET Nodes, remaining : SUBSET Nodes, members : SUBSET Nodes]

LEMMA NodeCount == IsFiniteSet(Nodes) /\ Cardinality(Nodes) \in Nat
BY GraphAssumption, FS_CardinalityType

(* The bounded recursion of the inner loop is its turns.                     *)
LEMMA ComponentTurns ==
  ASSUME NEW first \in Nodes, NEW rest \in SUBSET Nodes
  PROVE  \E walk \in [0..Cardinality(Nodes) -> WalkStates] :
           /\ walk[0] = [stack |-> {first}, remaining |-> rest, members |-> {}]
           /\ \A n \in 1..Cardinality(Nodes) : walk[n] = Popped(walk[n - 1])
           /\ Component(first, rest) = walk[Cardinality(Nodes)]
PROOF
<1>. DEFINE m == Cardinality(Nodes)
            a == [stack |-> {first}, remaining |-> rest, members |-> {}]
            step == [t \in WalkStates \X (1..m) |-> Popped(t[1])]
            Defines(f) == f = [n \in 0..m |-> IF n = 0 THEN a ELSE Popped(f[n - 1])]
<1>1. a \in WalkStates /\ m \in Nat
  BY NodeCount DEF WalkStates
<1>2. ASSUME NEW w \in WalkStates  PROVE Popped(w) \in WalkStates
  <2>1. CASE w.stack = {}
    BY <2>1 DEF Popped
  <2>2. CASE w.stack # {}
    <3>. DEFINE node == CHOOSE node \in w.stack : TRUE
    <3>1. node \in w.stack
      BY <2>2
    <3>2. /\ w.stack \subseteq Nodes /\ w.remaining \subseteq Nodes
          /\ w.members \subseteq Nodes
      BY DEF WalkStates
    <3>. DEFINE fresh == NeighborsFromEdges(node) \cap w.remaining
    <3>3. Popped(w) = [stack |-> (w.stack \ {node}) \cup fresh,
                       remaining |-> w.remaining \ fresh,
                       members |-> w.members \cup {node}]
      BY <2>2 DEF Popped
    <3>. HIDE DEF fresh, node
    <3>4. fresh \subseteq Nodes
      BY <3>2 DEF fresh
    <3>. QED  BY <3>1, <3>2, <3>3, <3>4 DEF WalkStates
  <2>. QED  BY <2>1, <2>2
<1>3. Component(first, rest) = (CHOOSE g : Defines(g))[m]
  BY DEF Component
<1>. HIDE DEF a, m
<1>4. step \in [WalkStates \X (1..m) -> WalkStates]
  BY <1>2
<1>5. PICK f : Computes(f, WalkStates, a, step, m)
  <2>. HIDE DEF step
  <2>. QED  BY <1>1, <1>4, BoundedIteration
<1>6. ASSUME NEW n \in 1..m  PROVE  f[n] = Popped(f[n - 1])
  <2>1. n - 1 \in 0..m
    BY <1>1
  <2>2. <<f[n - 1], n>> \in WalkStates \X (1..m)
    BY <1>5, <2>1 DEF Computes
  <2>. QED  BY <1>5, <2>2 DEF Computes
<1>. HIDE DEF step
<1>7. Defines(f)
  <2>1. ASSUME NEW n \in 0..m, n # 0  PROVE  n \in 1..m
    BY <2>1
  <2>. QED  BY <1>5, <1>6, <2>1 DEF Computes
<1>. DEFINE walk == CHOOSE g : Defines(g)
<1>8. Defines(walk)
  <2>. HIDE DEF Defines
  <2>. QED  BY <1>7
<1>. HIDE DEF walk
<1>9. walk[0] = a /\ \A n \in 1..m : walk[n] = Popped(walk[n - 1])
  <2>1. \A n \in 0..m : walk[n] = IF n = 0 THEN a ELSE Popped(walk[n - 1])
    BY <1>8
  <2>2. 0 \in 0..m /\ \A n \in 1..m : n \in 0..m /\ n # 0
    BY <1>1
  <2>. QED  BY <2>1, <2>2
<1>10. walk \in [0..m -> WalkStates]
  <2>. DEFINE T == {n \in Nat : n \in 0..m => walk[n] \in WalkStates}
  <2>1. 0 \in T
    BY <1>1, <1>9
  <2>2. ASSUME NEW n \in Nat, n \in T  PROVE n + 1 \in T
    <3>1. ASSUME n + 1 \in 0..m  PROVE walk[n + 1] \in WalkStates
      <4>1. n \in 0..m /\ n + 1 \in 1..m /\ (n + 1) - 1 = n
        BY <1>1, <3>1
      <4>. QED  BY <1>2, <1>9, <2>2, <4>1
    <3>. QED  BY <3>1
  <2>. HIDE DEF T
  <2>3. Nat \subseteq T
    BY <2>1, <2>2, Inductive
  <2>4. \A n \in 0..m : walk[n] \in WalkStates
    BY <1>1, <2>3 DEF T
  <2>. QED  BY <1>8, <2>4
<1>. QED  BY <1>3, <1>9, <1>10 DEF walk, a, m

(* The stack, the members and what remains are apart, and together the nodes *)
(* of the class; the neighbours of members are stacked or members.           *)
WalkOK(w, first, rest, n) ==
  /\ w \in WalkStates
  /\ first \in w.stack \cup w.members
  /\ w.stack \cup w.members \subseteq Class(first)
  /\ w.remaining \subseteq rest
  /\ rest \cup {first} = w.stack \cup w.members \cup w.remaining
  /\ w.stack \cap w.members = {}
  /\ w.stack \cap w.remaining = {}
  /\ w.members \cap w.remaining = {}
  /\ \A a \in w.members, b \in Nodes : Adjacent(a, b) => b \in w.stack \cup w.members
  /\ w.stack = {} \/ Cardinality(w.members) >= n

LEMMA PoppedOK ==
  ASSUME rows \in Views, NEW first \in Nodes, NEW rest \in SUBSET Nodes,
         Class(first) \subseteq rest \cup {first},
         NEW n \in Nat, NEW w, WalkOK(w, first, rest, n)
  PROVE  WalkOK(Popped(w), first, rest, n + 1)
PROOF
<1>1. CASE w.stack = {}
  BY <1>1 DEF WalkOK, Popped
<1>2. CASE w.stack # {}
  <2>. DEFINE node == CHOOSE node \in w.stack : TRUE
              fresh == NeighborsFromEdges(node) \cap w.remaining
              v == Popped(w)
  <2>1. node \in w.stack
    BY <1>2
  <2>2. v = [stack |-> (w.stack \ {node}) \cup fresh,
             remaining |-> w.remaining \ fresh,
             members |-> w.members \cup {node}]
    BY <1>2 DEF Popped
  <2>3. fresh = {b \in w.remaining : b \in Nodes /\ Adjacent(node, b)}
    BY DEF NeighborsFromEdges, Adjacent
  <2>. HIDE DEF v, node, fresh
  <2>4. /\ v.stack = (w.stack \ {node}) \cup fresh
        /\ v.remaining = w.remaining \ fresh
        /\ v.members = w.members \cup {node}
    BY <2>2
  <2>5. /\ w.stack \subseteq Nodes /\ w.remaining \subseteq Nodes
        /\ w.members \subseteq Nodes
    BY DEF WalkOK, WalkStates
  <2>6. v \in WalkStates
    BY <2>1, <2>2, <2>3, <2>5 DEF WalkStates
  <2>7. node \in Class(first) /\ node \in Nodes
    BY <2>1, <2>5 DEF WalkOK
  <2>8. \A b \in Nodes : Adjacent(node, b) => b \in Class(first)
    BY <2>7, ClassIsClosed
  <2>9. v.stack \cup v.members = w.stack \cup w.members \cup fresh
    BY <2>1, <2>4
  <2>10. v.stack \cup v.members \subseteq Class(first)
    BY <2>3, <2>8, <2>9 DEF WalkOK
  <2>11. rest \cup {first} = v.stack \cup v.members \cup v.remaining
    BY <2>3, <2>4, <2>9 DEF WalkOK
  <2>12. /\ v.stack \cap v.members = {} /\ v.stack \cap v.remaining = {}
         /\ v.members \cap v.remaining = {}
    BY <2>1, <2>3, <2>4 DEF WalkOK
  <2>13. ASSUME NEW a \in v.members, NEW b \in Nodes, Adjacent(a, b)
         PROVE  b \in v.stack \cup v.members
    <3>1. CASE a \in w.members
      BY <2>9, <2>13, <3>1 DEF WalkOK
    <3>2. CASE a = node
      <4>1. b \in w.stack \cup w.members \cup w.remaining
        BY <2>8, <2>13, <3>2 DEF WalkOK
      <4>. QED  BY <2>3, <2>9, <2>13, <3>2, <4>1
    <3>. QED  BY <2>4, <3>1, <3>2
  <2>14. Cardinality(v.members) >= n + 1
    <3>1. IsFiniteSet(w.members)
      BY <2>5, NodeCount, FS_Subset
    <3>2. node \notin w.members
      BY <2>1 DEF WalkOK
    <3>3. Cardinality(v.members) = Cardinality(w.members) + 1
          /\ Cardinality(w.members) \in Nat
      BY <2>4, <3>1, <3>2, FS_AddElement, FS_CardinalityType
    <3>. QED  BY <1>2, <3>3 DEF WalkOK
  <2>15. first \in v.stack \cup v.members /\ v.remaining \subseteq rest
    BY <2>4, <2>9 DEF WalkOK
  <2>. QED  BY <2>6, <2>10, <2>11, <2>12, <2>13, <2>14, <2>15 DEF WalkOK, v
<1>. QED  BY <1>1, <1>2

(* The inner loop finds the class of its node and leaves the rest.           *)
LEMMA ComponentIsClass ==
  ASSUME rows \in Views, NEW first \in Nodes, NEW rest \in SUBSET Nodes,
         first \notin rest, Class(first) \subseteq rest \cup {first}
  PROVE  LET walk == Component(first, rest)
         IN  /\ walk.members = Class(first)
             /\ walk.remaining = rest \ Class(first)
PROOF
<1>. DEFINE m == Cardinality(Nodes)
<1>1. PICK walk \in [0..m -> WalkStates] :
        /\ walk[0] = [stack |-> {first}, remaining |-> rest, members |-> {}]
        /\ \A n \in 1..m : walk[n] = Popped(walk[n - 1])
        /\ Component(first, rest) = walk[m]
  BY ComponentTurns
<1>2. m \in Nat
  BY NodeCount
<1>. HIDE DEF m
<1>. DEFINE T == {n \in Nat : n \in 0..m => WalkOK(walk[n], first, rest, n)}
<1>3. 0 \in T
  <2>1. walk[0] \in WalkStates
    <3>1. 0 \in 0..m
      BY <1>2
    <3>. HIDE DEF WalkOK
    <3>. QED  BY <3>1
  <2>2. first \in Class(first)
    BY ClassIsClosed
  <2>3. Cardinality({}) = 0
    BY FS_EmptySet
  <2>4. WalkOK(walk[0], first, rest, 0)
    <3>. DEFINE w == walk[0]
    <3>1. w.stack = {first} /\ w.remaining = rest /\ w.members = {}
      BY <1>1
    <3>. HIDE DEF w
    <3>2. Cardinality(w.members) >= 0
      BY <2>3, <3>1
    <3>. QED  BY <2>1, <2>2, <3>1, <3>2 DEF WalkOK, w
  <2>. QED  BY <2>4
<1>4. ASSUME NEW n \in Nat, n \in T  PROVE n + 1 \in T
  <2>1. ASSUME n + 1 \in 0..m  PROVE WalkOK(walk[n + 1], first, rest, n + 1)
    <3>1. n \in 0..m /\ n + 1 \in 1..m /\ (n + 1) - 1 = n
      BY <1>2, <2>1
    <3>2. WalkOK(walk[n], first, rest, n) /\ walk[n + 1] = Popped(walk[n])
      BY <1>1, <1>4, <3>1
    <3>. QED  BY <3>2, PoppedOK
  <2>. QED  BY <2>1
<1>. HIDE DEF T
<1>5. Nat \subseteq T
  BY <1>3, <1>4, Inductive
<1>. DEFINE w == walk[m]
<1>6. WalkOK(w, first, rest, m)
  <2>1. m \in T /\ m \in 0..m
    BY <1>2, <1>5
  <2>. QED  BY <2>1 DEF T
<1>. HIDE DEF w
<1>7. w.members \subseteq Nodes /\ w.stack \subseteq Nodes
  BY <1>6 DEF WalkOK, WalkStates
<1>8. w.stack = {}
  <2>1. CASE Cardinality(w.members) >= m
    <3>1. w.members = Nodes
      <4>1. w.members \in SUBSET Nodes
        BY <1>7
      <4>2. /\ Cardinality(w.members) <= m /\ Cardinality(w.members) \in Nat
            /\ m = Cardinality(w.members) => Nodes = w.members
        BY <4>1, NodeCount, FS_Subset, FS_CardinalityType DEF m
      <4>. QED  BY <1>2, <2>1, <4>2
    <3>. QED  BY <1>6, <1>7, <3>1 DEF WalkOK
  <2>. QED  BY <1>6, <2>1 DEF WalkOK
<1>9. Class(first) \subseteq w.members
  <2>1. first \in w.members
        /\ \A a \in w.members, b \in Nodes : Adjacent(a, b) => b \in w.members
    BY <1>6, <1>8 DEF WalkOK
  <2>. QED  BY <2>1, ClassIsLeast
<1>10. w.members = Class(first) /\ w.remaining = rest \ Class(first)
  BY <1>6, <1>8, <1>9, ClassIsClosed DEF WalkOK
<1>. QED  BY <1>1, <1>10 DEF w

FoundStates == [components : SUBSET (SUBSET Nodes), remaining : SUBSET Nodes]

(* The bounded recursion of the outer loop is its turns.                      *)
LEMMA ComponentsTurns ==
  \E turn \in [0..Cardinality(Nodes) -> FoundStates] :
    /\ turn[0] = [components |-> {}, remaining |-> Nodes]
    /\ \A n \in 1..Cardinality(Nodes) : turn[n] = NextComponent(turn[n - 1])
    /\ ConnectedComponents = turn[Cardinality(Nodes)].components
PROOF
<1>. DEFINE m == Cardinality(Nodes)
            a == [components |-> {}, remaining |-> Nodes]
            step == [t \in FoundStates \X (1..m) |-> NextComponent(t[1])]
            Defines(f) == f = [n \in 0..m |-> IF n = 0 THEN a ELSE NextComponent(f[n - 1])]
<1>1. a \in FoundStates /\ m \in Nat
  BY NodeCount DEF FoundStates
<1>2. ASSUME NEW w \in FoundStates  PROVE NextComponent(w) \in FoundStates
  <2>1. CASE w.remaining = {}
    BY <2>1 DEF NextComponent
  <2>2. CASE w.remaining # {}
    <3>. DEFINE first == CHOOSE node \in w.remaining : TRUE
                rest == w.remaining \ {first}
                walk == Component(first, rest)
    <3>1. first \in w.remaining
      BY <2>2
    <3>2. w.remaining \subseteq Nodes /\ w.components \subseteq SUBSET Nodes
      BY DEF FoundStates
    <3>3. NextComponent(w) = [components |-> w.components \cup {walk.members},
                              remaining |-> walk.remaining]
      BY <2>2 DEF NextComponent
    <3>. HIDE DEF walk, first
    <3>4. first \in Nodes /\ rest \in SUBSET Nodes
      BY <3>1, <3>2
    <3>. HIDE DEF rest
    <3>5. walk \in WalkStates
      <4>1. PICK turn \in [0..m -> WalkStates] : walk = turn[m]
        BY <3>4, ComponentTurns DEF walk
      <4>2. m \in 0..m
        BY <1>1
      <4>. HIDE DEF m
      <4>. QED  BY <4>1, <4>2
    <3>6. walk.members \subseteq Nodes /\ walk.remaining \subseteq Nodes
      BY <3>5 DEF WalkStates
    <3>. QED  BY <3>2, <3>3, <3>6 DEF FoundStates
  <2>. QED  BY <2>1, <2>2
<1>3. ConnectedComponents = (CHOOSE g : Defines(g))[m].components
  BY DEF ConnectedComponents
<1>. HIDE DEF a, m
<1>4. step \in [FoundStates \X (1..m) -> FoundStates]
  BY <1>2
<1>5. PICK f : Computes(f, FoundStates, a, step, m)
  <2>. HIDE DEF step
  <2>. QED  BY <1>1, <1>4, BoundedIteration
<1>6. ASSUME NEW n \in 1..m  PROVE  f[n] = NextComponent(f[n - 1])
  <2>1. n - 1 \in 0..m
    BY <1>1
  <2>2. <<f[n - 1], n>> \in FoundStates \X (1..m)
    BY <1>5, <2>1 DEF Computes
  <2>. QED  BY <1>5, <2>2 DEF Computes
<1>. HIDE DEF step
<1>7. Defines(f)
  <2>1. ASSUME NEW n \in 0..m, n # 0  PROVE  n \in 1..m
    BY <2>1
  <2>. QED  BY <1>5, <1>6, <2>1 DEF Computes
<1>. DEFINE turn == CHOOSE g : Defines(g)
<1>8. Defines(turn)
  <2>. HIDE DEF Defines
  <2>. QED  BY <1>7
<1>. HIDE DEF turn
<1>9. turn[0] = a /\ \A n \in 1..m : turn[n] = NextComponent(turn[n - 1])
  <2>1. \A n \in 0..m : turn[n] = IF n = 0 THEN a ELSE NextComponent(turn[n - 1])
    BY <1>8
  <2>2. 0 \in 0..m /\ \A n \in 1..m : n \in 0..m /\ n # 0
    BY <1>1
  <2>. QED  BY <2>1, <2>2
<1>10. turn \in [0..m -> FoundStates]
  <2>. DEFINE T == {n \in Nat : n \in 0..m => turn[n] \in FoundStates}
  <2>1. 0 \in T
    BY <1>1, <1>9
  <2>2. ASSUME NEW n \in Nat, n \in T  PROVE n + 1 \in T
    <3>1. ASSUME n + 1 \in 0..m  PROVE turn[n + 1] \in FoundStates
      <4>1. n \in 0..m /\ n + 1 \in 1..m /\ (n + 1) - 1 = n
        BY <1>1, <3>1
      <4>. QED  BY <1>2, <1>9, <2>2, <4>1
    <3>. QED  BY <3>1
  <2>. HIDE DEF T
  <2>3. Nat \subseteq T
    BY <2>1, <2>2, Inductive
  <2>4. \A n \in 0..m : turn[n] \in FoundStates
    BY <1>1, <2>3 DEF T
  <2>. QED  BY <1>8, <2>4
<1>. QED  BY <1>3, <1>9, <1>10 DEF turn, a, m

(* The components found are the classes of the nodes taken, and what remains *)
(* is whole classes.                                                         *)
FoundOK(f, n) ==
  /\ f \in FoundStates
  /\ f.components = {Class(a) : a \in Nodes \ f.remaining}
  /\ \A a \in f.remaining : Class(a) \subseteq f.remaining
  /\ f.remaining = {} \/ Cardinality(Nodes \ f.remaining) >= n

LEMMA NextComponentOK ==
  ASSUME rows \in Views, NEW n \in Nat, NEW f, FoundOK(f, n)
  PROVE  FoundOK(NextComponent(f), n + 1)
PROOF
<1>1. CASE f.remaining = {}
  BY <1>1 DEF FoundOK, NextComponent
<1>2. CASE f.remaining # {}
  <2>. DEFINE first == CHOOSE node \in f.remaining : TRUE
              rest == f.remaining \ {first}
              walk == Component(first, rest)
              g == NextComponent(f)
  <2>1. first \in f.remaining
    BY <1>2
  <2>2. g = [components |-> f.components \cup {walk.members}, remaining |-> walk.remaining]
    BY <1>2 DEF NextComponent
  <2>3. f.remaining \subseteq Nodes /\ f.components \subseteq SUBSET Nodes
    BY DEF FoundOK, FoundStates
  <2>. HIDE DEF first, g
  <2>4. first \in Nodes /\ first \in Class(first) /\ Class(first) \subseteq f.remaining
        /\ Class(first) \subseteq Nodes
    BY <2>1, <2>3, ClassIsClosed DEF FoundOK
  <2>5. walk.members = Class(first) /\ walk.remaining = rest \ Class(first)
    <3>1. rest \in SUBSET Nodes /\ first \notin rest /\ Class(first) \subseteq rest \cup {first}
      BY <2>1, <2>3, <2>4
    <3>. HIDE DEF rest
    <3>. QED  BY <2>4, <3>1, ComponentIsClass
  <2>. HIDE DEF walk
  <2>6. /\ g.components = f.components \cup {Class(first)}
        /\ g.remaining = f.remaining \ Class(first)
    BY <2>2, <2>4, <2>5
  <2>7. g \in FoundStates
    <3>1. g.components \subseteq SUBSET Nodes /\ g.remaining \subseteq Nodes
      BY <2>3, <2>4, <2>6
    <3>. QED  BY <2>2, <3>1 DEF FoundStates
  <2>8. Nodes \ g.remaining = (Nodes \ f.remaining) \cup Class(first)
    BY <2>4, <2>6
  <2>9. \A a \in Class(first) : Class(a) = Class(first)
    BY <2>4, ClassesAreEqual
  <2>10. g.components = {Class(a) : a \in Nodes \ g.remaining}
    <3>. DEFINE K(a) == Class(a)
    <3>1. f.components = {K(a) : a \in Nodes \ f.remaining}
      BY DEF FoundOK
    <3>2. first \in Class(first) /\ \A a \in Class(first) : K(a) = K(first)
      BY <2>4, <2>9
    <3>3. g.components = f.components \cup {K(first)}
      BY <2>6
    <3>. HIDE DEF K
    <3>. QED  BY <2>8, <3>1, <3>2, <3>3 DEF K
  <2>11. ASSUME NEW a \in g.remaining  PROVE  Class(a) \subseteq g.remaining
    <3>1. a \in f.remaining /\ a \notin Class(first) /\ a \in Nodes
      BY <2>3, <2>6
    <3>2. ASSUME NEW b \in Class(a), b \in Class(first)  PROVE FALSE
      <4>1. Class(b) = Class(a) /\ Class(b) = Class(first)
        BY <2>4, <3>1, <3>2, ClassesAreEqual
      <4>. QED  BY <3>1, <4>1, ClassIsClosed
    <3>. QED  BY <2>6, <3>1, <3>2 DEF FoundOK
  <2>12. Cardinality(Nodes \ g.remaining) >= n + 1
    <3>. DEFINE A == Nodes \ f.remaining
                B == Nodes \ g.remaining
    <3>1. IsFiniteSet(A) /\ IsFiniteSet(B)
      BY NodeCount, FS_Subset
    <3>2. first \notin A /\ A \cup {first} \subseteq B
      BY <2>1, <2>4, <2>8
    <3>3. Cardinality(A) >= n
      BY <1>2 DEF FoundOK
    <3>. HIDE DEF A, B
    <3>4. Cardinality(A \cup {first}) = Cardinality(A) + 1
      BY <3>1, <3>2, FS_AddElement
    <3>5. Cardinality(A \cup {first}) <= Cardinality(B)
      BY <3>1, <3>2, FS_Subset
    <3>6. Cardinality(A) \in Nat /\ Cardinality(B) \in Nat
      BY <3>1, FS_CardinalityType
    <3>7. Cardinality(B) >= n + 1
      BY <3>3, <3>4, <3>5, <3>6
    <3>. QED  BY <3>7 DEF B
  <2>. QED  BY <2>7, <2>10, <2>11, <2>12 DEF FoundOK, g
<1>. QED  BY <1>1, <1>2

(* The components are the classes of nodes joined by paths.                  *)
LEMMA ComponentsAreClasses ==
  ASSUME rows \in Views
  PROVE  ConnectedComponents = {Class(a) : a \in Nodes}
PROOF
<1>. DEFINE m == Cardinality(Nodes)
<1>1. PICK turn \in [0..m -> FoundStates] :
        /\ turn[0] = [components |-> {}, remaining |-> Nodes]
        /\ \A n \in 1..m : turn[n] = NextComponent(turn[n - 1])
        /\ ConnectedComponents = turn[m].components
  BY ComponentsTurns
<1>2. m \in Nat
  BY NodeCount
<1>. HIDE DEF m
<1>. DEFINE T == {n \in Nat : n \in 0..m => FoundOK(turn[n], n)}
<1>3. 0 \in T
  <2>. DEFINE f == turn[0]
  <2>1. f \in FoundStates
    <3>1. 0 \in 0..m
      BY <1>2
    <3>. QED  BY <3>1
  <2>2. f.components = {} /\ f.remaining = Nodes
    BY <1>1
  <2>. HIDE DEF f
  <2>3. Nodes \ f.remaining = {} /\ \A a \in f.remaining : Class(a) \subseteq f.remaining
    BY <2>2 DEF Class
  <2>4. Cardinality(Nodes \ f.remaining) >= 0
    BY <2>3, FS_EmptySet
  <2>5. FoundOK(f, 0)
    BY <2>1, <2>2, <2>3, <2>4 DEF FoundOK
  <2>. QED  BY <2>5 DEF f
<1>4. ASSUME NEW n \in Nat, n \in T  PROVE n + 1 \in T
  <2>1. ASSUME n + 1 \in 0..m  PROVE FoundOK(turn[n + 1], n + 1)
    <3>1. n \in 0..m /\ n + 1 \in 1..m /\ (n + 1) - 1 = n
      BY <1>2, <2>1
    <3>2. FoundOK(turn[n], n) /\ turn[n + 1] = NextComponent(turn[n])
      BY <1>1, <1>4, <3>1
    <3>. QED  BY <3>2, NextComponentOK
  <2>. QED  BY <2>1
<1>. HIDE DEF T
<1>5. Nat \subseteq T
  BY <1>3, <1>4, Inductive
<1>. DEFINE f == turn[m]
<1>6. FoundOK(f, m)
  <2>1. m \in T /\ m \in 0..m
    BY <1>2, <1>5
  <2>. QED  BY <2>1 DEF T
<1>. HIDE DEF f
<1>7. f.remaining = {}
  <2>1. f.remaining \subseteq Nodes
    BY <1>6 DEF FoundOK, FoundStates
  <2>. DEFINE A == Nodes \ f.remaining
  <2>2. A \in SUBSET Nodes
    OBVIOUS
  <2>3. CASE Cardinality(A) >= m
    <3>. HIDE DEF A
    <3>1. /\ Cardinality(A) <= m /\ Cardinality(A) \in Nat
          /\ m = Cardinality(A) => Nodes = A
      BY <2>2, NodeCount, FS_Subset, FS_CardinalityType DEF m
    <3>2. Nodes = A
      BY <1>2, <2>3, <3>1
    <3>. QED  BY <2>1, <3>2 DEF A
  <2>. QED  BY <1>6, <2>3 DEF FoundOK
<1>8. f.components = {Class(a) : a \in Nodes}
  <2>1. Nodes \ f.remaining = Nodes
    BY <1>7
  <2>2. f.components = {Class(a) : a \in Nodes \ f.remaining}
    BY <1>6 DEF FoundOK
  <2>. QED  BY <2>1, <2>2
<1>. QED  BY <1>1, <1>8 DEF f

-----------------------------------------------------------------------------
(* Labels.                                                                   *)

Labellings == [Nodes -> Nat]

(* The labels most neighbours have: some label is among them, the smallest   *)
(* of them is one a neighbour has.                                           *)
LEMMA MostCommon ==
  ASSUME NEW heard, heard \subseteq Nat, heard # {}, NEW bound \in Nat,
         NEW count, \A label \in heard : count[label] \in 0..bound
  PROVE  LET most == {label \in heard : \A other \in heard : count[label] >= count[other]}
         IN  Min(most) \in heard
PROOF
<1>. DEFINE most == {label \in heard : \A other \in heard : count[label] >= count[other]}
            missing == {bound - count[label] : label \in heard}
<1>1. missing \subseteq Nat /\ missing # {}
  <2>1. \A label \in heard : bound - count[label] \in Nat
    OBVIOUS
  <2>2. missing \subseteq Nat
    BY <2>1
  <2>3. missing # {}
    OBVIOUS
  <2>. QED  BY <2>2, <2>3
<1>2. PICK x \in missing : \A y \in missing : x <= y
  BY <1>1, LeastNatural
<1>3. PICK label \in heard : x = bound - count[label]
  BY <1>2
<1>4. \A other \in heard : bound - count[label] <= bound - count[other]
  BY <1>2, <1>3
<1>5. label \in most
  BY <1>4
<1>6. most \subseteq Nat /\ most # {} /\ most \subseteq heard
  BY <1>5
<1>. HIDE DEF most, missing
<1>7. PICK least \in most : \A y \in most : least <= y
  BY <1>6, LeastNatural
<1>8. Min(most) \in most
  BY <1>7 DEF Min
<1>. QED  BY <1>6, <1>8 DEF most

(* A node's next label is its anchor's, its own or a neighbour's, and it has *)
(* none only when neither an anchor nor a neighbour gives it one.            *)
LEMMA NextLabel ==
  ASSUME rows \in Views, anchors \in Labellings, NEW labels \in Labellings,
         NEW node \in Nodes
  PROVE  LET label == MajorityLabel(node, labels)
         IN /\ label \in Nat
            /\ \/ label = anchors[node] \/ label = labels[node]
               \/ \E other \in Nodes : Adjacent(node, other) /\ label = labels[other]
            /\ label = 0 =>
                 /\ anchors[node] = 0
                 /\ \A other \in Nodes : Adjacent(node, other) => labels[other] = 0
PROOF
<1>. DEFINE around == {other \in NeighborsFromEdges(node) : labels[other] # 0}
            agree(label) == {other \in around : labels[other] = label}
            heard == {labels[other] : other \in around}
            count == [label \in heard |-> Cardinality(agree(label))]
            most == {label \in heard : \A other \in heard :
                       Cardinality(agree(label)) >= Cardinality(agree(other))}
            found == MajorityLabel(node, labels)
<1>1. found = IF anchors[node] # 0 THEN anchors[node]
               ELSE IF heard = {} THEN labels[node] ELSE Min(most)
  BY DEF MajorityLabel
<1>2. NeighborsFromEdges(node) = {other \in Nodes : Adjacent(node, other)}
  BY DEF NeighborsFromEdges, Adjacent
<1>3. \A other \in Nodes : labels[other] \in Nat /\ anchors[other] \in Nat
  BY DEF Labellings
<1>4. around = {other \in Nodes : Adjacent(node, other) /\ labels[other] # 0}
  BY <1>2
<1>5. heard \subseteq Nat /\ 0 \notin heard
  BY <1>3, <1>4
<1>6. \A label \in heard : \E other \in Nodes : Adjacent(node, other) /\ label = labels[other]
  BY <1>4
<1>7. heard # {} => Min(most) \in heard
  <2>. SUFFICES ASSUME heard # {}  PROVE Min(most) \in heard
    OBVIOUS
  <2>1. ASSUME NEW label \in heard  PROVE count[label] \in 0..Cardinality(Nodes)
    <3>. DEFINE A == agree(label)
    <3>1. A \in SUBSET Nodes /\ count[label] = Cardinality(A)
      BY <1>4
    <3>. HIDE DEF A, count
    <3>2. Cardinality(A) <= Cardinality(Nodes) /\ Cardinality(A) \in Nat
      BY <3>1, NodeCount, FS_Subset, FS_CardinalityType
    <3>. QED  BY <3>1, <3>2, NodeCount
  <2>2. most = {label \in heard : \A other \in heard : count[label] >= count[other]}
    OBVIOUS
  <2>. HIDE DEF heard, count, most
  <2>. QED  BY <1>5, <2>1, <2>2, NodeCount, MostCommon
<1>8. heard = {} => \A other \in Nodes : Adjacent(node, other) => labels[other] = 0
  BY <1>4
<1>. HIDE DEF heard, most, found
<1>9. CASE anchors[node] # 0
  BY <1>1, <1>3, <1>9 DEF found
<1>10. CASE anchors[node] = 0 /\ heard = {}
  BY <1>1, <1>3, <1>8, <1>10 DEF found
<1>11. CASE anchors[node] = 0 /\ heard # {}
  <2>1. found \in heard
    BY <1>1, <1>7, <1>11
  <2>2. found \in Nat /\ found # 0
    BY <1>5, <2>1
  <2>. QED  BY <1>6, <2>1, <2>2 DEF found
<1>. QED  BY <1>9, <1>10, <1>11

(* The last round changes nothing, so that every turn is a round.            *)
LEMMA EveryTurnIsARound ==
  ASSUME rows \in Views, anchors \in Labellings, NEW labels \in Labellings
  PROVE  /\ Propagated(labels) \in Labellings
         /\ \A node \in Nodes : Propagated(labels)[node] = MajorityLabel(node, labels)
PROOF
<1>1. Propagated(labels) = Round(labels)
  BY DEF Propagated, Settled
<1>2. Round(labels) = [node \in Nodes |-> MajorityLabel(node, labels)]
  BY DEF Round
<1>3. \A node \in Nodes : MajorityLabel(node, labels) \in Nat
  BY NextLabel
<1>. QED  BY <1>1, <1>2, <1>3 DEF Labellings

(* The bounded recursion of label propagation is its turns.                   *)
LEMMA LabelTurns ==
  ASSUME rows \in Views, anchors \in Labellings
  PROVE  \E turn \in [0..MaxIterations -> Labellings] :
           /\ turn[0] = anchors
           /\ \A n \in 1..MaxIterations : turn[n] = Propagated(turn[n - 1])
           /\ LabelPropagation = turn[MaxIterations]
PROOF
<1>. DEFINE m == MaxIterations
            a == anchors
            step == [t \in Labellings \X (1..m) |-> Propagated(t[1])]
            Defines(f) == f = [n \in 0..m |-> IF n = 0 THEN a ELSE Propagated(f[n - 1])]
<1>1. a \in Labellings /\ m \in Nat
  BY LabelAssumption
<1>2. ASSUME NEW w \in Labellings  PROVE Propagated(w) \in Labellings
  BY EveryTurnIsARound
<1>3. LabelPropagation = (CHOOSE g : Defines(g))[m]
  BY DEF LabelPropagation
<1>. HIDE DEF a, m
<1>4. step \in [Labellings \X (1..m) -> Labellings]
  BY <1>2
<1>5. PICK f : Computes(f, Labellings, a, step, m)
  <2>. HIDE DEF step
  <2>. QED  BY <1>1, <1>4, BoundedIteration
<1>6. ASSUME NEW n \in 1..m  PROVE  f[n] = Propagated(f[n - 1])
  <2>1. n - 1 \in 0..m
    BY <1>1
  <2>2. <<f[n - 1], n>> \in Labellings \X (1..m)
    BY <1>5, <2>1 DEF Computes
  <2>. QED  BY <1>5, <2>2 DEF Computes
<1>. HIDE DEF step
<1>7. Defines(f)
  <2>1. ASSUME NEW n \in 0..m, n # 0  PROVE  n \in 1..m
    BY <2>1
  <2>. QED  BY <1>5, <1>6, <2>1 DEF Computes
<1>. DEFINE turn == CHOOSE g : Defines(g)
<1>8. Defines(turn)
  <2>. HIDE DEF Defines
  <2>. QED  BY <1>7
<1>. HIDE DEF turn
<1>9. turn[0] = a /\ \A n \in 1..m : turn[n] = Propagated(turn[n - 1])
  <2>1. \A n \in 0..m : turn[n] = IF n = 0 THEN a ELSE Propagated(turn[n - 1])
    BY <1>8
  <2>2. 0 \in 0..m /\ \A n \in 1..m : n \in 0..m /\ n # 0
    BY <1>1
  <2>. QED  BY <2>1, <2>2
<1>10. turn \in [0..m -> Labellings]
  <2>. DEFINE T == {n \in Nat : n \in 0..m => turn[n] \in Labellings}
  <2>1. 0 \in T
    BY <1>1, <1>9
  <2>2. ASSUME NEW n \in Nat, n \in T  PROVE n + 1 \in T
    <3>1. ASSUME n + 1 \in 0..m  PROVE turn[n + 1] \in Labellings
      <4>1. n \in 0..m /\ n + 1 \in 1..m /\ (n + 1) - 1 = n
        BY <1>1, <3>1
      <4>. QED  BY <1>2, <1>9, <2>2, <4>1
    <3>. QED  BY <3>1
  <2>. HIDE DEF T
  <2>3. Nat \subseteq T
    BY <2>1, <2>2, Inductive
  <2>4. \A n \in 0..m : turn[n] \in Labellings
    BY <1>1, <2>3 DEF T
  <2>. QED  BY <1>8, <2>4
<1>. QED  BY <1>3, <1>9, <1>10 DEF turn, a, m

(* Labels come from the node's class, and after n rounds the nodes within n  *)
(* relationships of an anchored one have a label.                            *)
LabelsOK(labels, n) ==
  /\ labels \in Labellings
  /\ \A node \in Nodes :
       labels[node] # 0 => \E other \in Class(node) : anchors[other] = labels[node]
  /\ \A a \in Nodes : anchors[a] # 0 =>
       \A k \in 0..n : \A p \in SimplePaths(rows, a)[k] : labels[LastNode(p)] # 0

LEMMA RoundOK ==
  ASSUME rows \in Views, anchors \in Labellings, NEW n \in Nat,
         NEW labels, LabelsOK(labels, n)
  PROVE  LabelsOK(Propagated(labels), n + 1)
PROOF
<1>. DEFINE later == Propagated(labels)
<1>1. labels \in Labellings
  BY DEF LabelsOK
<1>2. /\ later \in Labellings
      /\ \A node \in Nodes : later[node] = MajorityLabel(node, labels)
  BY <1>1, EveryTurnIsARound
<1>. HIDE DEF later
<1>3. ASSUME NEW node \in Nodes, later[node] # 0
      PROVE  \E other \in Class(node) : anchors[other] = later[node]
  <2>1. \/ later[node] = anchors[node] \/ later[node] = labels[node]
        \/ \E other \in Nodes : Adjacent(node, other) /\ later[node] = labels[other]
    BY <1>1, <1>2, NextLabel
  <2>2. CASE later[node] = anchors[node]
    BY <2>2, ClassIsClosed
  <2>3. CASE later[node] = labels[node]
    BY <1>3, <2>3 DEF LabelsOK
  <2>4. ASSUME NEW other \in Nodes, Adjacent(node, other), later[node] = labels[other]
        PROVE  \E o \in Class(node) : anchors[o] = later[node]
    <3>1. other \in Class(node)
      BY <2>4, ClassIsClosed
    <3>2. Class(other) = Class(node)
      BY <3>1, ClassesAreEqual
    <3>3. \E o \in Class(other) : anchors[o] = labels[other]
      BY <1>3, <2>4 DEF LabelsOK
    <3>. QED  BY <2>4, <3>2, <3>3
  <2>. QED  BY <2>1, <2>2, <2>3, <2>4
<1>4. ASSUME NEW a \in Nodes, anchors[a] # 0, NEW k \in 0..(n + 1),
             NEW p \in SimplePaths(rows, a)[k]
      PROVE  later[LastNode(p)] # 0
  <2>1. CASE k = 0
    <3>1. LastNode(p) = a
      BY <2>1, PathsByLength, TrivialOK
    <3>2. MajorityLabel(a, labels) # 0
      BY <1>1, <1>4, NextLabel
    <3>. QED  BY <1>2, <3>1, <3>2
  <2>2. CASE k # 0
    <3>1. k - 1 \in 0..n /\ k - 1 \in Nat /\ (k - 1) + 1 = k
      BY <2>2
    <3>2. p \in SimplePaths(rows, a)[(k - 1) + 1]
      BY <3>1
    <3>3. PICK o \in SimplePaths(rows, a)[k - 1], r \in Shown[rows], node \in Nodes :
            /\ Joins(r, LastNode(o), node) /\ ~Visits(o, node)
            /\ p = Extension(o, r, node)
      BY <3>1, <3>2, LastStep
    <3>4. PathOK(o, k - 1) /\ r \in Rels /\ LastNode(o) \in Nodes
      BY <3>1, PathsOK, PathsAreShort, GraphAssumption
    <3>5. LastNode(p) = node
      BY <3>1, <3>3, <3>4, ExtensionOK
    <3>6. Adjacent(node, LastNode(o))
      BY <3>3, RowsAreShown DEF Adjacent, Joins
    <3>7. labels[LastNode(o)] # 0
      BY <1>4, <3>1 DEF LabelsOK
    <3>8. MajorityLabel(node, labels) # 0
      BY <1>1, <3>4, <3>6, <3>7, NextLabel
    <3>. QED  BY <1>2, <3>5, <3>8
  <2>. QED  BY <2>1, <2>2
<1>5. LabelsOK(later, n + 1)
  BY <1>2, <1>3, <1>4 DEF LabelsOK
<1>. QED  BY <1>5 DEF later

LEMMA LabelsSpread ==
  ASSUME rows \in Views, anchors \in Labellings
  PROVE  LabelsOK(LabelPropagation, MaxIterations)
PROOF
<1>. DEFINE m == MaxIterations
<1>1. PICK turn \in [0..m -> Labellings] :
        /\ turn[0] = anchors
        /\ \A n \in 1..m : turn[n] = Propagated(turn[n - 1])
        /\ LabelPropagation = turn[m]
  BY LabelTurns
<1>2. m \in Nat
  BY LabelAssumption
<1>. HIDE DEF m
<1>. DEFINE T == {n \in Nat : n \in 0..m => LabelsOK(turn[n], n)}
<1>3. 0 \in T
  <2>1. \A node \in Nodes : node \in Class(node)
    BY ClassIsClosed
  <2>2. \A a \in Nodes : \A k \in 0..0 : \A p \in SimplePaths(rows, a)[k] : LastNode(p) = a
    BY PathsByLength, TrivialOK
  <2>3. LabelsOK(anchors, 0)
    BY <2>1, <2>2 DEF LabelsOK
  <2>. QED  BY <1>1, <2>3
<1>4. ASSUME NEW n \in Nat, n \in T  PROVE n + 1 \in T
  <2>1. ASSUME n + 1 \in 0..m  PROVE LabelsOK(turn[n + 1], n + 1)
    <3>1. n \in 0..m /\ n + 1 \in 1..m /\ (n + 1) - 1 = n
      BY <1>2, <2>1
    <3>2. LabelsOK(turn[n], n) /\ turn[n + 1] = Propagated(turn[n])
      BY <1>1, <1>4, <3>1
    <3>. QED  BY <3>2, RoundOK
  <2>. QED  BY <2>1
<1>. HIDE DEF T
<1>5. m \in T /\ m \in 0..m
  BY <1>2, <1>3, <1>4, Inductive
<1>. QED  BY <1>1, <1>5 DEF T, m

(* Components are the classes of nodes joined by paths, labels stay in them, *)
(* and a node within as many relationships of an anchored one as there are   *)
(* rounds has a label, for every graph, list of its relationships, choice of *)
(* anchors and number of rounds.                                             *)
THEOREM LabelsStayInComponents == Spec => []LabelsFollowComponents
PROOF
<1>1. DataOK => LabelsFollowComponents
  <2>. SUFFICES ASSUME DataOK  PROVE LabelsFollowComponents
    OBVIOUS
  <2>1. rows \in Views /\ anchors \in Labellings
    BY DEF DataOK, Labellings
  <2>2. ConnectedComponents = {Class(a) : a \in Nodes}
    BY <2>1, ComponentsAreClasses
  <2>3. LabelsOK(LabelPropagation, MaxIterations)
    BY <2>1, LabelsSpread
  <2>4. ASSUME NEW node \in Nodes, NEW other \in Nodes,
               LabelPropagation[node] = 0, Linked(other, node, MaxIterations)
        PROVE  anchors[other] = 0
    BY <2>3, <2>4 DEF LabelsOK, Linked
  <2>. HIDE DEF LabelsOK
  <2>5. \A node \in Nodes : LabelPropagation[node] # 0 =>
          \E other \in Class(node) : anchors[other] = LabelPropagation[node]
    BY <2>3 DEF LabelsOK
  <2>. QED  BY <2>2, <2>4, <2>5 DEF LabelsFollowComponents
<1>. QED  BY <1>1, DataHolds, PTL

-----------------------------------------------------------------------------
(* Splits.                                                                   *)

(* The recursion of Filled, one model at a time.                             *)
LEMMA FilledTurns ==
  ASSUME NEW models \in Seq(Seq(Nat))
  PROVE  \E kept :
           /\ kept[0] = <<>>
           /\ \A n \in 1..Len(models) :
                kept[n] = IF models[n] = <<>> THEN kept[n - 1]
                          ELSE Append(kept[n - 1], models[n])
           /\ Filled(models) = kept[Len(models)]
PROOF
<1>. DEFINE X == Seq(Seq(Nat))
            longer(done, e) == IF e = <<>> THEN done ELSE Append(done, e)
            step == [t \in X \X (1..Len(models)) |-> longer(t[1], models[t[2]])]
            Defines(f) == f = [n \in 0..Len(models) |->
                                 IF n = 0 THEN <<>>
                                 ELSE IF models[n] = <<>> THEN f[n - 1]
                                 ELSE Append(f[n - 1], models[n])]
<1>1. PICK m \in Nat : m = Len(models) /\ \A i \in 1..m : models[i] \in Seq(Nat)
  BY LenProperties
<1>2. <<>> \in X
  OBVIOUS
<1>3. step \in [X \X (1..m) -> X]
  BY <1>1
<1>4. PICK f : Computes(f, X, <<>>, step, m)
  <2>. HIDE DEF X, step
  <2>. QED  BY <1>2, <1>3, BoundedIteration
<1>5. ASSUME NEW n \in 1..m  PROVE  f[n] = longer(f[n - 1], models[n])
  <2>1. n - 1 \in 0..m
    OBVIOUS
  <2>2. <<f[n - 1], n>> \in X \X (1..m)
    BY <1>4, <2>1 DEF Computes
  <2>. QED  BY <1>1, <1>4, <2>2 DEF Computes
<1>. HIDE DEF step
<1>6. Defines(f)
  <2>1. ASSUME NEW n \in 0..m, n # 0  PROVE  n \in 1..m
    BY <2>1
  <2>. QED  BY <1>1, <1>4, <1>5, <2>1 DEF Computes
<1>. DEFINE kept == CHOOSE g : Defines(g)
<1>7. Defines(kept)
  <2>. HIDE DEF Defines
  <2>. QED  BY <1>6
<1>8. Filled(models) = kept[m]
  BY <1>1 DEF Filled
<1>. HIDE DEF kept
<1>9. kept[0] = <<>> /\ \A n \in 1..m : kept[n] = longer(kept[n - 1], models[n])
  <2>1. \A n \in 0..m : kept[n] = IF n = 0 THEN <<>>
                                ELSE IF models[n] = <<>> THEN kept[n - 1]
                                ELSE Append(kept[n - 1], models[n])
    BY <1>1, <1>7
  <2>2. 0 \in 0..m /\ \A n \in 1..m : n \in 0..m /\ n # 0
    OBVIOUS
  <2>. QED  BY <2>1, <2>2
<1>. HIDE DEF Defines
<1>. QED  BY <1>1, <1>8, <1>9

LEMMA PrefixIsSequence ==
  ASSUME NEW S, NEW t \in Seq(S), NEW n \in 0..Len(t)
  PROVE  SubSeq(t, 1, n) \in Seq(S)
PROOF
<1>1. n \in Int /\ 1 \in Int /\ n <= Len(t)
  OBVIOUS
<1>2. ASSUME NEW i \in 1..n  PROVE t[i] \in S
  <2>1. i \in 1..Len(t)
    BY <1>1, <1>2
  <2>. QED  BY <2>1, ElementOfSeq
<1>. QED  BY <1>1, <1>2, SubSeqProperties

LEMMA NoLonger ==
  ASSUME NEW S, NEW s \in Seq(S), NEW n \in Nat, Len(s) <= n
  PROVE  Len(s) <= n + 1
PROOF
<1>1. Len(s) \in Nat
  BY LenProperties
<1>. QED  BY <1>1

(* Slices from one cut to the next are, without the empty ones, the whole.   *)
LEMMA CutsAreTheWhole ==
  ASSUME NEW t \in Seq(Nat), NEW k \in Nat, NEW cut \in [0..k -> 0..Len(t)],
         cut[0] = 0, cut[k] = Len(t), \A i \in 1..k : cut[i - 1] <= cut[i],
         NEW models \in Seq(Seq(Nat)), Len(models) = k,
         \A i \in 1..k : models[i] = SubSeq(t, cut[i - 1] + 1, cut[i])
  PROVE  /\ FlattenSeq(Filled(models)) = t
         /\ Len(Filled(models)) <= k
         /\ \A i \in DOMAIN Filled(models) : Filled(models)[i] # <<>>
PROOF
<1>1. PICK kept :
        /\ kept[0] = <<>>
        /\ \A n \in 1..k : kept[n] = IF models[n] = <<>> THEN kept[n - 1]
                                     ELSE Append(kept[n - 1], models[n])
        /\ Filled(models) = kept[k]
  BY FilledTurns
<1>. DEFINE OK(n) == /\ kept[n] \in Seq(Seq(Nat)) /\ Len(kept[n]) <= n
                     /\ \A i \in 1..Len(kept[n]) : kept[n][i] # <<>>
                     /\ FlattenSeq(kept[n]) = SubSeq(t, 1, cut[n])
            S == {n \in Nat : n <= k => OK(n)}
<1>2. 0 \in S
  <2>1. kept[0] \in Seq(Seq(Nat)) /\ Len(kept[0]) = 0
    BY <1>1
  <2>2. FlattenSeq(kept[0]) = <<>>
    BY <1>1, <2>1 DEF FlattenSeq
  <2>3. SubSeq(t, 1, cut[0]) = <<>>
    BY SubSeqEmpty
  <2>. QED  BY <2>1, <2>2, <2>3
<1>3. ASSUME NEW n \in Nat, n \in S  PROVE n + 1 \in S
  <2>. SUFFICES ASSUME n + 1 <= k  PROVE OK(n + 1)
    <3>. HIDE DEF OK
    <3>. QED  OBVIOUS
  <2>1. n + 1 \in 1..k /\ (n + 1) - 1 = n /\ n \in 0..k /\ n + 1 \in 0..k
    OBVIOUS
  <2>2. OK(n)
    <3>1. n <= k
      BY <2>1
    <3>. HIDE DEF OK
    <3>. QED  BY <1>3, <3>1
  <2>3. kept[n + 1] = IF models[n + 1] = <<>> THEN kept[n]
                      ELSE Append(kept[n], models[n + 1])
    BY <1>1, <2>1
  <2>4. /\ cut[n] \in 0..Len(t) /\ cut[n + 1] \in 0..Len(t) /\ cut[n] <= cut[n + 1]
        /\ models[n + 1] = SubSeq(t, cut[n] + 1, cut[n + 1])
    BY <2>1
  <2>5. models[n + 1] \in Seq(Nat)
    BY <2>1
  <2>6. SubSeq(t, 1, cut[n]) \o models[n + 1] = SubSeq(t, 1, cut[n + 1])
    <3>1. /\ 1 \in 1..(Len(t) + 1) /\ cut[n] \in (1 - 1)..Len(t)
          /\ cut[n + 1] \in cut[n]..Len(t)
      BY <2>4
    <3>2. SubSeq(t, 1, cut[n]) \o SubSeq(t, cut[n] + 1, cut[n + 1]) = SubSeq(t, 1, cut[n + 1])
      BY <3>1, ConcatAdjacentSubSeq
    <3>. QED  BY <2>4, <3>2
  <2>7. CASE models[n + 1] = <<>>
    <3>1. kept[n + 1] = kept[n]
      BY <2>3, <2>7
    <3>2. SubSeq(t, 1, cut[n]) \in Seq(Nat)
      BY <2>4, PrefixIsSequence
    <3>3. SubSeq(t, 1, cut[n]) = SubSeq(t, 1, cut[n + 1])
      <4>. DEFINE prefix == SubSeq(t, 1, cut[n])
      <4>1. prefix \in Seq(Nat)
        BY <3>2
      <4>2. prefix \o <<>> = prefix
        <5>. HIDE DEF prefix
        <5>. QED  BY <4>1
      <4>. QED  BY <2>6, <2>7, <4>2
    <3>4. Len(kept[n]) <= n + 1
      <4>1. kept[n] \in Seq(Seq(Nat)) /\ Len(kept[n]) <= n
        BY <2>2
      <4>. HIDE DEF OK, S
      <4>. QED  BY <4>1, NoLonger
    <3>. QED  BY <2>2, <3>1, <3>3, <3>4
  <2>8. CASE models[n + 1] # <<>>
    <3>1. kept[n + 1] = Append(kept[n], models[n + 1])
      BY <2>3, <2>8
    <3>2. PICK s \in Seq(Seq(Nat)), x \in Seq(Nat) : s = kept[n] /\ x = models[n + 1]
      BY <2>2, <2>5
    <3>3. /\ Append(s, x) \in Seq(Seq(Nat)) /\ Len(Append(s, x)) = Len(s) + 1
          /\ \A i \in 1..(Len(s) + 1) :
               Append(s, x)[i] = IF i = Len(s) + 1 THEN x ELSE s[i]
      OBVIOUS
    <3>4. FlattenSeq(Append(s, x)) = FlattenSeq(s) \o x
      BY FlattenAppend
    <3>5. \A i \in 1..(Len(s) + 1) : i # Len(s) + 1 => i \in 1..Len(s)
      <4>1. Len(s) \in Nat
        OBVIOUS
      <4>. QED  BY <4>1
    <3>6. Len(s) <= n
      BY <2>2, <3>2
    <3>7. Len(s) + 1 <= n + 1
      BY <3>6
    <3>. QED  BY <2>2, <2>6, <2>8, <3>1, <3>2, <3>3, <3>4, <3>5, <3>7
  <2>. QED  BY <2>7, <2>8
<1>. HIDE DEF S
<1>4. k \in S
  BY <1>2, <1>3, Inductive
<1>5. OK(k)
  BY <1>4 DEF S
<1>6. SubSeq(t, 1, Len(t)) = t
  BY SubSeqFull
<1>. QED  BY <1>1, <1>5, <1>6

(* The bounds of a percentage and of a boundary.                             *)
LEMMA Bounded ==
  ASSUME NEW x \in Int
  PROVE  /\ Max({1, x}) = IF x <= 1 THEN 1 ELSE x
         /\ Max({10, x}) = IF x <= 10 THEN 10 ELSE x
         /\ Min({90, x}) = IF x >= 90 THEN 90 ELSE x
PROOF
<1>1. \E y \in {1, x} : \A z \in {1, x} : y >= z
  OBVIOUS
<1>2. \E y \in {10, x} : \A z \in {10, x} : y >= z
  OBVIOUS
<1>3. \E y \in {90, x} : \A z \in {90, x} : y <= z
  OBVIOUS
<1>. QED  BY <1>1, <1>2, <1>3 DEF Min, Max

LEMMA LesserOfTwo ==
  ASSUME NEW a \in Int, NEW b \in Int
  PROVE  Min({a, b}) = IF a <= b THEN a ELSE b
PROOF
<1>1. \E x \in {a, b} : \A y \in {a, b} : x <= y
  OBVIOUS
<1>. QED  BY <1>1 DEF Min

Sorted(t) == \A i, j \in DOMAIN t : i <= j => t[i] <= t[j]

(* There is a largest gap, after a relationship and before another.          *)
LEMMA GapInside ==
  ASSUME timeline \in Seq(Nat), Sorted(timeline), Len(timeline) >= 2
  PROVE  LargestGap \in 1..(Len(timeline) - 1)
PROOF
<1>. DEFINE n == Len(timeline)
            gap == [i \in 1..(n - 1) |-> timeline[i + 1] - timeline[i]]
            most == {i \in 1..(n - 1) : \A j \in 1..(n - 1) : gap[i] >= gap[j]}
<1>1. n \in Nat /\ n >= 2 /\ timeline[n] \in Nat
  OBVIOUS
<1>2. ASSUME NEW i \in 1..(n - 1)  PROVE gap[i] \in 0..timeline[n]
  <2>1. i \in DOMAIN timeline /\ i + 1 \in DOMAIN timeline /\ n \in DOMAIN timeline
    BY <1>1
  <2>2. timeline[i] \in Nat /\ timeline[i + 1] \in Nat
    BY <2>1
  <2>3. timeline[i] <= timeline[i + 1] /\ timeline[i + 1] <= timeline[n]
    BY <1>1, <2>1 DEF Sorted
  <2>. QED  BY <1>1, <2>2, <2>3
<1>4. LargestGap = Min(most)
  BY DEF LargestGap
<1>. HIDE DEF n, gap
<1>3. 1..(n - 1) \subseteq Nat /\ 1..(n - 1) # {}
  <2>1. 1 \in 1..(n - 1)
    BY <1>1
  <2>. QED  BY <2>1
<1>5. Min(most) \in 1..(n - 1)
  BY <1>1, <1>2, <1>3, MostCommon
<1>. QED  BY <1>4, <1>5 DEF n

(* Rounded gives the nearest whole number, the greater of two.               *)
LEMMA RoundedOK ==
  ASSUME NEW x \in Nat, NEW y \in Nat \ {0}
  PROVE  /\ Rounded(x, y) \in Nat
         /\ 2 * (Rounded(x, y) * y) <= 2 * x + y
         /\ 2 * x + y < 2 * (Rounded(x, y) * y) + 2 * y
PROOF
<1>. DEFINE q == Rounded(x, y)
<1>1. 2 * x + y \in Nat /\ 2 * y \in Nat \ {0}
  OBVIOUS
<1>2. q = (2 * x + y) \div (2 * y)
  BY DEF Rounded
<1>. HIDE DEF q
<1>3. q \in Nat /\ q * (2 * y) <= 2 * x + y /\ 2 * x + y < q * (2 * y) + 2 * y
  BY <1>1, <1>2, Quotient
<1>4. q * (2 * y) = 2 * (q * y)
  BY <1>3
<1>. QED  BY <1>3, <1>4 DEF q

(* The boundary leaves a relationship on either side when there are two.     *)
LEMMA BoundaryInside ==
  ASSUME timeline \in Seq(Nat), Sorted(timeline), split.percent \in Nat
  PROVE  /\ RecommendSplit \in Nat
         /\ Boundary \in Nat /\ Boundary >= 1
         /\ Len(timeline) >= 2 => Boundary <= Len(timeline) - 1
         /\ Len(timeline) < 2 => Boundary = 1
PROOF
<1>. DEFINE n == Len(timeline)
            percent == IF split.percent = 101 THEN RecommendSplit ELSE split.percent
            cut == Rounded(n * percent, 100)
<1>1. n \in Nat
  OBVIOUS
<1>2. RecommendSplit \in Nat
  <2>1. CASE n < 2
    BY <2>1 DEF RecommendSplit
  <2>2. CASE n >= 2
    <3>1. LargestGap \in 1..(n - 1)
      BY <2>2, GapInside
    <3>. DEFINE r == Rounded(100 * LargestGap, n)
    <3>2. RecommendSplit = Min({90, Max({10, r})})
      BY <1>1, <2>2 DEF RecommendSplit
    <3>. HIDE DEF n
    <3>3. r \in Nat
      <4>1. 100 * LargestGap \in Nat /\ n \in Nat \ {0}
        BY <1>1, <2>2, <3>1
      <4>. QED  BY <4>1, RoundedOK
    <3>. HIDE DEF r
    <3>. DEFINE most == Max({10, r})
    <3>4. r \in Int
      BY <3>3
    <3>5. most = IF r <= 10 THEN 10 ELSE r
      BY <3>4, Bounded
    <3>. HIDE DEF most
    <3>6. most \in Int /\ most \in Nat
      BY <3>3, <3>5
    <3>7. Min({90, most}) = IF most >= 90 THEN 90 ELSE most
      BY <3>6, Bounded
    <3>8. RecommendSplit = Min({90, most})
      BY <3>2 DEF most
    <3>. QED  BY <3>6, <3>7, <3>8
  <2>. QED  BY <1>1, <2>1, <2>2
<1>3. percent \in Nat
  BY <1>2
<1>4. Boundary = Min({Max({1, cut}), Max({1, n - 1})})
  BY DEF Boundary
<1>. HIDE DEF n, percent
<1>5. cut \in Nat
  <2>1. n * percent \in Nat
    BY <1>1, <1>3, Product
  <2>2. 100 \in Nat \ {0}
    OBVIOUS
  <2>. QED  BY <2>1, <2>2, RoundedOK
<1>. HIDE DEF cut
<1>6. Max({1, cut}) \in Nat /\ Max({1, cut}) >= 1
  <2>1. cut \in Int
    BY <1>5
  <2>2. Max({1, cut}) = IF cut <= 1 THEN 1 ELSE cut
    BY <2>1, Bounded
  <2>. QED  BY <1>5, <2>2
<1>7. /\ Max({1, n - 1}) \in Nat /\ Max({1, n - 1}) >= 1
      /\ n >= 2 => Max({1, n - 1}) = n - 1
      /\ n < 2 => Max({1, n - 1}) = 1
  <2>1. n - 1 \in Int
    BY <1>1
  <2>2. Max({1, n - 1}) = IF n - 1 <= 1 THEN 1 ELSE n - 1
    BY <2>1, Bounded
  <2>. QED  BY <1>1, <2>2
<1>8. /\ Boundary \in Nat /\ Boundary >= 1
      /\ n >= 2 => Boundary <= n - 1
      /\ n < 2 => Boundary = 1
  <2>1. Max({1, cut}) \in Int /\ Max({1, n - 1}) \in Int
    BY <1>6, <1>7
  <2>2. Boundary = IF Max({1, cut}) <= Max({1, n - 1}) THEN Max({1, cut}) ELSE Max({1, n - 1})
    <3>1. Min({Max({1, cut}), Max({1, n - 1})})
            = IF Max({1, cut}) <= Max({1, n - 1}) THEN Max({1, cut}) ELSE Max({1, n - 1})
      BY <2>1, LesserOfTwo
    <3>. QED  BY <1>4, <3>1
  <2>. QED  BY <1>1, <1>6, <1>7, <2>2
<1>. QED  BY <1>2, <1>8 DEF n

(* Up to ten relationships, whole percents are fine enough for the largest   *)
(* gap.                                                                      *)
LEMMA BoundaryAfterGap ==
  ASSUME timeline \in Seq(Nat), Sorted(timeline), Len(timeline) \in 2..10,
         split.percent = 101
  PROVE  Boundary = LargestGap
PROOF
<1>. DEFINE g == LargestGap
<1>1. PICK n \in 2..10 : n = Len(timeline)
  OBVIOUS
<1>2. g \in 1..(n - 1)
  BY <1>1, GapInside
<1>. HIDE DEF g
<1>. DEFINE q == Rounded(100 * g, n)
            p == q * n
<1>3. q \in Nat /\ p \in Nat /\ 2 * p <= 200 * g + n /\ 200 * g + n < 2 * p + 2 * n
  <2>1. 100 * g \in Nat /\ n \in Nat \ {0} /\ 2 * (100 * g) = 200 * g
    BY <1>2
  <2>2. q \in Nat /\ 2 * p <= 2 * (100 * g) + n /\ 2 * (100 * g) + n < 2 * p + 2 * n
    <3>. DEFINE x == 100 * g
    <3>1. x \in Nat
      BY <2>1
    <3>. HIDE DEF x
    <3>2. /\ Rounded(x, n) \in Nat /\ 2 * (Rounded(x, n) * n) <= 2 * x + n
          /\ 2 * x + n < 2 * (Rounded(x, n) * n) + 2 * n
      <4>1. n \in Nat \ {0}
        OBVIOUS
      <4>. HIDE DEF p
      <4>. QED  BY <3>1, <4>1, RoundedOK
    <3>. QED  BY <3>2 DEF x
  <2>3. p \in Nat
    BY <2>1, <2>2, Product
  <2>. QED  BY <2>1, <2>2, <2>3
<1>. HIDE DEF q
<1>4. q >= 10
  <2>1. ASSUME q <= 9  PROVE FALSE
    <3>1. q * n <= 9 * n
      BY <1>3, <2>1, Scaled
    <3>. QED  BY <1>2, <1>3, <3>1
  <2>. QED  BY <1>3, <2>1
<1>5. q <= 90
  <2>1. ASSUME 91 <= q  PROVE FALSE
    <3>1. 91 * n <= q * n
      BY <1>3, <2>1, Scaled
    <3>. QED  BY <1>2, <1>3, <3>1
  <2>. QED  BY <1>3, <2>1
<1>6. RecommendSplit = q
  <2>1. RecommendSplit = Min({90, Max({10, q})})
    <3>1. ~(n < 2)
      OBVIOUS
    <3>2. RecommendSplit = Min({90, Max({10, Rounded(100 * LargestGap, Len(timeline))})})
      BY <1>1, <3>1 DEF RecommendSplit
    <3>. QED  BY <1>1, <3>2 DEF q, g
  <2>. HIDE DEF p
  <2>2. q \in Int
    BY <1>3
  <2>3. Max({10, q}) = q
    <3>1. Max({10, q}) = IF q <= 10 THEN 10 ELSE q
      BY <2>2, Bounded
    <3>. QED  BY <1>3, <1>4, <3>1
  <2>4. Min({90, q}) = q
    <3>1. Min({90, q}) = IF q >= 90 THEN 90 ELSE q
      BY <2>2, Bounded
    <3>. QED  BY <1>3, <1>5, <3>1
  <2>. QED  BY <2>1, <2>3, <2>4
<1>7. Rounded(n * q, 100) = g
  <2>. DEFINE c == Rounded(n * q, 100)
  <2>1. n * q = p
    BY <1>3
  <2>2. c \in Nat /\ 2 * (c * 100) <= 2 * p + 100 /\ 2 * p + 100 < 2 * (c * 100) + 200
    <3>1. /\ Rounded(p, 100) \in Nat
          /\ 2 * (Rounded(p, 100) * 100) <= 2 * p + 100
          /\ 2 * p + 100 < 2 * (Rounded(p, 100) * 100) + 2 * 100
      <4>1. PICK y \in Nat \ {0} : y = 100
        OBVIOUS
      <4>2. p \in Nat
        BY <1>3
      <4>. HIDE DEF p
      <4>3. /\ Rounded(p, y) \in Nat
            /\ 2 * (Rounded(p, y) * y) <= 2 * p + y
            /\ 2 * p + y < 2 * (Rounded(p, y) * y) + 2 * y
        BY <4>2, RoundedOK
      <4>. QED  BY <4>1, <4>3
    <3>. QED  BY <2>1, <3>1
  <2>. HIDE DEF c, p
  <2>3. c = g
    BY <1>2, <1>3, <2>2
  <2>. QED  BY <2>3 DEF c
<1>8. Boundary = Min({Max({1, g}), Max({1, n - 1})})
  BY <1>1, <1>6, <1>7 DEF Boundary
<1>9. Max({1, g}) = g /\ Max({1, n - 1}) = n - 1
  <2>1. g \in Int /\ n - 1 \in Int
    BY <1>2
  <2>2. /\ Max({1, g}) = IF g <= 1 THEN 1 ELSE g
        /\ Max({1, n - 1}) = IF n - 1 <= 1 THEN 1 ELSE n - 1
    BY <2>1, Bounded
  <2>. QED  BY <1>2, <2>2
<1>10. Min({g, n - 1}) = g
  <2>1. g \in Int /\ n - 1 \in Int
    BY <1>2
  <2>. QED  BY <1>2, <2>1, LesserOfTwo
<1>. QED  BY <1>8, <1>9, <1>10 DEF g

Clipped(t, i) == IF i <= Len(t) THEN i ELSE Len(t)

LEMMA SliceIs ==
  ASSUME timeline \in Seq(Nat), NEW first \in Nat, NEW last \in Nat
  PROVE  /\ Slice(first + 1, last) =
              SubSeq(timeline, Clipped(timeline, first) + 1, Clipped(timeline, last))
         /\ Slice(first + 1, last) \in Seq(Nat)
         /\ Clipped(timeline, first) \in 0..Len(timeline)
PROOF
<1>1. PICK n \in Nat : n = Len(timeline) /\ \A i \in 1..n : timeline[i] \in Nat
  OBVIOUS
<1>. DEFINE c == Clipped(timeline, last)
<1>2. Clipped(timeline, first) \in 0..n /\ c \in 0..n
  BY <1>1 DEF Clipped
<1>3. Slice(first + 1, last) = SubSeq(timeline, first + 1, c)
  <2>1. Min({last, n}) = IF last <= n THEN last ELSE n
    BY LesserOfTwo
  <2>2. Min({last, n}) = c
    BY <1>1, <2>1 DEF Clipped
  <2>. QED  BY <1>1, <2>2 DEF Slice
<1>. HIDE DEF c
<1>4. SubSeq(timeline, first + 1, c) \in Seq(Nat)
  <2>1. first + 1 \in Int /\ c \in Int /\ \A i \in (first + 1)..c : timeline[i] \in Nat
    BY <1>1, <1>2
  <2>. QED  BY <2>1, SubSeqProperties
<1>5. CASE first <= n
  <2>1. Clipped(timeline, first) = first
    BY <1>1, <1>5 DEF Clipped
  <2>. QED  BY <1>1, <1>2, <1>3, <1>4, <2>1 DEF c
<1>6. CASE first > n
  <2>1. Clipped(timeline, first) = n
    BY <1>1, <1>6 DEF Clipped
  <2>2. SubSeq(timeline, first + 1, c) = <<>>
    <3>1. first + 1 \in Int /\ c \in Int /\ c < first + 1
      BY <1>2, <1>6
    <3>. QED  BY <3>1, SubSeqEmpty
  <2>3. SubSeq(timeline, n + 1, c) = <<>>
    <3>1. n + 1 \in Int /\ c \in Int /\ c < n + 1
      BY <1>2
    <3>. QED  BY <3>1, SubSeqEmpty
  <2>. QED  BY <1>1, <1>2, <1>3, <1>4, <2>1, <2>2, <2>3 DEF c
<1>. QED  BY <1>5, <1>6

(* The chunks reach the end.                                                 *)
LEMMA ChunksCover ==
  ASSUME timeline \in Seq(Nat), split.count \in Nat \ {0}
  PROVE  ChunkSize \in Nat /\ Len(timeline) <= split.count * ChunkSize
PROOF
<1>1. PICK n \in Nat : n = Len(timeline)
  OBVIOUS
<1>2. PICK k \in Nat \ {0} : k = split.count
  OBVIOUS
<1>. DEFINE q == (n + k - 1) \div k
<1>3. n + k - 1 \in Nat
  BY <1>2
<1>4. q \in Nat /\ n + k - 1 < q * k + k
  BY <1>3, Quotient
<1>5. ChunkSize = Max({1, q})
  BY <1>1, <1>2 DEF ChunkSize
<1>. HIDE DEF q
<1>6. q \in Int
  BY <1>4
<1>7. Max({1, q}) = IF q <= 1 THEN 1 ELSE q
  BY <1>6, Bounded
<1>8. ChunkSize \in Nat /\ q <= ChunkSize
  BY <1>4, <1>5, <1>7
<1>9. q * k <= ChunkSize * k
  BY <1>4, <1>8, Scaled
<1>10. q * k \in Nat /\ ChunkSize * k \in Nat
  BY <1>4, <1>8, Product
<1>11. n <= q * k
  BY <1>4, <1>10
<1>12. n <= ChunkSize * k
  BY <1>9, <1>10, <1>11
<1>13. ChunkSize * k = k * ChunkSize
  BY <1>8
<1>. QED  BY <1>1, <1>2, <1>8, <1>12, <1>13

LEMMA SplitsAreTheWhole ==
  ASSUME timeline \in Seq(Nat), Sorted(timeline), split \in Splits
  PROVE  /\ FlattenSeq(SplitModels) = timeline
         /\ Len(SplitModels) <= split.count
         /\ timeline # <<>> => \A i \in DOMAIN SplitModels : SplitModels[i] # <<>>
PROOF
<1>1. PICK n \in Nat : n = Len(timeline)
  OBVIOUS
<1>2. split.count \in Nat \ {0} /\ split.percent \in Nat
  BY SplitAssumption
<1>3. CASE split.count = 1
  <2>1. SplitModels = <<timeline>> /\ <<timeline>> = Append(<<>>, timeline)
    BY <1>3 DEF SplitModels
  <2>2. <<>> \in Seq(Seq(Nat)) /\ FlattenSeq(<<>>) = <<>>
    BY DEF FlattenSeq
  <2>3. FlattenSeq(Append(<<>>, timeline)) = <<>> \o timeline
    BY <2>2, FlattenAppend
  <2>4. <<>> \o timeline = timeline
    OBVIOUS
  <2>. QED  BY <1>3, <2>1, <2>3, <2>4
<1>4. CASE split.count = 2 /\ ~split.equal
  <2>. DEFINE models == <<Slice(1, Boundary), Slice(Boundary + 1, Len(timeline))>>
              cut == [i \in 0..2 |-> Clipped(timeline, IF i = 0 THEN 0 ELSE IF i = 1 THEN Boundary ELSE n)]
  <2>1. SplitModels = Filled(models)
    BY <1>4 DEF SplitModels
  <2>2. Boundary \in Nat
    BY <1>2, BoundaryInside
  <2>3. cut[0] = 0 /\ cut[1] = Clipped(timeline, Boundary) /\ cut[2] = n
    BY <1>1 DEF Clipped
  <2>4. cut[1] \in 0..n
    BY <1>1, <2>2, <2>3 DEF Clipped
  <2>5. cut \in [0..2 -> 0..Len(timeline)] /\ \A i \in 1..2 : cut[i - 1] <= cut[i]
    <3>1. \A i \in 0..2 : i = 0 \/ i = 1 \/ i = 2
      OBVIOUS
    <3>2. \A i \in 0..2 : cut[i] \in 0..n
      BY <2>3, <2>4, <3>1
    <3>3. \A i \in 1..2 : (i = 1 /\ i - 1 = 0) \/ (i = 2 /\ i - 1 = 1)
      OBVIOUS
    <3>4. cut[0] <= cut[1] /\ cut[1] <= cut[2]
      BY <2>3, <2>4
    <3>. HIDE DEF cut
    <3>5. \A i \in 1..2 : cut[i - 1] <= cut[i]
      BY <3>3, <3>4
    <3>. QED  BY <1>1, <3>2, <3>5 DEF cut
  <2>6. /\ models[1] = SubSeq(timeline, cut[0] + 1, cut[1])
        /\ models[2] = SubSeq(timeline, cut[1] + 1, cut[2])
        /\ models[1] \in Seq(Nat) /\ models[2] \in Seq(Nat)
    <3>1. 0 \in Nat /\ 0 + 1 = 1
      OBVIOUS
    <3>2. /\ Slice(0 + 1, Boundary) = SubSeq(timeline, Clipped(timeline, 0) + 1, Clipped(timeline, Boundary))
          /\ Slice(0 + 1, Boundary) \in Seq(Nat)
      BY <2>2, <3>1, SliceIs
    <3>3. /\ Slice(Boundary + 1, n) = SubSeq(timeline, Clipped(timeline, Boundary) + 1, Clipped(timeline, n))
          /\ Slice(Boundary + 1, n) \in Seq(Nat)
      BY <2>2, SliceIs
    <3>4. Clipped(timeline, 0) = cut[0] /\ Clipped(timeline, n) = cut[2]
      OBVIOUS
    <3>. QED  BY <1>1, <2>3, <3>1, <3>2, <3>3, <3>4
  <2>7. models \in Seq(Seq(Nat)) /\ Len(models) = 2
    BY <2>6
  <2>8. \A i \in 1..2 : models[i] = SubSeq(timeline, cut[i - 1] + 1, cut[i])
    <3>1. \A i \in 1..2 : (i = 1 /\ i - 1 = 0) \/ (i = 2 /\ i - 1 = 1)
      OBVIOUS
    <3>. HIDE DEF models, cut
    <3>. QED  BY <2>6, <3>1
  <2>. HIDE DEF models, cut
  <2>9. /\ FlattenSeq(Filled(models)) = timeline
        /\ Len(Filled(models)) <= 2
        /\ \A i \in DOMAIN Filled(models) : Filled(models)[i] # <<>>
    <3>1. 2 \in Nat
      OBVIOUS
    <3>. QED  BY <1>1, <2>3, <2>5, <2>7, <2>8, <3>1, CutsAreTheWhole
  <2>. QED  BY <1>4, <2>1, <2>9
<1>5. CASE split.count # 1 /\ ~(split.count = 2 /\ ~split.equal)
  <2>1. PICK k \in Nat \ {0} : k = split.count
    BY <1>2
  <2>2. PICK c \in Nat : c = ChunkSize /\ n <= k * c
    BY <1>1, <1>2, <2>1, ChunksCover
  <2>. DEFINE models == [i \in 1..k |-> Slice((i - 1) * c + 1, i * c)]
              cut == [i \in 0..k |-> Clipped(timeline, i * c)]
  <2>3. SplitModels = Filled(models)
    BY <1>5, <2>1, <2>2 DEF SplitModels
  <2>4. ASSUME NEW i \in 0..k  PROVE i * c \in Nat /\ cut[i] = Clipped(timeline, i * c) /\ cut[i] \in 0..n
    <3>1. i * c \in Nat
      BY Product
    <3>. QED  BY <1>1, <3>1, SliceIs
  <2>5. cut[0] = 0 /\ cut[k] = n
    <3>1. 0 * c = 0 /\ 0 \in 0..k /\ k \in 0..k
      OBVIOUS
    <3>2. cut[0] = Clipped(timeline, 0) /\ cut[k] = Clipped(timeline, k * c) /\ k * c \in Nat
      BY <2>4, <3>1
    <3>. HIDE DEF cut
    <3>. QED  BY <1>1, <2>2, <3>2 DEF Clipped
  <2>6. ASSUME NEW i \in 1..k
        PROVE  /\ models[i] = SubSeq(timeline, cut[i - 1] + 1, cut[i])
               /\ models[i] \in Seq(Nat)
               /\ cut[i - 1] <= cut[i]
    <3>1. i - 1 \in 0..k /\ i \in 0..k
      OBVIOUS
    <3>2. (i - 1) * c \in Nat /\ i * c \in Nat /\ (i - 1) * c <= i * c
      <4>1. (i - 1) * c \in Nat /\ i * c \in Nat
        BY <2>4, <3>1
      <4>2. i * c = (i - 1) * c + c
        OBVIOUS
      <4>. QED  BY <4>1, <4>2
    <3>3. cut[i - 1] = Clipped(timeline, (i - 1) * c) /\ cut[i] = Clipped(timeline, i * c)
      BY <2>4, <3>1
    <3>4. PICK a \in Nat, b \in Nat : a = (i - 1) * c /\ b = i * c
      BY <3>2
    <3>5. models[i] = Slice(a + 1, b)
      BY <3>4
    <3>. HIDE DEF models, cut
    <3>6. cut[i - 1] <= cut[i]
      BY <1>1, <3>2, <3>3, <3>4 DEF Clipped
    <3>. QED  BY <3>3, <3>4, <3>5, <3>6, SliceIs
  <2>7. models \in Seq(Seq(Nat)) /\ Len(models) = k
    <3>1. k \in Nat /\ DOMAIN models = 1..k /\ models = [i \in 1..k |-> models[i]]
      OBVIOUS
    <3>2. \A i \in 1..k : models[i] \in Seq(Nat)
      BY <2>6
    <3>. HIDE DEF models
    <3>3. models \in [1..k -> Seq(Nat)]
      BY <3>1, <3>2
    <3>. QED  BY <3>1, <3>3
  <2>8. cut \in [0..k -> 0..Len(timeline)]
    BY <1>1, <2>4
  <2>. HIDE DEF models, cut
  <2>9. /\ FlattenSeq(Filled(models)) = timeline
        /\ Len(Filled(models)) <= k
        /\ \A i \in DOMAIN Filled(models) : Filled(models)[i] # <<>>
    <3>1. k \in Nat /\ \A i \in 1..k : cut[i - 1] <= cut[i]
      BY <2>6
    <3>2. \A i \in 1..k : models[i] = SubSeq(timeline, cut[i - 1] + 1, cut[i])
      BY <2>6
    <3>. QED  BY <1>1, <2>5, <2>7, <2>8, <3>1, <3>2, CutsAreTheWhole
  <2>. QED  BY <2>1, <2>3, <2>9
<1>. QED  BY <1>3, <1>4, <1>5

(* The slices of a split are its rows in order, none lost, repeated or       *)
(* empty, for every number of slices, boundary and timeline, and up to ten   *)
(* rows the recommended boundary is after the largest gap.                   *)
THEOREM SplitsLoseNothing == Spec => []SplitsFollowTheRows
PROOF
<1>1. DataOK => SplitsFollowTheRows
  <2>. SUFFICES ASSUME DataOK  PROVE SplitsFollowTheRows
    OBVIOUS
  <2>1. timeline \in Seq(Nat) /\ Sorted(timeline) /\ split \in Splits
    <3>1. CASE timeline = <<>>
      BY <3>1 DEF DataOK, Sorted
    <3>2. CASE timeline \in Timelines
      BY <3>2, TimelineAssumption DEF DataOK, Sorted
    <3>. QED  BY <3>1, <3>2 DEF DataOK
  <2>2. Len(timeline) \in 2..10 /\ split.percent = 101 => Boundary = LargestGap
    BY <2>1, BoundaryAfterGap
  <2>. QED  BY <2>1, <2>2, SplitsAreTheWhole DEF SplitsFollowTheRows
<1>. QED  BY <1>1, DataHolds, PTL

=============================================================================
