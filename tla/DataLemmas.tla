----------------------------- MODULE DataLemmas ----------------------------
(* Lemmas that do not depend on a component: induction on natural numbers,   *)
(* stated for sets because a proof cannot name a theorem's operator          *)
(* parameter; the existence of functions defined by recursion; what joining  *)
(* a sequence of sequences contains; and two stacks of versions with the     *)
(* present one between them, read as one sequence: what commits, undo, redo  *)
(* and amendments of the chart workspace and of the graph's layout do to it. *)
EXTENDS Integers, Sequences, SequencesExt, SequenceTheorems,
        WellFoundedInduction, TLAPS

-----------------------------------------------------------------------------
(* Induction.                                                                *)

Below == {p \in Nat \X Nat : p[1] < p[2]}

(* A set of natural numbers that is not empty has a least member.            *)
LEMMA LeastNatural ==
  ASSUME NEW T, T \subseteq Nat, T # {}
  PROVE  \E x \in T : \A y \in T : x <= y
PROOF
<1>1. IsWellFoundedOn(Below, Nat)
  BY NatLessThanWellFounded DEF OpToRel, Below
<1>2. PICK x \in T : \A y \in T : <<y, x>> \notin Below
  BY <1>1, WFMin
<1>3. ASSUME NEW y \in T  PROVE  x <= y
  <2>1. x \in Nat /\ y \in Nat
    OBVIOUS
  <2>2. ~(y < x)
    BY <1>2, <2>1 DEF Below
  <2>. QED  BY <2>1, <2>2
<1>. QED  BY <1>3

(* A property of natural numbers, given as the set of those that have it.    *)
LEMMA Inductive ==
  ASSUME NEW S, 0 \in S, \A n \in Nat : n \in S => n + 1 \in S
  PROVE  Nat \subseteq S
PROOF
<1>1. ASSUME Nat \ S # {}  PROVE  FALSE
  <2>1. PICK x \in Nat \ S : \A y \in Nat \ S : x <= y
    BY <1>1, LeastNatural
  <2>2. x \in Nat \ {0}
    BY <2>1
  <2>3. x - 1 \in Nat /\ x - 1 < x /\ (x - 1) + 1 = x
    BY <2>2
  <2>4. x - 1 \in S
    BY <2>1, <2>3
  <2>. QED  BY <2>1, <2>3, <2>4
<1>. QED  BY <1>1

(* A function of the natural numbers that starts with a and takes a step     *)
(* from each value to the next.                                              *)
Iterates(f, X, a, step) ==
  /\ f \in [Nat -> X]
  /\ f[0] = a
  /\ \A n \in Nat : f[n + 1] = step[<<f[n], n + 1>>]

LEMMA Iteration ==
  ASSUME NEW X, NEW a \in X, NEW step \in [X \X Nat -> X]
  PROVE  \E f : Iterates(f, X, a, step)
PROOF
<1>. DEFINE Upto(g, n) ==
              /\ g \in [0..n -> X] /\ g[0] = a
              /\ \A k \in Nat : k + 1 \in 0..n => g[k + 1] = step[<<g[k], k + 1>>]
<1>1. \A n \in Nat : \E g : Upto(g, n)
  <2>. DEFINE S == {n \in Nat : \E g : Upto(g, n)}
  <2>1. 0 \in S
    <3>1. Upto([i \in 0..0 |-> a], 0)
      OBVIOUS
    <3>. QED  BY <3>1
  <2>2. ASSUME NEW n \in Nat, n \in S  PROVE  n + 1 \in S
    <3>1. PICK g : Upto(g, n)
      BY <2>2
    <3>. DEFINE h == [i \in 0..(n + 1) |->
                        IF i = n + 1 THEN step[<<g[n], n + 1>>] ELSE g[i]]
    <3>2. g[n] \in X /\ step[<<g[n], n + 1>>] \in X
      BY <3>1
    <3>3. h \in [0..(n + 1) -> X]
      BY <3>1, <3>2
    <3>4. h[0] = a
      BY <3>1
    <3>5. ASSUME NEW k \in Nat, k + 1 \in 0..(n + 1)
          PROVE  h[k + 1] = step[<<h[k], k + 1>>]
      <4>1. CASE k = n
        <5>1. n \in 0..(n + 1) /\ n + 1 \in 0..(n + 1) /\ n # n + 1
          OBVIOUS
        <5>2. h[n] = g[n] /\ h[n + 1] = step[<<g[n], n + 1>>]
          BY <5>1
        <5>. QED  BY <4>1, <5>2
      <4>2. CASE k # n
        <5>1. k \in 0..n /\ k + 1 \in 0..n /\ k # n + 1 /\ k + 1 # n + 1
          BY <3>5, <4>2
        <5>2. k \in 0..(n + 1) /\ k + 1 \in 0..(n + 1)
          BY <3>5
        <5>3. h[k] = g[k] /\ h[k + 1] = g[k + 1]
          BY <5>1, <5>2
        <5>4. g[k + 1] = step[<<g[k], k + 1>>]
          BY <3>1, <5>1
        <5>. QED  BY <5>3, <5>4
      <4>. QED  BY <4>1, <4>2
    <3>6. Upto(h, n + 1)
      BY <3>3, <3>4, <3>5
    <3>. HIDE DEF h, Upto
    <3>7. \E q : Upto(q, n + 1)
      BY <3>6
    <3>. QED  BY <3>7
  <2>. HIDE DEF S
  <2>3. Nat \subseteq S
    BY <2>1, <2>2, Inductive
  <2>. QED  BY <2>3 DEF S
<1>2. ASSUME NEW n \in Nat, NEW m \in Nat, NEW g, NEW h, Upto(g, n), Upto(h, m), n <= m
      PROVE  g[n] = h[n]
  <2>. DEFINE S == {k \in Nat : k <= n => g[k] = h[k]}
  <2>1. 0 \in S
    BY <1>2
  <2>2. ASSUME NEW k \in Nat, k \in S  PROVE  k + 1 \in S
    <3>1. ASSUME k + 1 <= n  PROVE  g[k + 1] = h[k + 1]
      <4>1. k <= n /\ k + 1 \in 0..n /\ k + 1 \in 0..m
        BY <3>1, <1>2
      <4>2. g[k] = h[k]
        BY <2>2, <4>1
      <4>3. g[k + 1] = step[<<g[k], k + 1>>] /\ h[k + 1] = step[<<h[k], k + 1>>]
        BY <1>2, <4>1
      <4>. QED  BY <4>2, <4>3
    <3>. QED  BY <3>1
  <2>. HIDE DEF S
  <2>3. Nat \subseteq S
    BY <2>1, <2>2, Inductive
  <2>. QED  BY <2>3 DEF S
<1>. DEFINE approx(n) == CHOOSE g : Upto(g, n)
            f == [n \in Nat |-> approx(n)[n]]
<1>3. \A n \in Nat : Upto(approx(n), n)
  BY <1>1
<1>. HIDE DEF approx
<1>4. f \in [Nat -> X]
  BY <1>3
<1>5. f[0] = a
  BY <1>3
<1>6. ASSUME NEW n \in Nat  PROVE  f[n + 1] = step[<<f[n], n + 1>>]
  <2>1. approx(n + 1)[n + 1] = step[<<approx(n + 1)[n], n + 1>>]
    BY <1>3
  <2>2. Upto(approx(n), n) /\ Upto(approx(n + 1), n + 1) /\ n <= n + 1 /\ n + 1 \in Nat
    BY <1>3
  <2>. HIDE DEF Upto
  <2>3. approx(n)[n] = approx(n + 1)[n]
    BY <1>2, <2>2
  <2>. QED  BY <2>1, <2>3
<1>. HIDE DEF f
<1>7. Iterates(f, X, a, step)
  BY <1>4, <1>5, <1>6 DEF Iterates
<1>. QED  BY <1>7

(* The same on the numbers up to a bound, as the functions of the models are *)
(* defined.                                                                  *)
Computes(f, X, a, step, m) ==
  /\ f \in [0..m -> X]
  /\ f[0] = a
  /\ \A n \in 1..m : f[n] = step[<<f[n - 1], n>>]

LEMMA BoundedIteration ==
  ASSUME NEW X, NEW a \in X, NEW m \in Nat, NEW step \in [X \X (1..m) -> X]
  PROVE  \E f : Computes(f, X, a, step, m)
PROOF
<1>. DEFINE further == [t \in X \X Nat |-> IF t[2] \in 1..m THEN step[t] ELSE t[1]]
<1>1. ASSUME NEW x \in X, NEW n \in Nat
      PROVE  /\ further[<<x, n>>] \in X
             /\ n \in 1..m => further[<<x, n>>] = step[<<x, n>>]
  <2>1. <<x, n>> \in X \X Nat /\ <<x, n>>[1] = x /\ <<x, n>>[2] = n
    OBVIOUS
  <2>2. n \in 1..m => <<x, n>> \in X \X (1..m)
    OBVIOUS
  <2>3. further[<<x, n>>] = IF n \in 1..m THEN step[<<x, n>>] ELSE x
    BY <2>1
  <2>. QED  BY <2>2, <2>3
<1>2. further \in [X \X Nat -> X]
  <2>1. \A t \in X \X Nat : t = <<t[1], t[2]>> /\ t[1] \in X /\ t[2] \in Nat
    OBVIOUS
  <2>2. \A t \in X \X Nat : further[t] \in X
    BY <1>1, <2>1
  <2>. QED  BY <2>2
<1>. HIDE DEF further
<1>3. PICK g : Iterates(g, X, a, further)
  BY <1>2, Iteration
<1>. DEFINE f == [n \in 0..m |-> g[n]]
<1>4. f \in [0..m -> X] /\ f[0] = a
  BY <1>3 DEF Iterates
<1>5. ASSUME NEW n \in 1..m  PROVE  f[n] = step[<<f[n - 1], n>>]
  <2>1. n - 1 \in Nat /\ (n - 1) + 1 = n /\ n - 1 \in 0..m /\ n \in 0..m /\ n \in Nat
    OBVIOUS
  <2>2. g[n] = further[<<g[n - 1], n>>] /\ g[n - 1] \in X
    BY <1>3, <2>1 DEF Iterates
  <2>3. g[n] = step[<<g[n - 1], n>>]
    BY <1>1, <2>1, <2>2
  <2>. QED  BY <2>1, <2>3
<1>. HIDE DEF f
<1>6. Computes(f, X, a, step, m)
  BY <1>4, <1>5 DEF Computes
<1>. QED  BY <1>6

(* FlattenSeq is such a computation.                                         *)
Joining(s, T) ==
  [t \in Seq(T) \X (1..Len(s)) |-> t[1] \o s[t[2]]]

LEMMA JoiningIsStep ==
  ASSUME NEW T, NEW s \in Seq(Seq(T))
  PROVE  /\ Joining(s, T) \in [Seq(T) \X (1..Len(s)) -> Seq(T)]
         /\ \A x \in Seq(T), n \in 1..Len(s) : Joining(s, T)[<<x, n>>] = x \o s[n]
PROOF
<1>1. \A n \in 1..Len(s) : s[n] \in Seq(T)
  OBVIOUS
<1>2. \A x \in Seq(T), y \in Seq(T) : x \o y \in Seq(T)
  OBVIOUS
<1>3. ASSUME NEW t \in Seq(T) \X (1..Len(s))
      PROVE  t[1] \in Seq(T) /\ t[2] \in 1..Len(s)
  OBVIOUS
<1>4. ASSUME NEW x \in Seq(T), NEW n \in 1..Len(s)
      PROVE  /\ <<x, n>> \in Seq(T) \X (1..Len(s))
             /\ <<x, n>>[1] = x /\ <<x, n>>[2] = n
  OBVIOUS
<1>5. \A t \in Seq(T) \X (1..Len(s)) : t[1] \o s[t[2]] \in Seq(T)
  BY <1>1, <1>2, <1>3
<1>. QED  BY <1>4, <1>5 DEF Joining

LEMMA Flattened ==
  ASSUME NEW T, NEW s \in Seq(Seq(T)), NEW f,
         Computes(f, Seq(T), <<>>, Joining(s, T), Len(s))
  PROVE  FlattenSeq(s) = f[Len(s)]
PROOF
<1>1. f[0] = <<>> /\ f \in [0..Len(s) -> Seq(T)]
  BY DEF Computes
<1>2. CASE Len(s) = 0
  <2>1. s = <<>>
    BY <1>2
  <2>. QED  BY <1>1, <1>2, <2>1 DEF FlattenSeq
<1>3. CASE Len(s) # 0
  <2>. DEFINE L == Len(s)
              Defines(g) == g = [i \in 1..L |-> IF i = 1 THEN s[i] ELSE g[i - 1] \o s[i]]
              g0 == [i \in 1..L |-> f[i]]
  <2>1. L \in Nat \ {0} /\ L \in 1..L /\ 1 \in 1..L
    BY <1>3
  <2>2. ASSUME NEW i \in 1..L
        PROVE  f[i] = f[i - 1] \o s[i] /\ i \in 0..L /\ i - 1 \in 0..L
    <3>1. i - 1 \in 0..L /\ i \in 0..L
      OBVIOUS
    <3>2. f[i - 1] \in Seq(T)
      BY <1>1, <3>1
    <3>3. f[i] = Joining(s, T)[<<f[i - 1], i>>]
      BY DEF Computes
    <3>. QED  BY <3>1, <3>2, <3>3, JoiningIsStep
  <2>3. ASSUME NEW i \in 1..L
        PROVE  g0[i] = IF i = 1 THEN s[i] ELSE g0[i - 1] \o s[i]
    <3>1. CASE i = 1
      <4>1. s[i] \in Seq(T) /\ f[i] = f[i - 1] \o s[i] /\ i - 1 = 0
        <5>1. s[i] \in Seq(T)
          OBVIOUS
        <5>2. f[i] = f[i - 1] \o s[i]
          BY <2>2
        <5>3. i - 1 = 0
          BY <3>1
        <5>. QED  BY <5>1, <5>2, <5>3
      <4>2. f[i] = <<>> \o s[i]
        BY <1>1, <4>1
      <4>3. f[i] = s[i]
        BY <4>1, <4>2
      <4>. QED  BY <3>1, <4>3
    <3>2. CASE i # 1
      <4>1. i - 1 \in 1..L
        BY <3>2
      <4>. QED  BY <2>2, <3>2, <4>1
    <3>. QED  BY <3>1, <3>2
  <2>4. Defines(g0)
    BY <2>3
  <2>5. FlattenSeq(s) = (CHOOSE g : Defines(g))[L]
    BY <1>3 DEF FlattenSeq
  <2>. DEFINE g1 == CHOOSE g : Defines(g)
  <2>6. Defines(g1)
    <3>. HIDE DEF Defines, g0
    <3>. QED  BY <2>4
  <2>. HIDE DEF g1
  <2>7. ASSUME NEW i \in 1..L
        PROVE  g1[i] = IF i = 1 THEN s[i] ELSE g1[i - 1] \o s[i]
    BY <2>6
  <2>. DEFINE S == {n \in Nat : n + 1 <= L => g1[n + 1] = f[n + 1]}
  <2>8. 0 \in S
    <3>1. g1[1] = s[1]
      BY <2>1, <2>7
    <3>2. g0[1] = s[1] /\ g0[1] = f[1]
      BY <2>1, <2>3
    <3>. QED  BY <3>1, <3>2
  <2>9. ASSUME NEW n \in Nat, n \in S  PROVE n + 1 \in S
    <3>1. ASSUME (n + 1) + 1 <= L  PROVE g1[(n + 1) + 1] = f[(n + 1) + 1]
      <4>1. n + 2 \in 1..L /\ n + 2 # 1 /\ (n + 2) - 1 = n + 1 /\ (n + 1) + 1 = n + 2
        BY <3>1, <2>1
      <4>2. g1[n + 1] = f[n + 1]
        BY <2>9, <3>1, <2>1
      <4>3. g1[n + 2] = g1[(n + 2) - 1] \o s[n + 2] /\ f[n + 2] = f[(n + 2) - 1] \o s[n + 2]
        BY <4>1, <2>2, <2>7
      <4>. QED  BY <4>1, <4>2, <4>3
    <3>. QED  BY <3>1
  <2>. HIDE DEF S
  <2>10. Nat \subseteq S
    BY <2>8, <2>9, Inductive
  <2>11. L - 1 \in Nat /\ (L - 1) + 1 = L
    BY <2>1
  <2>12. g1[L] = f[L]
    <3>1. L - 1 \in S
      BY <2>10, <2>11
    <3>2. g1[(L - 1) + 1] = f[(L - 1) + 1]
      BY <2>1, <2>11, <3>1 DEF S
    <3>. QED  BY <2>11, <3>2
  <2>. QED  BY <2>5, <2>12 DEF g1
<1>. QED  BY <1>2, <1>3

(* What is flattened is in the set, and one sequence more is appended.       *)
LEMMA FlattenAppend ==
  ASSUME NEW T, NEW s \in Seq(Seq(T)), NEW x \in Seq(T)
  PROVE  /\ FlattenSeq(s) \in Seq(T)
         /\ FlattenSeq(Append(s, x)) = FlattenSeq(s) \o x
PROOF
<1>. DEFINE L == Len(s)
            more == Append(s, x)
<1>1. PICK f : Computes(f, Seq(T), <<>>, Joining(s, T), L)
  <2>1. <<>> \in Seq(T) /\ L \in Nat
    OBVIOUS
  <2>2. Joining(s, T) \in [Seq(T) \X (1..L) -> Seq(T)]
    BY JoiningIsStep
  <2>. HIDE DEF L
  <2>. QED  BY <2>1, <2>2, BoundedIteration
<1>2. FlattenSeq(s) = f[L] /\ f[L] \in Seq(T)
  <2>1. FlattenSeq(s) = f[L]
    BY <1>1, Flattened
  <2>2. L \in 0..L /\ f \in [0..L -> Seq(T)]
    BY <1>1 DEF Computes
  <2>. QED  BY <2>1, <2>2
<1>3. more \in Seq(Seq(T)) /\ Len(more) = L + 1 /\ more[L + 1] = x
      /\ \A i \in 1..L : more[i] = s[i]
  OBVIOUS
<1>. DEFINE g == [i \in 0..(L + 1) |-> IF i = L + 1 THEN f[L] \o x ELSE f[i]]
<1>4. L \in Nat
  OBVIOUS
<1>. HIDE DEF more
<1>5. f \in [0..L -> Seq(T)] /\ f[0] = <<>>
  BY <1>1 DEF Computes
<1>6. g \in [0..(L + 1) -> Seq(T)]
  <2>1. f[L] \o x \in Seq(T)
    BY <1>2
  <2>2. \A i \in 0..(L + 1) : i # L + 1 => i \in 0..L
    BY <1>4
  <2>. QED  BY <1>5, <2>1, <2>2
<1>7. g[0] = <<>> /\ g[L + 1] = f[L] \o x
  BY <1>4, <1>5
<1>8. ASSUME NEW i \in 1..(L + 1)
      PROVE  g[i] = Joining(more, T)[<<g[i - 1], i>>]
  <2>1. i - 1 \in 0..L /\ i - 1 \in 0..(L + 1) /\ i - 1 # L + 1 /\ i \in 0..(L + 1)
    BY <1>4
  <2>2. g[i - 1] = f[i - 1] /\ f[i - 1] \in Seq(T)
    BY <1>5, <2>1
  <2>3. Joining(more, T)[<<g[i - 1], i>>] = f[i - 1] \o more[i]
    <3>1. i \in 1..Len(more)
      BY <1>3
    <3>2. Joining(more, T)[<<f[i - 1], i>>] = f[i - 1] \o more[i]
      BY <1>3, <2>2, <3>1, JoiningIsStep
    <3>. QED  BY <2>2, <3>2
  <2>4. CASE i = L + 1
    <3>1. i - 1 = L
      BY <1>4, <2>4
    <3>. QED  BY <1>3, <1>7, <2>3, <2>4, <3>1
  <2>5. CASE i # L + 1
    <3>1. i \in 1..L
      BY <1>4, <2>5
    <3>2. f[i] = f[i - 1] \o s[i]
      <4>1. f[i] = Joining(s, T)[<<f[i - 1], i>>]
        BY <1>1, <3>1 DEF Computes
      <4>. QED  BY <2>2, <3>1, <4>1, JoiningIsStep
    <3>3. g[i] = f[i]
      BY <2>1, <2>5
    <3>. QED  BY <1>3, <2>3, <3>1, <3>2, <3>3
  <2>. QED  BY <2>4, <2>5
<1>. HIDE DEF g
<1>9. Computes(g, Seq(T), <<>>, Joining(more, T), Len(more))
  BY <1>3, <1>6, <1>7, <1>8 DEF Computes
<1>10. FlattenSeq(more) = g[Len(more)]
  BY <1>3, <1>9, Flattened
<1>. QED  BY <1>2, <1>3, <1>7, <1>10 DEF more

-----------------------------------------------------------------------------
(* Timelines.                                                                *)

Stacked(u, p, r) == u \o <<p>> \o Reverse(r)

Trimmed(s, limit) ==
  IF Len(s) <= limit THEN s ELSE SubSeq(s, Len(s) - limit + 1, Len(s))

Members(s) == {s[i] : i \in DOMAIN s}

LEMMA MembersOfAppend ==
  ASSUME NEW S, NEW s \in Seq(S), NEW e \in S
  PROVE  /\ Append(s, e) \in Seq(S)
         /\ Members(Append(s, e)) = Members(s) \cup {e}
PROOF
<1>1. PICK n \in Nat : n = Len(s) /\ DOMAIN s = 1..n
  BY LenProperties
<1>. DEFINE more == Append(s, e)
<1>2. /\ more \in Seq(S) /\ Len(more) = n + 1
      /\ \A i \in 1..n : more[i] = s[i]
      /\ more[n + 1] = e
  BY <1>1, AppendProperties
<1>. HIDE DEF more
<1>3. DOMAIN more = (1..n) \cup {n + 1}
  BY <1>2
<1>4. Members(more) = Members(s) \cup {e}
  BY <1>1, <1>2, <1>3 DEF Members
<1>. QED  BY <1>2, <1>4 DEF more

LEMMA Reversed ==
  ASSUME NEW S, NEW s \in Seq(S), NEW n \in Nat, n = Len(s)
  PROVE  /\ Reverse(s) \in Seq(S)
         /\ Len(Reverse(s)) = n
         /\ \A i \in 1..n : Reverse(s)[i] = s[n - i + 1]
PROOF
<1>1. Reverse(s) = [i \in 1..n |-> s[n - i + 1]]
  BY DEF Reverse
<1>2. \A i \in 1..n : s[n - i + 1] \in S
  OBVIOUS
<1>. QED  BY <1>1, <1>2

(* The members of the sequence, by position.                                 *)
LEMMA StackedAt ==
  ASSUME NEW S, NEW u \in Seq(S), NEW p \in S, NEW r \in Seq(S)
  PROVE  /\ Stacked(u, p, r) \in Seq(S)
         /\ Len(Stacked(u, p, r)) = Len(u) + 1 + Len(r)
         /\ \A i \in 1..(Len(u) + 1 + Len(r)) :
              Stacked(u, p, r)[i] =
                IF i <= Len(u) THEN u[i]
                ELSE IF i = Len(u) + 1 THEN p ELSE r[Len(u) + Len(r) + 2 - i]
PROOF
<1>1. /\ <<p>> \in Seq(S) /\ Len(<<p>>) = 1 /\ <<p>>[1] = p
  OBVIOUS
<1>2. /\ u \o <<p>> \in Seq(S)
      /\ Len(u \o <<p>>) = Len(u) + 1
      /\ \A i \in 1..(Len(u) + 1) : (u \o <<p>>)[i] = IF i <= Len(u) THEN u[i] ELSE p
  BY <1>1
<1>3. /\ Reverse(r) \in Seq(S)
      /\ Len(Reverse(r)) = Len(r)
      /\ \A i \in 1..Len(r) : Reverse(r)[i] = r[Len(r) - i + 1]
  BY Reversed, LenProperties
<1> DEFINE front == u \o <<p>>
           back == Reverse(r)
<1> HIDE DEF front, back
<1>4. /\ front \o back \in Seq(S)
      /\ Len(front \o back) = Len(front) + Len(back)
      /\ \A i \in 1..(Len(front) + Len(back)) :
           (front \o back)[i] = IF i <= Len(front) THEN front[i] ELSE back[i - Len(front)]
  BY <1>2, <1>3 DEF front, back
<1>5. ASSUME NEW i \in 1..(Len(u) + 1 + Len(r))
      PROVE  (front \o back)[i] =
                IF i <= Len(u) THEN u[i]
                ELSE IF i = Len(u) + 1 THEN p ELSE r[Len(u) + Len(r) + 2 - i]
  <2>1. PICK a \in Nat, b \in Nat : a = Len(u) /\ b = Len(r)
    BY LenProperties
  <2>2. ASSUME i <= a + 1
        PROVE  (front \o back)[i] = IF i <= Len(u) THEN u[i] ELSE p
    BY <2>1, <2>2, <1>2, <1>3, <1>4 DEF front, back
  <2>3. ASSUME ~(i <= a + 1)
        PROVE  (front \o back)[i] = r[a + b + 2 - i]
    <3>1. /\ i - (a + 1) \in 1..b
          /\ b - (i - (a + 1)) + 1 = a + b + 2 - i
      BY <2>1, <2>3
    <3>2. (front \o back)[i] = back[i - (a + 1)]
      BY <2>1, <2>3, <1>2, <1>3, <1>4 DEF front, back
    <3>. QED  BY <2>1, <3>1, <3>2, <1>3 DEF back
  <2>4. (i <= a => i <= a + 1) /\ (i <= a + 1 /\ ~(i <= a) => i = a + 1) /\ ~(a + 1 <= a)
    BY <2>1
  <2>5. ASSUME i <= a + 1
        PROVE  (front \o back)[i] =
                 IF i <= a THEN u[i] ELSE IF i = a + 1 THEN p ELSE r[a + b + 2 - i]
    BY <2>1, <2>2, <2>4, <2>5
  <2>6. ASSUME ~(i <= a + 1)
        PROVE  (front \o back)[i] =
                 IF i <= a THEN u[i] ELSE IF i = a + 1 THEN p ELSE r[a + b + 2 - i]
    <3>1. ~(i <= a) /\ ~(i = a + 1)
      BY <2>1, <2>6
    <3>2. (front \o back)[i] = r[a + b + 2 - i]
      BY <2>3, <2>6
    <3>. QED  BY <3>1, <3>2
  <2>. QED  BY <2>1, <2>5, <2>6
<1>. QED  BY <1>2, <1>3, <1>4, <1>5, LenProperties DEF Stacked, front, back

(* A sequence without its last member, and with one more.                   *)
LEMMA FrontAndLast ==
  ASSUME NEW S, NEW s \in Seq(S), s # <<>>
  PROVE  /\ Front(s) \in Seq(S) /\ Last(s) \in S
         /\ Len(Front(s)) = Len(s) - 1
         /\ Append(Front(s), Last(s)) = s
PROOF
<1>1. PICK n \in Nat : n = Len(s)
  BY LenProperties
<1>2. n > 0 /\ Last(s) = s[n] /\ Last(s) \in S
  BY <1>1 DEF Last
<1>3. /\ Front(s) \in Seq(S)
      /\ Len(Front(s)) = n - 1
      /\ \A i \in 1..(n - 1) : Front(s)[i] = s[i]
  <2>1. n - 1 \in Int /\ \A i \in 1..(n - 1) : s[i] \in S
    BY <1>1, <1>2
  <2>2. /\ SubSeq(s, 1, n - 1) \in Seq(S)
        /\ Len(SubSeq(s, 1, n - 1)) = IF 1 <= n - 1 THEN (n - 1) - 1 + 1 ELSE 0
        /\ \A i \in 1..((n - 1) - 1 + 1) : SubSeq(s, 1, n - 1)[i] = s[1 + i - 1]
    BY <2>1, SubSeqProperties
  <2>. QED  BY <1>1, <1>2, <2>2 DEF Front
<1>4. /\ Append(Front(s), Last(s)) \in Seq(S)
      /\ Len(Append(Front(s), Last(s))) = n
      /\ \A i \in 1..n : Append(Front(s), Last(s))[i] = s[i]
  <2>1. PICK front \in Seq(S), last \in S : front = Front(s) /\ last = Last(s)
    BY <1>2, <1>3
  <2>. QED  BY <1>1, <1>2, <1>3, <2>1
<1>. QED  BY <1>1, <1>2, <1>3, <1>4, SeqEqual

LEMMA FrontAndLastOfAppend ==
  ASSUME NEW S, NEW s \in Seq(S), NEW e \in S
  PROVE  /\ Append(s, e) # <<>>
         /\ Front(Append(s, e)) = s
         /\ Last(Append(s, e)) = e
PROOF
<1>1. PICK n \in Nat : n = Len(s)
  BY LenProperties
<1>2. PICK more \in Seq(S) :
        /\ more = Append(s, e) /\ Len(more) = n + 1
        /\ \A i \in 1..n : more[i] = s[i]
        /\ more[n + 1] = e
  BY <1>1, AppendProperties
<1>3. Last(more) = e /\ more # <<>>
  BY <1>2 DEF Last
<1>4. Front(more) = s
  <2>1. Front(more) = SubSeq(more, 1, n)
    BY <1>2 DEF Front
  <2>2. /\ SubSeq(more, 1, n) \in Seq(S)
        /\ Len(SubSeq(more, 1, n)) = IF 1 <= n THEN n - 1 + 1 ELSE 0
        /\ \A i \in 1..(n - 1 + 1) : SubSeq(more, 1, n)[i] = more[1 + i - 1]
    <3>1. n \in Int /\ \A i \in 1..n : more[i] \in S
      BY <1>2
    <3>. QED  BY <3>1, SubSeqProperties
  <2>. QED  BY <1>1, <1>2, <2>1, <2>2, SeqEqual
<1>. QED  BY <1>2, <1>3, <1>4

(* Undo moves the cursor and keeps the sequence.                             *)
LEMMA StackedUndo ==
  ASSUME NEW S, NEW u \in Seq(S), NEW p \in S, NEW r \in Seq(S), u # <<>>
  PROVE  Stacked(Front(u), Last(u), Append(r, p)) = Stacked(u, p, r)
PROOF
<1>1. PICK front \in Seq(S), last \in S :
        front = Front(u) /\ last = Last(u) /\ Append(front, last) = u
  BY FrontAndLast
<1>2. front \o <<last>> = u
  BY <1>1, AppendIsConcat
<1>3. Reverse(r) \in Seq(S) /\ <<p>> \in Seq(S)
  BY Reversed, LenProperties
<1>4. Reverse(Append(r, p)) = <<p>> \o Reverse(r)
  <2>1. PICK n \in Nat : n = Len(r)
    BY LenProperties
  <2>2. /\ Reverse(Append(r, p)) \in Seq(S)
        /\ Len(Reverse(Append(r, p))) = n + 1
        /\ \A i \in 1..(n + 1) :
             Reverse(Append(r, p))[i] = IF i = 1 THEN p ELSE r[n + 2 - i]
    <3>1. PICK more \in Seq(S) :
            /\ more = Append(r, p) /\ Len(more) = n + 1
            /\ \A i \in 1..n : more[i] = r[i]
            /\ more[n + 1] = p
      BY <2>1, AppendProperties
    <3>2. /\ Reverse(more) \in Seq(S)
          /\ Len(Reverse(more)) = n + 1
          /\ \A i \in 1..(n + 1) : Reverse(more)[i] = more[(n + 1) - i + 1]
      <4>1. n + 1 \in Nat
        OBVIOUS
      <4>. QED  BY <3>1, <4>1, Reversed
    <3>3. ASSUME NEW i \in 1..(n + 1)
          PROVE  Reverse(more)[i] = IF i = 1 THEN p ELSE r[n + 2 - i]
      <4>1. /\ (n + 1) - i + 1 = n + 2 - i
            /\ i = 1 => n + 2 - i = n + 1
            /\ i # 1 => n + 2 - i \in 1..n
        OBVIOUS
      <4>. QED  BY <4>1, <3>1, <3>2
    <3>. QED  BY <3>1, <3>2, <3>3
  <2>3. /\ <<p>> \o Reverse(r) \in Seq(S)
        /\ Len(<<p>> \o Reverse(r)) = n + 1
        /\ \A i \in 1..(n + 1) :
             (<<p>> \o Reverse(r))[i] = IF i = 1 THEN p ELSE r[n + 2 - i]
    <3>1. PICK back \in Seq(S) :
            /\ back = Reverse(r) /\ Len(back) = n
            /\ \A i \in 1..n : back[i] = r[n - i + 1]
      BY <2>1, Reversed
    <3>2. /\ <<p>> \o back \in Seq(S)
          /\ Len(<<p>> \o back) = n + 1
          /\ \A i \in 1..(n + 1) :
               (<<p>> \o back)[i] = IF i = 1 THEN p ELSE back[i - 1]
      BY <3>1
    <3>3. ASSUME NEW i \in 1..(n + 1), i # 1  PROVE  back[i - 1] = r[n + 2 - i]
      <4>1. i - 1 \in 1..n /\ n - (i - 1) + 1 = n + 2 - i
        BY <3>3
      <4>. QED  BY <4>1, <3>1
    <3>. QED  BY <3>1, <3>2, <3>3
  <2>. DEFINE s == Reverse(Append(r, p))
             t == <<p>> \o Reverse(r)
  <2>. HIDE DEF s, t
  <2>4. \A i \in 1..Len(s) : s[i] = t[i]
    BY <2>2, <2>3 DEF s, t
  <2>5. s \in Seq(S) /\ t \in Seq(S) /\ Len(s) = Len(t)
    BY <2>2, <2>3 DEF s, t
  <2>6. s = t
    BY <2>4, <2>5, SeqEqual
  <2>. QED  BY <2>6 DEF s, t
<1>5. u \o (<<p>> \o Reverse(r)) = (u \o <<p>>) \o Reverse(r)
  <2>1. PICK one \in Seq(S), back \in Seq(S) : one = <<p>> /\ back = Reverse(r)
    BY <1>3
  <2>2. (u \o one) \o back = u \o (one \o back)
    OBVIOUS
  <2>. QED  BY <2>1, <2>2
<1>. QED  BY <1>1, <1>2, <1>4, <1>5 DEF Stacked

(* Redo does the reverse.                                                    *)
LEMMA StackedRedo ==
  ASSUME NEW S, NEW u \in Seq(S), NEW p \in S, NEW r \in Seq(S), r # <<>>
  PROVE  Stacked(Append(u, p), Last(r), Front(r)) = Stacked(u, p, r)
PROOF
<1>1. PICK front \in Seq(S), last \in S :
        front = Front(r) /\ last = Last(r) /\ Append(front, last) = r
  BY FrontAndLast
<1>2. PICK more \in Seq(S) :
        more = Append(u, p) /\ more # <<>> /\ Front(more) = u /\ Last(more) = p
  BY AppendProperties, FrontAndLastOfAppend
<1>3. Stacked(Front(more), Last(more), Append(front, last)) = Stacked(more, last, front)
  BY <1>2, StackedUndo
<1>. QED  BY <1>1, <1>2, <1>3

(* Up to the cursor the sequence is the undo stack with the present version, *)
(* and with nothing to redo it ends there.                                   *)
LEMMA StackedChange ==
  ASSUME NEW S, NEW u \in Seq(S), NEW p \in S, NEW r \in Seq(S)
  PROVE  /\ SubSeq(Stacked(u, p, r), 1, Len(u) + 1) = Append(u, p)
         /\ Stacked(u, p, <<>>) = Append(u, p)
PROOF
<1>1. /\ Append(u, p) \in Seq(S) /\ Len(Append(u, p)) = Len(u) + 1 /\ Len(u) \in Nat
      /\ Len(r) \in Nat
      /\ \A i \in 1..(Len(u) + 1) : Append(u, p)[i] = IF i <= Len(u) THEN u[i] ELSE p
  OBVIOUS
<1> DEFINE all == Stacked(u, p, r)
           ended == Stacked(u, p, <<>>)
<1>2. /\ all \in Seq(S) /\ Len(all) = Len(u) + 1 + Len(r)
      /\ \A i \in 1..(Len(u) + 1) : all[i] = IF i <= Len(u) THEN u[i] ELSE p
  <2>1. all \in Seq(S) /\ Len(all) = Len(u) + 1 + Len(r)
    BY StackedAt
  <2>2. ASSUME NEW i \in 1..(Len(u) + 1)  PROVE  all[i] = IF i <= Len(u) THEN u[i] ELSE p
    <3>1. i \in 1..(Len(u) + 1 + Len(r)) /\ (~(i <= Len(u)) => i = Len(u) + 1)
      BY <1>1
    <3>2. all[i] = IF i <= Len(u) THEN u[i]
                   ELSE IF i = Len(u) + 1 THEN p ELSE r[Len(u) + Len(r) + 2 - i]
      BY <3>1, StackedAt
    <3>. QED  BY <3>1, <3>2
  <2>. QED  BY <2>1, <2>2
<1>3. /\ ended \in Seq(S) /\ Len(ended) = Len(u) + 1
      /\ \A i \in 1..(Len(u) + 1) : ended[i] = IF i <= Len(u) THEN u[i] ELSE p
  <2>0. <<>> \in Seq(S) /\ Len(<<>>) = 0
    OBVIOUS
  <2>1. PICK none \in Seq(S) : none = <<>> /\ Len(none) = 0
    BY <2>0
  <2>2. /\ Stacked(u, p, none) \in Seq(S)
        /\ Len(Stacked(u, p, none)) = Len(u) + 1 + Len(none)
        /\ \A i \in 1..(Len(u) + 1 + Len(none)) :
             Stacked(u, p, none)[i] =
               IF i <= Len(u) THEN u[i]
               ELSE IF i = Len(u) + 1 THEN p ELSE none[Len(u) + Len(none) + 2 - i]
    BY StackedAt
  <2>3. Stacked(u, p, none) = ended
    BY <2>1
  <2>. HIDE DEF ended
  <2>. QED  BY <1>1, <2>1, <2>2, <2>3
<1>. HIDE DEF all, ended
<1>4. ended = Append(u, p)
  <2>1. \A i \in 1..Len(ended) : ended[i] = Append(u, p)[i]
    BY <1>1, <1>3
  <2>. QED  BY <1>1, <1>3, <2>1, SeqEqual
<1>5. SubSeq(all, 1, Len(u) + 1) = Append(u, p)
  <2>1. /\ SubSeq(all, 1, Len(u) + 1) \in Seq(S)
        /\ Len(SubSeq(all, 1, Len(u) + 1)) = Len(u) + 1
        /\ \A i \in 1..(Len(u) + 1) : SubSeq(all, 1, Len(u) + 1)[i] = all[i]
    BY <1>1, <1>2
  <2>2. \A i \in 1..(Len(u) + 1) : SubSeq(all, 1, Len(u) + 1)[i] = Append(u, p)[i]
    BY <2>1, <1>1, <1>2
  <2>. QED  BY <2>1, <2>2, <1>1, SeqEqual
<1>. QED  BY <1>4, <1>5 DEF all, ended

(* An amendment of the present version changes the member at the cursor.     *)
LEMMA StackedAmend ==
  ASSUME NEW S, NEW u \in Seq(S), NEW p \in S, NEW r \in Seq(S), NEW q \in S
  PROVE  /\ Stacked(u, q, r)[Len(u) + 1] = q
         /\ Stacked(u, q, r) = [Stacked(u, p, r) EXCEPT ![Len(u) + 1] = q]
PROOF
<1>1. Len(u) \in Nat /\ Len(r) \in Nat
  OBVIOUS
<1> DEFINE new == Stacked(u, q, r)
           old == Stacked(u, p, r)
<1>2. /\ new \in Seq(S) /\ Len(new) = Len(u) + 1 + Len(r)
      /\ \A i \in 1..(Len(u) + 1 + Len(r)) :
           new[i] = IF i <= Len(u) THEN u[i]
                    ELSE IF i = Len(u) + 1 THEN q ELSE r[Len(u) + Len(r) + 2 - i]
  BY StackedAt
<1>3. /\ old \in Seq(S) /\ Len(old) = Len(u) + 1 + Len(r)
      /\ \A i \in 1..(Len(u) + 1 + Len(r)) :
           old[i] = IF i <= Len(u) THEN u[i]
                    ELSE IF i = Len(u) + 1 THEN p ELSE r[Len(u) + Len(r) + 2 - i]
  BY StackedAt
<1>. HIDE DEF new, old
<1>4. DOMAIN new = 1..(Len(u) + 1 + Len(r)) /\ DOMAIN old = 1..(Len(u) + 1 + Len(r))
  BY <1>1, <1>2, <1>3
<1>5. new[Len(u) + 1] = q
  BY <1>1, <1>2
<1>6. \A i \in DOMAIN old \ {Len(u) + 1} : new[i] = old[i]
  BY <1>1, <1>2, <1>3, <1>4
<1>7. /\ new = [i \in DOMAIN new |-> new[i]]
      /\ [old EXCEPT ![Len(u) + 1] = q] =
           [i \in DOMAIN old |-> IF i = Len(u) + 1 THEN q ELSE old[i]]
  <2>1. \A s \in Seq(S) : s = [i \in DOMAIN s |-> s[i]]
    OBVIOUS
  <2>. QED  BY <1>2, <2>1
<1>8. new = [old EXCEPT ![Len(u) + 1] = q]
  BY <1>4, <1>5, <1>6, <1>7
<1>. QED  BY <1>5, <1>8 DEF new, old

(* A trimmed stack is a stack within the limit, and one within it is kept.   *)
LEMMA TrimmedStack ==
  ASSUME NEW S, NEW s \in Seq(S), NEW limit \in Nat
  PROVE  /\ Trimmed(s, limit) \in Seq(S)
         /\ Len(Trimmed(s, limit)) <= limit
         /\ Len(s) <= limit => Trimmed(s, limit) = s
PROOF
<1>1. ASSUME Len(s) > limit
      PROVE  /\ SubSeq(s, Len(s) - limit + 1, Len(s)) \in Seq(S)
             /\ Len(SubSeq(s, Len(s) - limit + 1, Len(s))) = limit
  <2>1. Len(s) \in Nat /\ Len(s) - limit + 1 \in 1..(Len(s) + 1)
    BY <1>1
  <2>. QED  BY <2>1, SubSeqProperties
<1>. QED  BY <1>1, LenProperties DEF Trimmed

(* A sequence over a set is one over what it holds, and over what holds that.*)
LEMMA OverMembers ==
  ASSUME NEW S, NEW s \in Seq(S), NEW T, Members(s) \subseteq T
  PROVE  s \in Seq(T)
PROOF
<1>1. \A i \in 1..Len(s) : s[i] \in T
  BY DEF Members
<1>. QED  BY <1>1

-----------------------------------------------------------------------------
(* Histories: stacks of what is at hand, which together are never longer     *)
(* than one of them may be, so that moving a version between them drops none.*)

AtHandOf(u, p, r) == Members(u) \cup {p} \cup Members(r)

HistoryOK(u, p, r, limit) ==
  /\ u \in Seq(AtHandOf(u, p, r)) /\ r \in Seq(AtHandOf(u, p, r))
  /\ Len(u) + Len(r) <= limit

LEMMA Retyped ==
  ASSUME NEW S, NEW u \in Seq(S), NEW r \in Seq(S), NEW p
  PROVE  u \in Seq(AtHandOf(u, p, r)) /\ r \in Seq(AtHandOf(u, p, r))
PROOF
<1>1. Members(u) \subseteq AtHandOf(u, p, r) /\ Members(r) \subseteq AtHandOf(u, p, r)
  BY DEF AtHandOf
<1>. QED  BY <1>1, OverMembers

(* Nothing to undo and nothing to redo.                                      *)
LEMMA FreshHistory ==
  ASSUME NEW p, NEW limit \in Nat
  PROVE  /\ HistoryOK(<<>>, p, <<>>, limit)
         /\ Len(Stacked(<<>>, p, <<>>)) = 1 /\ Len(<<>>) + 1 = 1
PROOF
<1>. DEFINE S == {p}
<1>0. <<>> \in Seq(S) /\ Len(<<>>) = 0 /\ p \in S
  OBVIOUS
<1>. HIDE DEF S
<1>1. PICK none \in Seq(S), only \in S : none = <<>> /\ Len(none) = 0 /\ only = p
  BY <1>0
<1>2. Len(Stacked(none, only, none)) = Len(none) + 1 + Len(none)
  BY StackedAt
<1>3. HistoryOK(none, only, none, limit)
  BY <1>1, Retyped DEF HistoryOK
<1>. QED  BY <1>1, <1>2, <1>3

(* A change: the present version joins the undo stack, of which the latest   *)
(* are kept, and nothing is left to redo.                                    *)
LEMMA CommitHistory ==
  ASSUME NEW limit \in Nat, NEW u, NEW p, NEW r, HistoryOK(u, p, r, limit), NEW p1
  PROVE  LET u1 == Trimmed(Append(u, p), limit)  r1 == <<>>
         IN /\ u1 \in Seq(AtHandOf(u, p, r)) /\ r1 \in Seq(AtHandOf(u, p, r))
            /\ HistoryOK(u1, p1, r1, limit)
            /\ Len(Stacked(u1, p1, r1)) = Len(u1) + 1
            /\ Stacked(u1, p1, r1)[Len(u1) + 1] = p1
            /\ Stacked(u1, p1, r1)
                 = Append(Trimmed(SubSeq(Stacked(u, p, r), 1, Len(u) + 1), limit), p1)
PROOF
<1>. DEFINE H == AtHandOf(u, p, r)
            S == H \cup {p1}
            u1 == Trimmed(Append(u, p), limit)
            r1 == <<>>
<1>1. u \in Seq(H) /\ r \in Seq(H) /\ p \in H
  BY DEF HistoryOK, AtHandOf
<1>. HIDE DEF H
<1>2. PICK more \in Seq(H) : more = Append(u, p)
  BY <1>1, AppendProperties
<1>3. u1 \in Seq(H) /\ Len(u1) <= limit /\ r1 \in Seq(H) /\ Len(r1) = 0
  <2>1. u1 = Trimmed(more, limit)
    BY <1>2
  <2>2. <<>> \in Seq(H) /\ Len(<<>>) = 0
    OBVIOUS
  <2>. QED  BY <2>1, <2>2, TrimmedStack
<1>4. HistoryOK(u1, p1, r1, limit)
  <2>1. u1 \in Seq(AtHandOf(u1, p1, r1)) /\ r1 \in Seq(AtHandOf(u1, p1, r1))
    BY <1>3, Retyped
  <2>2. Len(u1) + Len(r1) <= limit
    BY <1>3, LenProperties
  <2>. QED  BY <2>1, <2>2 DEF HistoryOK
<1>5. SubSeq(Stacked(u, p, r), 1, Len(u) + 1) = more
  BY <1>1, <1>2, StackedChange
<1>6. u1 \in Seq(S) /\ p1 \in S
  BY <1>3
<1>. HIDE DEF S
<1>7. Stacked(u1, p1, r1) = Append(u1, p1)
  BY <1>6, StackedChange
<1>8. Len(Append(u1, p1)) = Len(u1) + 1 /\ Append(u1, p1)[Len(u1) + 1] = p1
  BY <1>6, AppendProperties
<1>9. u1 = Trimmed(more, limit)
  BY <1>2
<1>. HIDE DEF u1, r1
<1>10. /\ u1 \in Seq(H) /\ r1 \in Seq(H)
       /\ HistoryOK(u1, p1, r1, limit)
       /\ Len(Stacked(u1, p1, r1)) = Len(u1) + 1
       /\ Stacked(u1, p1, r1)[Len(u1) + 1] = p1
       /\ Stacked(u1, p1, r1)
            = Append(Trimmed(SubSeq(Stacked(u, p, r), 1, Len(u) + 1), limit), p1)
  BY <1>3, <1>4, <1>5, <1>7, <1>8, <1>9
<1>. QED  BY <1>10 DEF H, u1, r1

LEMMA UndoHistory ==
  ASSUME NEW limit \in Nat, NEW u, NEW p, NEW r, HistoryOK(u, p, r, limit), u # <<>>
  PROVE  LET u1 == Front(u)  p1 == Last(u)  r1 == Trimmed(Append(r, p), limit)
         IN /\ u1 \in Seq(AtHandOf(u, p, r)) /\ r1 \in Seq(AtHandOf(u, p, r))
            /\ p1 \in AtHandOf(u, p, r)
            /\ HistoryOK(u1, p1, r1, limit)
            /\ Stacked(u1, p1, r1) = Stacked(u, p, r)
            /\ Len(u) + 1 > 1 /\ Len(u1) + 1 = (Len(u) + 1) - 1
PROOF
<1>. DEFINE H == AtHandOf(u, p, r)
            u1 == Front(u)
            p1 == Last(u)
            r1 == Trimmed(Append(r, p), limit)
<1>1. u \in Seq(H) /\ r \in Seq(H) /\ p \in H
  BY DEF HistoryOK, AtHandOf
<1>. HIDE DEF H
<1>2. PICK m \in Nat, n \in Nat : m = Len(u) /\ n = Len(r) /\ m > 0 /\ m + n <= limit
  BY <1>1, LenProperties DEF HistoryOK
<1>3. u1 \in Seq(H) /\ Len(u1) = m - 1 /\ p1 \in H
  BY <1>1, <1>2, FrontAndLast
<1>4. r1 = Append(r, p) /\ r1 \in Seq(H) /\ Len(r1) = n + 1
  <2>1. PICK more \in Seq(H) : more = Append(r, p) /\ Len(more) = n + 1
    BY <1>1, <1>2, AppendProperties
  <2>2. r1 = Trimmed(more, limit) /\ n + 1 <= limit
    BY <1>2, <2>1
  <2>. QED  BY <2>1, <2>2, TrimmedStack
<1>5. HistoryOK(u1, p1, r1, limit)
  <2>1. u1 \in Seq(AtHandOf(u1, p1, r1)) /\ r1 \in Seq(AtHandOf(u1, p1, r1))
    BY <1>3, <1>4, Retyped
  <2>. QED  BY <1>2, <1>3, <1>4, <2>1 DEF HistoryOK
<1>6. Stacked(u1, p1, r1) = Stacked(u, p, r)
  BY <1>1, <1>3, <1>4, StackedUndo
<1>7. Len(u) + 1 > 1 /\ Len(u1) + 1 = (Len(u) + 1) - 1
  BY <1>2, <1>3
<1>. QED  BY <1>3, <1>4, <1>5, <1>6, <1>7 DEF H

LEMMA RedoHistory ==
  ASSUME NEW limit \in Nat, NEW u, NEW p, NEW r, HistoryOK(u, p, r, limit), r # <<>>
  PROVE  LET u1 == Trimmed(Append(u, p), limit)  p1 == Last(r)  r1 == Front(r)
         IN /\ u1 \in Seq(AtHandOf(u, p, r)) /\ r1 \in Seq(AtHandOf(u, p, r))
            /\ p1 \in AtHandOf(u, p, r)
            /\ HistoryOK(u1, p1, r1, limit)
            /\ Stacked(u1, p1, r1) = Stacked(u, p, r)
            /\ Len(u) + 1 < Len(Stacked(u, p, r)) /\ Len(u1) + 1 = (Len(u) + 1) + 1
PROOF
<1>. DEFINE H == AtHandOf(u, p, r)
            r1 == Front(r)
            p1 == Last(r)
            u1 == Trimmed(Append(u, p), limit)
<1>1. u \in Seq(H) /\ r \in Seq(H) /\ p \in H
  BY DEF HistoryOK, AtHandOf
<1>. HIDE DEF H
<1>2. PICK m \in Nat, n \in Nat : m = Len(u) /\ n = Len(r) /\ n > 0 /\ m + n <= limit
  BY <1>1, LenProperties DEF HistoryOK
<1>3. r1 \in Seq(H) /\ Len(r1) = n - 1 /\ p1 \in H
  BY <1>1, <1>2, FrontAndLast
<1>4. u1 = Append(u, p) /\ u1 \in Seq(H) /\ Len(u1) = m + 1
  <2>1. PICK more \in Seq(H) : more = Append(u, p) /\ Len(more) = m + 1
    BY <1>1, <1>2, AppendProperties
  <2>2. u1 = Trimmed(more, limit) /\ m + 1 <= limit
    BY <1>2, <2>1
  <2>. QED  BY <2>1, <2>2, TrimmedStack
<1>5. HistoryOK(u1, p1, r1, limit)
  <2>1. u1 \in Seq(AtHandOf(u1, p1, r1)) /\ r1 \in Seq(AtHandOf(u1, p1, r1))
    BY <1>3, <1>4, Retyped
  <2>. QED  BY <1>2, <1>3, <1>4, <2>1 DEF HistoryOK
<1>6. Stacked(u1, p1, r1) = Stacked(u, p, r)
  BY <1>1, <1>3, <1>4, StackedRedo
<1>7. Len(u) + 1 < Len(Stacked(u, p, r)) /\ Len(u1) + 1 = (Len(u) + 1) + 1
  <2>1. Len(Stacked(u, p, r)) = Len(u) + 1 + Len(r)
    BY <1>1, StackedAt
  <2>. QED  BY <1>2, <1>4, <2>1
<1>. QED  BY <1>3, <1>4, <1>5, <1>6, <1>7 DEF H

(* An amendment of the present version.                                      *)
LEMMA AmendHistory ==
  ASSUME NEW limit \in Nat, NEW u, NEW p, NEW r, HistoryOK(u, p, r, limit), NEW p1
  PROVE  /\ u \in Seq(AtHandOf(u, p, r)) /\ r \in Seq(AtHandOf(u, p, r))
         /\ HistoryOK(u, p1, r, limit)
         /\ Stacked(u, p1, r)[Len(u) + 1] = p1
         /\ Stacked(u, p1, r) = [Stacked(u, p, r) EXCEPT ![Len(u) + 1] = p1]
PROOF
<1>. DEFINE S == AtHandOf(u, p, r) \cup {p1}
<1>1. /\ u \in Seq(AtHandOf(u, p, r)) /\ r \in Seq(AtHandOf(u, p, r))
      /\ u \in Seq(S) /\ r \in Seq(S) /\ p \in S /\ p1 \in S
  BY DEF HistoryOK, AtHandOf
<1>. HIDE DEF S
<1>2. HistoryOK(u, p1, r, limit)
  BY <1>1, Retyped DEF HistoryOK
<1>3. /\ Stacked(u, p1, r)[Len(u) + 1] = p1
      /\ Stacked(u, p1, r) = [Stacked(u, p, r) EXCEPT ![Len(u) + 1] = p1]
  BY <1>1, StackedAmend
<1>. QED  BY <1>1, <1>2, <1>3
============================================================================
