-------------------------- MODULE WorkflowsProofs --------------------------
(***************************************************************************)
(* Proofs about Workflows, for every declared workflow of any size: what   *)
(* an enqueue accepts is exactly what is well named and acyclic, and its   *)
(* steps then wait for what the declaration means (AcceptedIsOrdered).     *)
(***************************************************************************)
EXTENDS Workflows, FiniteSetTheorems, WellFoundedInduction, TLAPS

-----------------------------------------------------------------------------
(* Induction and folds.                                                    *)

\* Induction over the naturals, for a set instead of a predicate.
LEMMA NatSet ==
    ASSUME NEW S, 0 \in S, \A n \in Nat : n \in S => n + 1 \in S
    PROVE  Nat \subseteq S
<1> DEFINE T == Nat \ S
<1> SUFFICES ASSUME T # {} PROVE FALSE
  OBVIOUS
<1>1. IsWellFoundedOn(OpToRel(<, Nat), Nat)
  BY NatLessThanWellFounded
<1>2. PICK m \in T : \A y \in Nat : <<y, m>> \in OpToRel(<, Nat) => y \notin T
  BY <1>1, WFMin
<1>3. m \in Nat /\ m # 0
  OBVIOUS
<1>4. m - 1 \in Nat /\ <<m - 1, m>> \in OpToRel(<, Nat)
  BY <1>3 DEF OpToRel
<1>5. m - 1 \in S
  BY <1>2, <1>4
<1>6. (m - 1) + 1 \in S
  BY <1>4, <1>5
<1>7. (m - 1) + 1 = m
  BY <1>3
<1> QED
  BY <1>6, <1>7

\* Removing its last number shortens an interval by one: the recursion of a fold
\* over the positions of a list goes from 1 .. k to 1 .. k - 1.
LEMMA IntervalWithoutLast ==
    ASSUME NEW k \in Nat
    PROVE  (1 .. k) \ {k} = 1 .. k - 1
<1>1. ASSUME NEW i \in (1 .. k) \ {k} PROVE i \in 1 .. k - 1
  <2>1. i \in Int /\ 1 <= i /\ i <= k /\ i # k
    OBVIOUS
  <2> QED
    BY <2>1
<1>2. ASSUME NEW i \in 1 .. k - 1 PROVE i \in (1 .. k) \ {k}
  <2>1. i \in Int /\ 1 <= i /\ i <= k - 1
    OBVIOUS
  <2> QED
    BY <2>1
<1> QED
  BY <1>1, <1>2

\* The largest element of an initial segment.
LEMMA MaxOfInterval ==
    ASSUME NEW k \in Nat, k > 0
    PROVE  Max(1 .. k) = k
<1>1. k \in 1 .. k /\ \A y \in 1 .. k : k >= y
  OBVIOUS
<1>2. \A x \in 1 .. k : (\A y \in 1 .. k : x >= y) => x = k
  BY <1>1
<1> QED
  BY <1>1, <1>2 DEF Max

\* The largest element of any part of it.
LEMMA MaxOfPart ==
    ASSUME NEW n \in Nat, NEW T \in SUBSET (1 .. n), T # {}
    PROVE  Max(T) \in T /\ \A y \in T : Max(T) >= y
<1> DEFINE U == {m \in Nat : m <= n /\ n - m \in T}
<1>1. PICK t \in T : TRUE
  OBVIOUS
<1>2. U # {} /\ U \subseteq Nat
  <2>1. n - t \in U
    OBVIOUS
  <2> QED
    BY <2>1
<1>3. IsWellFoundedOn(OpToRel(<, Nat), Nat)
  BY NatLessThanWellFounded
<1>4. PICK m \in U : \A y \in U : ~(<<y, m>> \in OpToRel(<, Nat))
  BY <1>2, <1>3, WFMin
<1>5. n - m \in T
  OBVIOUS
<1>6. \A y \in T : n - m >= y
  <2> SUFFICES ASSUME NEW y \in T, ~(n - m >= y) PROVE FALSE
    OBVIOUS
  <2>1. n - y \in U /\ n - y < m
    OBVIOUS
  <2> QED
    BY <1>4, <2>1 DEF OpToRel
<1> QED
  BY <1>5, <1>6 DEF Max

\* A fold from the left is defined by a recursion over sets of positions, here
\* for a step function G on values V; Turns says the same along the positions: h[k] is the
\* value after k turns.
Recursion(it, V, base, n, s, G) ==
    /\ it[{}] = base
    /\ \A T \in SUBSET (1 .. n) :
           T # {} /\ it[T \ {Max(T)}] \in V => it[T] = G[it[T \ {Max(T)}]][s[Max(T)]]

Turns(h, base, n, s, G) ==
    h[0] = base /\ \A k \in 1 .. n : h[k] = G[h[k - 1]][s[k]]

Unrolls(it, V, base, n, s, G) ==
    \E h \in [0 .. n -> V] : h[n] = it[1 .. n] /\ Turns(h, base, n, s, G)

\* The recursion has a solution.
LEMMA FoldExists ==
    ASSUME NEW V, NEW base \in V, NEW D, NEW n \in Nat, NEW s \in [1 .. n -> D],
           NEW G \in [V -> [D -> V]]
    PROVE  \E it \in [SUBSET (1 .. n) -> V] : Recursion(it, V, base, n, s, G)
<1> DEFINE Solves(it, k) ==
               \A T \in SUBSET (1 .. k) :
                   it[T] = IF T = {} THEN base ELSE G[it[T \ {Max(T)}]][s[Max(T)]]
           Solvable(k) == \E it \in [SUBSET (1 .. k) -> V] : Solves(it, k)
           Solved == {k \in Nat : k <= n => Solvable(k)}
<1>1. Solvable(0)
  <2> DEFINE it == [T \in SUBSET (1 .. 0) |-> base]
  <2>1. it \in [SUBSET (1 .. 0) -> V] /\ \A T \in SUBSET (1 .. 0) : T = {} /\ it[T] = base
    OBVIOUS
  <2>2. Solves(it, 0)
    BY <2>1
  <2> HIDE DEF it, Solves
  <2> QED
    BY <2>1, <2>2
<1>2. ASSUME NEW k \in Nat, k + 1 <= n, Solvable(k) PROVE Solvable(k + 1)
  <2>1. PICK old \in [SUBSET (1 .. k) -> V] : Solves(old, k)
    BY <1>2
  <2> DEFINE new == [T \in SUBSET (1 .. k + 1) |->
                        IF T = {} THEN base ELSE G[old[T \ {Max(T)}]][s[Max(T)]]]
  <2>2. ASSUME NEW T \in SUBSET (1 .. k + 1), T # {}
        PROVE  /\ Max(T) \in 1 .. n
               /\ T \ {Max(T)} \in SUBSET (1 .. k)
    <3> HIDE DEF Solves, new
    <3>0. k + 1 \in Nat
      OBVIOUS
    <3>1. Max(T) \in T /\ \A y \in T : Max(T) >= y
      BY <2>2, <3>0, MaxOfPart
    <3> DEFINE m == Max(T)
    <3>2. m \in 1 .. k + 1 /\ \A y \in T : m >= y
      BY <3>1
    <3> HIDE DEF m
    <3>3. m \in 1 .. n
      BY <1>2, <3>2
    <3>4. ASSUME NEW y \in T \ {m} PROVE y \in 1 .. k
      BY <3>2
    <3> QED
      BY <3>3, <3>4 DEF m
  <2>3. new \in [SUBSET (1 .. k + 1) -> V]
    <3> SUFFICES ASSUME NEW T \in SUBSET (1 .. k + 1), T # {}
                 PROVE  G[old[T \ {Max(T)}]][s[Max(T)]] \in V
      OBVIOUS
    <3> HIDE DEF Solves, new
    <3>1. old[T \ {Max(T)}] \in V /\ s[Max(T)] \in D
      BY <2>2
    <3>2. \A v \in V, d \in D : G[v][d] \in V
      OBVIOUS
    <3> QED
      BY <3>1, <3>2
  <2>4. ASSUME NEW T \in SUBSET (1 .. k) PROVE new[T] = old[T]
    <3>1. T \in SUBSET (1 .. k + 1)
      OBVIOUS
    <3>2. old[T] = IF T = {} THEN base ELSE G[old[T \ {Max(T)}]][s[Max(T)]]
      BY <2>1
    <3> HIDE DEF Solves
    <3> QED
      BY <3>1, <3>2
  <2>5. Solves(new, k + 1)
    <3> SUFFICES ASSUME NEW T \in SUBSET (1 .. k + 1)
                 PROVE  new[T] = IF T = {} THEN base ELSE G[new[T \ {Max(T)}]][s[Max(T)]]
      OBVIOUS
    <3> HIDE DEF Solves
    <3>1. T # {} => new[T \ {Max(T)}] = old[T \ {Max(T)}]
      <4> HIDE DEF new
      <4> QED
        BY <2>2, <2>4
    <3> QED
      BY <3>1
  <2> HIDE DEF new, Solves
  <2> QED
    BY <2>3, <2>5
<1>3. Solvable(n)
  <2> HIDE DEF Solvable
  <2>1. 0 \in Solved
    BY <1>1
  <2>2. ASSUME NEW k \in Nat, k \in Solved PROVE k + 1 \in Solved
    BY <1>2, <2>2
  <2> HIDE DEF Solved
  <2>3. Nat \subseteq Solved
    BY <2>1, <2>2, NatSet
  <2> QED
    BY <2>3 DEF Solved
<1>4. PICK it \in [SUBSET (1 .. n) -> V] : Solves(it, n)
  <2> HIDE DEF Solves
  <2> QED
    BY <1>3
<1> QED
  BY <1>4 DEF Recursion

\* Any solution, along the initial segments.
LEMMA FoldTrace ==
    ASSUME NEW V, NEW base \in V, NEW D, NEW n \in Nat, NEW s \in [1 .. n -> D],
           NEW G \in [V -> [D -> V]], NEW it,
           Recursion(it, V, base, n, s, G)
    PROVE  Unrolls(it, V, base, n, s, G)
<1> DEFINE InV(k) == it[1 .. k] \in V
           S == {k \in Nat : k <= n => InV(k)}
           h == [k \in 0 .. n |-> it[1 .. k]]
<1>1. it[1 .. 0] = base
  <2>1. 1 .. 0 = {}
    OBVIOUS
  <2> QED
    BY <2>1 DEF Recursion
<1>2. ASSUME NEW k \in 1 .. n, InV(k - 1)
      PROVE  it[1 .. k] = G[it[1 .. k - 1]][s[k]]
  <2>1. Max(1 .. k) = k
    <3>1. k \in Nat /\ k > 0
      OBVIOUS
    <3> QED
      BY <3>1, MaxOfInterval
  <2>2. (1 .. k) \ {k} = 1 .. k - 1
    <3>1. k \in Nat
      OBVIOUS
    <3> QED
      BY <3>1, IntervalWithoutLast
  <2>3. 1 .. k \in SUBSET (1 .. n)
    OBVIOUS
  <2>4. k \in 1 .. k
    OBVIOUS
  <2> QED
    BY <1>2, <2>1, <2>2, <2>3, <2>4 DEF Recursion
<1>3. 0 \in S
  BY <1>1
<1>4. ASSUME NEW k \in Nat, k \in S PROVE k + 1 \in S
  <2> SUFFICES ASSUME k + 1 <= n PROVE InV(k + 1)
    OBVIOUS
  <2>1. k + 1 \in 1 .. n /\ (k + 1) - 1 = k /\ InV(k)
    BY <1>4
  <2>2. it[1 .. k + 1] = G[it[1 .. k]][s[k + 1]] /\ s[k + 1] \in D
    BY <1>2, <2>1
  <2> QED
    BY <2>1, <2>2
<1>5. \A k \in 0 .. n : InV(k)
  <2>1. Nat \subseteq S
    <3> HIDE DEF S
    <3> QED
      BY <1>3, <1>4, NatSet
  <2> HIDE DEF InV
  <2> QED
    BY <2>1
<1>6. h \in [0 .. n -> V]
  BY <1>5
<1>7. \A k \in 1 .. n : h[k] = G[h[k - 1]][s[k]]
  <2> SUFFICES ASSUME NEW k \in 1 .. n PROVE h[k] = G[h[k - 1]][s[k]]
    OBVIOUS
  <2>1. k \in 0 .. n /\ k - 1 \in 0 .. n
    OBVIOUS
  <2>2. h[k] = it[1 .. k] /\ h[k - 1] = it[1 .. k - 1]
    BY <2>1
  <2> QED
    BY <1>2, <1>5, <2>1, <2>2
<1>8. h[0] = base /\ h[n] = it[1 .. n]
  BY <1>1
<1> HIDE DEF h
<1> QED
  BY <1>6, <1>7, <1>8 DEF Turns, Unrolls

-----------------------------------------------------------------------------
(* Reachability.                                                           *)

\* A set with every successor of x and of its own holds all that comes after x.
LEMMA ReachWithin ==
    ASSUME NEW S, NEW P, NEW x, NEW C \in SUBSET S, Covers(S, P, x, C)
    PROVE  Reach(S, P, x) \subseteq C
BY DEF Reach

\* What comes after x has itself every successor.
LEMMA ReachCovers ==
    ASSUME NEW S, NEW P, NEW x
    PROVE  Reach(S, P, x) \in SUBSET S /\ Covers(S, P, x, Reach(S, P, x))
<1> SUFFICES ASSUME NEW u \in Reach(S, P, x) \cup {x}, NEW z \in S, <<u, z>> \in P
             PROVE  z \in Reach(S, P, x)
  BY DEF Reach, Covers
<1> SUFFICES ASSUME NEW C \in SUBSET S, Covers(S, P, x, C) PROVE z \in C
  BY DEF Reach
<1>1. u \in C \cup {x}
  BY DEF Reach
<1> QED
  BY <1>1 DEF Covers

\* After what comes after x comes nothing else.
LEMMA ReachOn ==
    ASSUME NEW S, NEW P, NEW x, NEW u \in Reach(S, P, x)
    PROVE  Reach(S, P, u) \subseteq Reach(S, P, x)
<1>1. Reach(S, P, x) \in SUBSET S /\ Covers(S, P, x, Reach(S, P, x))
  BY ReachCovers
<1>2. Covers(S, P, u, Reach(S, P, x))
  BY <1>1 DEF Covers
<1> QED
  BY <1>1, <1>2, ReachWithin

\* Pairs that say nothing new reach nothing new.
LEMMA ReachAlong ==
    ASSUME NEW S, NEW P, NEW Q, NEW x \in S,
           \A u, z \in S : <<u, z>> \in Q => z \in Reach(S, P, u)
    PROVE  Reach(S, Q, x) \subseteq Reach(S, P, x)
<1>1. Reach(S, P, x) \in SUBSET S /\ Covers(S, P, x, Reach(S, P, x))
  BY ReachCovers
<1>2. ASSUME NEW u \in Reach(S, P, x) \cup {x}, NEW z \in S, <<u, z>> \in Q
      PROVE  z \in Reach(S, P, x)
  <2>1. u \in S
    BY <1>1
  <2>2. z \in Reach(S, P, u)
    BY <1>2, <2>1
  <2> QED
    BY <2>2, ReachOn
<1>3. Covers(S, Q, x, Reach(S, P, x))
  BY <1>2 DEF Covers
<1> QED
  BY <1>1, <1>3, ReachWithin

\* Where every element of a part has a predecessor in it, there is a cycle.
LEMMA CycleExists ==
    ASSUME NEW S, IsFiniteSet(S), NEW P, NEW U \in SUBSET S, U # {},
           \A s \in U : \E p \in U : <<p, s>> \in P
    PROVE  \E s \in U : s \in Reach(S, P, s)
<1> SUFFICES ASSUME \A s \in U : s \notin Reach(S, P, s) PROVE FALSE
  OBVIOUS
<1> DEFINE Before(s) == {u \in U : s \in Reach(S, P, u)}
           Sizes == {Cardinality(Before(s)) : s \in U}
<1>1. \A s \in U : IsFiniteSet(Before(s)) /\ Cardinality(Before(s)) \in Nat
  <2> SUFFICES ASSUME NEW s \in U PROVE IsFiniteSet(Before(s)) /\ Cardinality(Before(s)) \in Nat
    OBVIOUS
  <2>1. Before(s) \in SUBSET S
    OBVIOUS
  <2> HIDE DEF Before
  <2>2. IsFiniteSet(Before(s))
    BY <2>1, FS_Subset
  <2> QED
    BY <2>2, FS_CardinalityType
<1>2. Sizes \subseteq Nat /\ Sizes # {}
  <2> HIDE DEF Before
  <2> QED
    BY <1>1
<1>3. IsWellFoundedOn(OpToRel(<, Nat), Nat)
  BY NatLessThanWellFounded
<1>4. PICK m \in Sizes : \A k \in Sizes : ~(<<k, m>> \in OpToRel(<, Nat))
  <2> HIDE DEF Sizes
  <2> QED
    BY <1>2, <1>3, WFMin
<1>5. PICK s \in U : m = Cardinality(Before(s))
  <2> HIDE DEF Before
  <2> QED
    BY <1>4
<1>6. PICK p \in U : <<p, s>> \in P
  OBVIOUS
<1>7. s \in Reach(S, P, p)
  BY <1>6, ReachCovers DEF Covers
<1>8. Before(p) \subseteq Before(s)
  <2> SUFFICES ASSUME NEW u \in U, p \in Reach(S, P, u) PROVE s \in Reach(S, P, u)
    OBVIOUS
  <2> QED
    BY <1>7, ReachOn
<1>9. p \in Before(s) /\ p \notin Before(p)
  BY <1>7
<1>10. Cardinality(Before(p)) < Cardinality(Before(s))
  <2> HIDE DEF Before
  <2>1. /\ Cardinality(Before(p)) <= Cardinality(Before(s))
        /\ Cardinality(Before(s)) = Cardinality(Before(p)) => Before(s) = Before(p)
    BY <1>1, <1>8, FS_Subset
  <2> QED
    BY <1>1, <1>9, <2>1
<1>11. Cardinality(Before(p)) \in Sizes
  OBVIOUS
<1> HIDE DEF Before, Sizes
<1> QED
  BY <1>1, <1>4, <1>5, <1>10, <1>11 DEF OpToRel

-----------------------------------------------------------------------------
(* The folds of the algorithms, turn by turn: h[k] is the value after the   *)
(* first k elements.                                                        *)

\* Appending to a sequence.
LEMMA Appended ==
    ASSUME NEW S, NEW s \in Seq(S), NEW x \in S
    PROVE  Append(s, x) \in Seq(S)
OBVIOUS

\* One node, looked at.
Rooted(indeg, out, n) == IF indeg[n] = 0 THEN Append(out, n) ELSE out

\* The nodes collected turn by turn.
RootsRun(h, V0, nodes, indeg) ==
    /\ h \in [0 .. Len(nodes) -> Seq(V0)] /\ h[0] = <<>> /\ h[Len(nodes)] = Roots(nodes, indeg)
    /\ \A k \in 1 .. Len(nodes) : h[k] = Rooted(indeg, h[k - 1], nodes[k])

\* The nodes without an edge into them, collected one by one.
LEMMA RootsTrace ==
    ASSUME NEW V0, NEW nodes \in Seq(V0), NEW indeg
    PROVE  \E h : RootsRun(h, V0, nodes, indeg)
<1> DEFINE n == Len(nodes)
           V == Seq(V0)
           D == V0
           b == <<>>
           G == [v \in V |-> [x \in D |-> Rooted(indeg, v, x)]]
           Rec(it) == it = [T \in SUBSET (1 .. n) |->
                               IF T = {} THEN b ELSE Rooted(indeg, it[T \ {Max(T)}], nodes[Max(T)])]
           it == CHOOSE it : Rec(it)
<1>1. G \in [V -> [D -> V]]
  <2>1. ASSUME NEW v \in V, NEW x \in D PROVE Rooted(indeg, v, x) \in V
    BY Appended DEF Rooted
  <2> HIDE DEF V, D, n, b, Rec, it
  <2> QED
    BY <2>1
<1>2. n \in Nat /\ nodes \in [1 .. n -> D] /\ DOMAIN nodes = 1 .. n
  OBVIOUS
<1>3. \A v \in V, x \in D : G[v][x] = Rooted(indeg, v, x)
  OBVIOUS
<1>4. ASSUME NEW T \in SUBSET (1 .. n), T # {} PROVE Max(T) \in 1 .. n /\ nodes[Max(T)] \in D
  <2> HIDE DEF n, G, it, Rec, D
  <2>1. Max(T) \in T
    BY <1>2, <1>4, MaxOfPart
  <2> QED
    BY <1>2, <2>1
<1>5. Roots(nodes, indeg) = it[1 .. n]
  BY <1>2 DEF Roots, Rooted, FoldLeft, MapThenFoldSet
<1>0. b \in V
  OBVIOUS
<1> HIDE DEF G, V, n, D, b
<1>6. \E f : Rec(f)
  <2>1. PICK f \in [SUBSET (1 .. n) -> V] : Recursion(f, V, b, n, nodes, G)
    <3> HIDE DEF Rec, it
    <3> QED
      BY <1>0, <1>1, <1>2, FoldExists
  <2>2. ASSUME NEW T \in SUBSET (1 .. n)
        PROVE  f[T] = IF T = {} THEN b ELSE Rooted(indeg, f[T \ {Max(T)}], nodes[Max(T)])
    <3> HIDE DEF Rec, it
    <3>1. f[T \ {Max(T)}] \in V
      <4>1. T \ {Max(T)} \in SUBSET (1 .. n)
        OBVIOUS
      <4> QED
        BY <4>1
    <3>2. T # {} => G[f[T \ {Max(T)}]][nodes[Max(T)]] = Rooted(indeg, f[T \ {Max(T)}], nodes[Max(T)])
      BY <1>3, <1>4, <3>1
    <3> QED
      BY <2>1, <3>2 DEF Recursion
  <2>3. Rec(f)
    <3> HIDE DEF it
    <3>1. f = [T \in SUBSET (1 .. n) |-> f[T]]
      OBVIOUS
    <3> QED
      BY <2>2, <3>1
  <2> HIDE DEF Rec, it
  <2> QED
    BY <2>3
<1>7. Rec(it)
  <2> HIDE DEF Rec
  <2> QED
    BY <1>6
<1> HIDE DEF it
<1>8. it[{}] = b
  BY <1>7
<1>9. ASSUME NEW T \in SUBSET (1 .. n), T # {}, it[T \ {Max(T)}] \in V
      PROVE  it[T] = G[it[T \ {Max(T)}]][nodes[Max(T)]]
  <2>1. it[T] = Rooted(indeg, it[T \ {Max(T)}], nodes[Max(T)])
    BY <1>7, <1>9
  <2> QED
    BY <1>3, <1>4, <1>9, <2>1
<1>10. Recursion(it, V, b, n, nodes, G)
  BY <1>8, <1>9 DEF Recursion
<1>11. PICK h \in [0 .. n -> V] : h[n] = it[1 .. n] /\ Turns(h, b, n, nodes, G)
  <2> HIDE DEF Rec
  <2>1. Unrolls(it, V, b, n, nodes, G)
    BY <1>0, <1>1, <1>2, <1>10, FoldTrace
  <2> QED
    BY <2>1 DEF Unrolls
<1>12. ASSUME NEW k \in 1 .. n PROVE h[k] = Rooted(indeg, h[k - 1], nodes[k])
  <2>1. k - 1 \in 0 .. n
    BY <1>2
  <2>2. h[k - 1] \in V /\ nodes[k] \in D
    BY <1>2, <2>1
  <2> QED
    BY <1>3, <1>11, <2>2 DEF Turns
<1> QED
  BY <1>5, <1>11, <1>12 DEF n, V, b, Turns, RootsRun

\* The states of the walk.
Walks(V) == [queue : Seq(V), indeg : [V -> Int], level : [V -> Nat], visited : Nat]

\* Following an edge keeps the walk typed.
LEMMA FollowTyped ==
    ASSUME NEW V, NEW q \in Walks(V), NEW n \in V, NEW e \in V \X V
    PROVE  Follow(q, n, e) \in Walks(V)
<1> DEFINE m == e[2]
<1>1. m \in V
  OBVIOUS
<1>2. /\ q.queue \in Seq(V) /\ q.indeg \in [V -> Int] /\ q.level \in [V -> Nat] /\ q.visited \in Nat
      /\ q = [queue |-> q.queue, indeg |-> q.indeg, level |-> q.level, visited |-> q.visited]
  BY DEF Walks
<1> HIDE DEF m
<1>3. [q.indeg EXCEPT ![m] = @ - 1] \in [V -> Int]
  BY <1>1, <1>2
<1>4. [q.level EXCEPT ![m] = IF q.level[n] + 1 > @ THEN q.level[n] + 1 ELSE @] \in [V -> Nat]
  BY <1>1, <1>2
<1>5. (IF q.indeg[m] = 1 THEN Append(q.queue, m) ELSE q.queue) \in Seq(V)
  BY <1>1, <1>2
<1>6. CASE e[1] # n
  BY <1>6 DEF Follow
<1>7. CASE e[1] = n
  BY <1>2, <1>3, <1>4, <1>5, <1>7 DEF Follow, Walks, m
<1> QED
  BY <1>6, <1>7

\* The edges followed turn by turn.
FollowRun(h, V0, p, n0, edges) ==
    /\ h \in [0 .. Len(edges) -> Walks(V0)] /\ h[0] = p /\ h[Len(edges)] = FollowAll(p, n0, edges)
    /\ \A k \in 1 .. Len(edges) : h[k] = Follow(h[k - 1], n0, edges[k])

\* The edges, followed one after the other.
LEMMA FollowTrace ==
    ASSUME NEW V0, NEW edges \in Seq(V0 \X V0), NEW n0 \in V0, NEW p \in Walks(V0)
    PROVE  \E h : FollowRun(h, V0, p, n0, edges)
<1> DEFINE n == Len(edges)
           V == Walks(V0)
           D == V0 \X V0
           b == p
           G == [v \in V |-> [x \in D |-> Follow(v, n0, x)]]
           Rec(it) == it = [T \in SUBSET (1 .. n) |->
                               IF T = {} THEN b ELSE Follow(it[T \ {Max(T)}], n0, edges[Max(T)])]
           it == CHOOSE it : Rec(it)
<1>1. G \in [V -> [D -> V]]
  <2>1. ASSUME NEW v \in V, NEW x \in D PROVE Follow(v, n0, x) \in V
    BY FollowTyped
  <2> HIDE DEF V, D, n, b, Rec, it
  <2> QED
    BY <2>1
<1>2. n \in Nat /\ edges \in [1 .. n -> D] /\ DOMAIN edges = 1 .. n
  OBVIOUS
<1>3. \A v \in V, x \in D : G[v][x] = Follow(v, n0, x)
  OBVIOUS
<1>4. ASSUME NEW T \in SUBSET (1 .. n), T # {} PROVE Max(T) \in 1 .. n /\ edges[Max(T)] \in D
  <2> HIDE DEF n, G, it, Rec, D
  <2>1. Max(T) \in T
    BY <1>2, <1>4, MaxOfPart
  <2> QED
    BY <1>2, <2>1
<1>5. FollowAll(p, n0, edges) = it[1 .. n]
  BY <1>2 DEF FollowAll, FoldLeft, MapThenFoldSet
<1>0. b \in V
  OBVIOUS
<1> HIDE DEF G, V, n, D, b
<1>6. \E f : Rec(f)
  <2>1. PICK f \in [SUBSET (1 .. n) -> V] : Recursion(f, V, b, n, edges, G)
    <3> HIDE DEF Rec, it
    <3> QED
      BY <1>0, <1>1, <1>2, FoldExists
  <2>2. ASSUME NEW T \in SUBSET (1 .. n)
        PROVE  f[T] = IF T = {} THEN b ELSE Follow(f[T \ {Max(T)}], n0, edges[Max(T)])
    <3> HIDE DEF Rec, it
    <3>1. f[T \ {Max(T)}] \in V
      <4>1. T \ {Max(T)} \in SUBSET (1 .. n)
        OBVIOUS
      <4> QED
        BY <4>1
    <3>2. T # {} => G[f[T \ {Max(T)}]][edges[Max(T)]] = Follow(f[T \ {Max(T)}], n0, edges[Max(T)])
      BY <1>3, <1>4, <3>1
    <3> QED
      BY <2>1, <3>2 DEF Recursion
  <2>3. Rec(f)
    <3> HIDE DEF it
    <3>1. f = [T \in SUBSET (1 .. n) |-> f[T]]
      OBVIOUS
    <3> QED
      BY <2>2, <3>1
  <2> HIDE DEF Rec, it
  <2> QED
    BY <2>3
<1>7. Rec(it)
  <2> HIDE DEF Rec
  <2> QED
    BY <1>6
<1> HIDE DEF it
<1>8. it[{}] = b
  BY <1>7
<1>9. ASSUME NEW T \in SUBSET (1 .. n), T # {}, it[T \ {Max(T)}] \in V
      PROVE  it[T] = G[it[T \ {Max(T)}]][edges[Max(T)]]
  <2>1. it[T] = Follow(it[T \ {Max(T)}], n0, edges[Max(T)])
    BY <1>7, <1>9
  <2> QED
    BY <1>3, <1>4, <1>9, <2>1
<1>10. Recursion(it, V, b, n, edges, G)
  BY <1>8, <1>9 DEF Recursion
<1>11. PICK h \in [0 .. n -> V] : h[n] = it[1 .. n] /\ Turns(h, b, n, edges, G)
  <2> HIDE DEF Rec
  <2>1. Unrolls(it, V, b, n, edges, G)
    BY <1>0, <1>1, <1>2, <1>10, FoldTrace
  <2> QED
    BY <2>1 DEF Unrolls
<1>12. ASSUME NEW k \in 1 .. n PROVE h[k] = Follow(h[k - 1], n0, edges[k])
  <2>1. k - 1 \in 0 .. n
    BY <1>2
  <2>2. h[k - 1] \in V /\ edges[k] \in D
    BY <1>2, <2>1
  <2> QED
    BY <1>3, <1>11, <2>2 DEF Turns
<1> QED
  BY <1>5, <1>11, <1>12 DEF n, V, b, Turns, FollowRun

\* What a turn takes off the queue.
LEMMA Popped ==
    ASSUME NEW V, NEW q \in Walks(V), q.queue # <<>>
    PROVE  LET p == [q EXCEPT !.queue = Tail(@), !.visited = @ + 1]
           IN /\ p \in Walks(V) /\ Head(q.queue) \in V
              /\ p.queue = Tail(q.queue) /\ p.visited = q.visited + 1 /\ p.indeg = q.indeg
<1> DEFINE t == Tail(q.queue)
           v == q.visited + 1
           p == [q EXCEPT !.queue = Tail(@), !.visited = @ + 1]
<1>1. t \in Seq(V) /\ v \in Nat /\ Head(q.queue) \in V
  BY DEF Walks
<1>2. p = [q EXCEPT !.queue = t, !.visited = v]
  OBVIOUS
<1> HIDE DEF t, v, p
<1>3. p \in Walks(V) /\ p.queue = t /\ p.visited = v /\ p.indeg = q.indeg
  BY <1>1, <1>2 DEF Walks
<1> QED
  BY <1>1, <1>3 DEF t, v, p

\* A turn of the loop keeps the walk typed.
LEMMA VisitTyped ==
    ASSUME NEW V, NEW edges \in Seq(V \X V), NEW q \in Walks(V)
    PROVE  VisitHead(q, edges) \in Walks(V)
<1>1. CASE q.queue = <<>>
  BY <1>1 DEF VisitHead
<1>2. CASE q.queue # <<>>
  <2> DEFINE p == [q EXCEPT !.queue = Tail(@), !.visited = @ + 1]
             n == Head(q.queue)
  <2>1. p \in Walks(V) /\ n \in V
    BY <1>2, Popped
  <2>2. VisitHead(q, edges) = FollowAll(p, n, edges)
    BY <1>2 DEF VisitHead
  <2> HIDE DEF p, n
  <2>3. PICK h : FollowRun(h, V, p, n, edges)
    BY <2>1, FollowTrace
  <2>4. h[Len(edges)] \in Walks(V) /\ h[Len(edges)] = FollowAll(p, n, edges)
    BY <2>3 DEF FollowRun
  <2> QED
    BY <2>2, <2>4
<1> QED
  BY <1>1, <1>2

\* The nodes visited turn by turn.
VisitRun(h, V0, nodes, edges) ==
    /\ h \in [0 .. Len(nodes) -> Walks(V0)] /\ h[0] = Start(nodes, edges) /\ h[Len(nodes)] = Topology(nodes, edges)
    /\ \A k \in 1 .. Len(nodes) : h[k] = VisitHead(h[k - 1], edges)

\* The turns of the loop.
LEMMA VisitTrace ==
    ASSUME NEW V0, NEW nodes \in Seq(V0), NEW edges \in Seq(V0 \X V0),
           Start(nodes, edges) \in Walks(V0)
    PROVE  \E h : VisitRun(h, V0, nodes, edges)
<1> DEFINE n == Len(nodes)
           V == Walks(V0)
           D == V0
           b == Start(nodes, edges)
           G == [v \in V |-> [x \in D |-> VisitHead(v, edges)]]
           Rec(it) == it = [T \in SUBSET (1 .. n) |->
                               IF T = {} THEN b ELSE VisitHead(it[T \ {Max(T)}], edges)]
           it == CHOOSE it : Rec(it)
<1>1. G \in [V -> [D -> V]]
  <2>1. ASSUME NEW v \in V, NEW x \in D PROVE VisitHead(v, edges) \in V
    BY VisitTyped
  <2> HIDE DEF V, D, n, b, Rec, it
  <2> QED
    BY <2>1
<1>2. n \in Nat /\ nodes \in [1 .. n -> D] /\ DOMAIN nodes = 1 .. n
  OBVIOUS
<1>3. \A v \in V, x \in D : G[v][x] = VisitHead(v, edges)
  OBVIOUS
<1>4. ASSUME NEW T \in SUBSET (1 .. n), T # {} PROVE Max(T) \in 1 .. n /\ nodes[Max(T)] \in D
  <2> HIDE DEF n, G, it, Rec, D
  <2>1. Max(T) \in T
    BY <1>2, <1>4, MaxOfPart
  <2> QED
    BY <1>2, <2>1
<1>5. Topology(nodes, edges) = it[1 .. n]
  BY <1>2 DEF Topology, FoldLeft, MapThenFoldSet
<1>0. b \in V
  OBVIOUS
<1> HIDE DEF G, V, n, D, b
<1>6. \E f : Rec(f)
  <2>1. PICK f \in [SUBSET (1 .. n) -> V] : Recursion(f, V, b, n, nodes, G)
    <3> HIDE DEF Rec, it
    <3> QED
      BY <1>0, <1>1, <1>2, FoldExists
  <2>2. ASSUME NEW T \in SUBSET (1 .. n)
        PROVE  f[T] = IF T = {} THEN b ELSE VisitHead(f[T \ {Max(T)}], edges)
    <3> HIDE DEF Rec, it
    <3>1. f[T \ {Max(T)}] \in V
      <4>1. T \ {Max(T)} \in SUBSET (1 .. n)
        OBVIOUS
      <4> QED
        BY <4>1
    <3>2. T # {} => G[f[T \ {Max(T)}]][nodes[Max(T)]] = VisitHead(f[T \ {Max(T)}], edges)
      BY <1>3, <1>4, <3>1
    <3> QED
      BY <2>1, <3>2 DEF Recursion
  <2>3. Rec(f)
    <3> HIDE DEF it
    <3>1. f = [T \in SUBSET (1 .. n) |-> f[T]]
      OBVIOUS
    <3> QED
      BY <2>2, <3>1
  <2> HIDE DEF Rec, it
  <2> QED
    BY <2>3
<1>7. Rec(it)
  <2> HIDE DEF Rec
  <2> QED
    BY <1>6
<1> HIDE DEF it
<1>8. it[{}] = b
  BY <1>7
<1>9. ASSUME NEW T \in SUBSET (1 .. n), T # {}, it[T \ {Max(T)}] \in V
      PROVE  it[T] = G[it[T \ {Max(T)}]][nodes[Max(T)]]
  <2>1. it[T] = VisitHead(it[T \ {Max(T)}], edges)
    BY <1>7, <1>9
  <2> QED
    BY <1>3, <1>4, <1>9, <2>1
<1>10. Recursion(it, V, b, n, nodes, G)
  BY <1>8, <1>9 DEF Recursion
<1>11. PICK h \in [0 .. n -> V] : h[n] = it[1 .. n] /\ Turns(h, b, n, nodes, G)
  <2> HIDE DEF Rec
  <2>1. Unrolls(it, V, b, n, nodes, G)
    BY <1>0, <1>1, <1>2, <1>10, FoldTrace
  <2> QED
    BY <2>1 DEF Unrolls
<1>12. ASSUME NEW k \in 1 .. n PROVE h[k] = VisitHead(h[k - 1], edges)
  <2>1. k - 1 \in 0 .. n
    BY <1>2
  <2>2. h[k - 1] \in V /\ nodes[k] \in D
    BY <1>2, <2>1
  <2> QED
    BY <1>3, <1>11, <2>2 DEF Turns
<1> QED
  BY <1>5, <1>11, <1>12 DEF n, V, b, Turns, VisitRun

-----------------------------------------------------------------------------
(* Kahn's algorithm.                                                       *)

\* left[m] are the edges into m that are not followed yet and seen the nodes
\* that have left the queue: the queue has the others without an edge left, once.
Balanced(q, V, left, seen) ==
    /\ \A a, b \in DOMAIN q.queue : q.queue[a] = q.queue[b] => a = b
    /\ \A a \in DOMAIN q.queue : q.queue[a] \notin seen
    /\ \A m \in V : q.indeg[m] = Cardinality(left[m])
    /\ \A m \in V : q.indeg[m] = 0 <=> m \in seen \/ \E a \in DOMAIN q.queue : q.queue[a] = m

\* The edges into m from nodes outside done, less those from n up to the i-th.
Owed(edges, m, done, n, i) ==
    {j \in DOMAIN edges : edges[j][2] = m /\ edges[j][1] \notin done /\ ~(edges[j][1] = n /\ j <= i)}

Left(edges, m, done) == {j \in DOMAIN edges : edges[j][2] = m /\ edges[j][1] \notin done}
LeftOf(V, edges, done) == [m \in V |-> Left(edges, m, done)]

\* What an edge that is followed does, field by field.
LEMMA FollowFields ==
    ASSUME NEW V, NEW q \in Walks(V), NEW n \in V, NEW e \in V \X V, e[1] = n
    PROVE  LET p == Follow(q, n, e)
           IN /\ p.visited = q.visited
              /\ p.queue = (IF q.indeg[e[2]] = 1 THEN Append(q.queue, e[2]) ELSE q.queue)
              /\ p.indeg = [q.indeg EXCEPT ![e[2]] = @ - 1]
<1> DEFINE m == e[2]
           u == IF q.indeg[m] = 1 THEN Append(q.queue, m) ELSE q.queue
           d == [q.indeg EXCEPT ![m] = @ - 1]
           l == [q.level EXCEPT ![m] = IF q.level[n] + 1 > @ THEN q.level[n] + 1 ELSE @]
<1>1. Follow(q, n, e) = [q EXCEPT !.indeg = d, !.level = l, !.queue = u]
  BY DEF Follow, Walks
<1> HIDE DEF u, d, l
<1>2. LET p == [q EXCEPT !.indeg = d, !.level = l, !.queue = u]
      IN p.visited = q.visited /\ p.queue = u /\ p.indeg = d
  BY DEF Walks
<1> QED
  BY <1>1, <1>2 DEF u, d

\* Following an edge visits no node.
LEMMA FollowVisited ==
    ASSUME NEW V, NEW q \in Walks(V), NEW n \in V, NEW e \in V \X V
    PROVE  Follow(q, n, e).visited = q.visited
<1>1. CASE e[1] = n
  <2> DEFINE m == e[2]
             u == IF q.indeg[m] = 1 THEN Append(q.queue, m) ELSE q.queue
             d == [q.indeg EXCEPT ![m] = @ - 1]
             l == [q.level EXCEPT ![m] = IF q.level[n] + 1 > @ THEN q.level[n] + 1 ELSE @]
  <2>1. Follow(q, n, e) = [q EXCEPT !.indeg = d, !.level = l, !.queue = u]
    BY <1>1 DEF Follow, Walks
  <2> HIDE DEF u, d, l
  <2> QED
    BY <2>1 DEF Walks
<1>2. CASE e[1] # n
  BY <1>2 DEF Follow
<1> QED
  BY <1>1, <1>2

\* An edge that is followed is left no longer, and the last one queues its node.
LEMMA FollowBalanced ==
    ASSUME NEW V, NEW J, IsFiniteSet(J), NEW left \in [V -> SUBSET J], NEW seen \in SUBSET V,
           NEW q \in Walks(V), Balanced(q, V, left, seen),
           NEW n \in V, NEW e \in V \X V, e[1] = n, NEW i \in left[e[2]]
    PROVE  Balanced(Follow(q, n, e), V, [left EXCEPT ![e[2]] = @ \ {i}], seen)
<1> DEFINE m == e[2]
           p == Follow(q, n, e)
           rest == [left EXCEPT ![e[2]] = @ \ {i}]
<1>1. m \in V /\ q.queue \in Seq(V) /\ q.indeg \in [V -> Int] /\ left[m] \in SUBSET J
  BY DEF Walks
<1>2. p.queue = (IF q.indeg[m] = 1 THEN Append(q.queue, m) ELSE q.queue) /\ p.indeg = [q.indeg EXCEPT ![m] = @ - 1]
  BY FollowFields
<1>3. IsFiniteSet(left[m]) /\ Cardinality(left[m]) \in Nat
  BY <1>1, FS_Subset, FS_CardinalityType
<1>4. /\ Cardinality(left[m] \ {i}) = Cardinality(left[m]) - 1
      /\ Cardinality(left[m] \ {i}) \in Nat
  <2>1. IsFiniteSet(left[m] \ {i}) /\ Cardinality(left[m] \ {i}) = Cardinality(left[m]) - 1
    BY <1>3, FS_RemoveElement
  <2> QED
    BY <2>1, FS_CardinalityType
<1>5. q.indeg[m] = Cardinality(left[m]) /\ q.indeg[m] # 0
  BY <1>1, <1>3, <1>4 DEF Balanced
<1>6. m \notin seen /\ \A a \in DOMAIN q.queue : q.queue[a] # m
  BY <1>1, <1>5 DEF Balanced
<1>7. \A x \in V : p.indeg[x] = Cardinality(rest[x])
  <2> SUFFICES ASSUME NEW x \in V PROVE p.indeg[x] = Cardinality(rest[x])
    OBVIOUS
  <2>1. q.indeg[x] = Cardinality(left[x])
    BY DEF Balanced
  <2>2. rest[x] = IF x = m THEN left[m] \ {i} ELSE left[x]
    OBVIOUS
  <2>3. p.indeg[x] = IF x = m THEN q.indeg[m] - 1 ELSE q.indeg[x]
    BY <1>1, <1>2
  <2> HIDE DEF rest, p, m
  <2> QED
    BY <1>4, <1>5, <2>1, <2>2, <2>3
<1> HIDE DEF p, rest, m
<1>8. \A x \in V : p.indeg[x] = IF x = m THEN q.indeg[m] - 1 ELSE q.indeg[x]
  BY <1>1, <1>2
<1>9. CASE q.indeg[m] = 1
  <2>1. p.queue = Append(q.queue, m)
    BY <1>2, <1>9
  <2>2. /\ DOMAIN p.queue = 1 .. Len(q.queue) + 1 /\ DOMAIN q.queue = 1 .. Len(q.queue) /\ Len(q.queue) \in Nat
        /\ \A a \in DOMAIN q.queue : p.queue[a] = q.queue[a]
        /\ p.queue[Len(q.queue) + 1] = m
    BY <1>1, <2>1
  <2>3. \A a \in DOMAIN p.queue : a \in DOMAIN q.queue \/ a = Len(q.queue) + 1
    BY <2>2
  <2>4. \A a, b \in DOMAIN p.queue : p.queue[a] = p.queue[b] => a = b
    BY SMTT(30), <1>6, <2>2, <2>3 DEF Balanced
  <2>5. \A a \in DOMAIN p.queue : p.queue[a] \notin seen
    BY <1>6, <2>2, <2>3 DEF Balanced
  <2>6. ASSUME NEW x \in V
        PROVE  p.indeg[x] = 0 <=> x \in seen \/ \E a \in DOMAIN p.queue : p.queue[a] = x
    <3>1. CASE x = m
      <4>1. Len(q.queue) + 1 \in DOMAIN p.queue
        BY <2>2
      <4> QED
        BY <1>8, <1>9, <2>2, <3>1, <4>1
    <3>2. CASE x # m
      <4>1. (\E a \in DOMAIN p.queue : p.queue[a] = x) <=> \E a \in DOMAIN q.queue : q.queue[a] = x
        <5>1. \A a \in DOMAIN q.queue : a \in DOMAIN p.queue
          BY <2>2
        <5> QED
          BY <2>2, <2>3, <3>2, <5>1
      <4> QED
        BY <1>8, <3>2, <4>1 DEF Balanced
    <3> QED
      BY <3>1, <3>2
  <2> QED
    <3>1. Balanced(p, V, rest, seen)
      BY <1>7, <2>4, <2>5, <2>6 DEF Balanced
    <3> QED
      BY <3>1 DEF p, rest, m
<1>10. CASE q.indeg[m] # 1
  <2>1. p.queue = q.queue
    BY <1>2, <1>10
  <2>2. ASSUME NEW x \in V
        PROVE  p.indeg[x] = 0 <=> x \in seen \/ \E a \in DOMAIN p.queue : p.queue[a] = x
    <3>1. CASE x = m
      <4>1. p.indeg[m] # 0
        BY <1>1, <1>8, <1>10
      <4> QED
        BY <1>6, <2>1, <3>1, <4>1
    <3>2. CASE x # m
      BY <1>8, <2>1, <3>2 DEF Balanced
    <3> QED
      BY <3>1, <3>2
  <2> QED
    <3>1. Balanced(p, V, rest, seen)
      <4>1. \A a, b \in DOMAIN p.queue : p.queue[a] = p.queue[b] => a = b
        BY <2>1 DEF Balanced
      <4>2. \A a \in DOMAIN p.queue : p.queue[a] \notin seen
        BY <2>1 DEF Balanced
      <4> QED
        BY <1>7, <2>2, <4>1, <4>2 DEF Balanced
    <3> QED
      BY <3>1 DEF p, rest, m
<1> QED
  BY <1>9, <1>10

\* The inner loop: all edges of a node that has no edge left into it.
LEMMA FollowAllBalanced ==
    ASSUME NEW V, NEW edges \in Seq(V \X V), NEW done \in SUBSET V, NEW n \in V \ done,
           NEW p \in Walks(V),
           Balanced(p, V, LeftOf(V, edges, done), done \cup {n})
    PROVE  LET q == FollowAll(p, n, edges)
           IN /\ q \in Walks(V) /\ q.visited = p.visited
              /\ Balanced(q, V, LeftOf(V, edges, done \cup {n}), done \cup {n})
<1>0. PICK h : FollowRun(h, V, p, n, edges)
  BY FollowTrace
<1> DEFINE N == Len(edges)
           J == DOMAIN edges
           seen == done \cup {n}
           left(i) == [m \in V |-> Owed(edges, m, done, n, i)]
<1>1. /\ h \in [0 .. N -> Walks(V)] /\ h[0] = p /\ h[N] = FollowAll(p, n, edges)
      /\ \A k \in 1 .. N : h[k] = Follow(h[k - 1], n, edges[k])
  BY <1>0 DEF FollowRun
<1>2. N \in Nat /\ J = 1 .. N /\ IsFiniteSet(J) /\ seen \in SUBSET V
  <2>1. N \in Nat /\ J = 1 .. N
    OBVIOUS
  <2> QED
    BY <2>1, FS_Interval
<1>3. \A i \in Nat : left(i) \in [V -> SUBSET J]
  BY DEF Owed
<1> DEFINE Ok(k) == h[k].visited = p.visited /\ Balanced(h[k], V, left(k), seen)
           Good == {k \in Nat : k <= N => Ok(k)}
<1>4. left(0) = LeftOf(V, edges, done)
  <2>1. \A m \in V : Owed(edges, m, done, n, 0) = Left(edges, m, done)
    BY <1>2 DEF Owed, Left
  <2> QED
    BY <2>1 DEF LeftOf
<1>5. left(N) = LeftOf(V, edges, seen)
  <2>1. \A m \in V : Owed(edges, m, done, n, N) = Left(edges, m, seen)
    BY <1>2 DEF Owed, Left
  <2> QED
    BY <2>1 DEF LeftOf
<1>6. 0 \in Good
  BY <1>1, <1>4
<1>7. ASSUME NEW k \in Nat, k \in Good PROVE k + 1 \in Good
  <2> SUFFICES ASSUME k + 1 <= N PROVE Ok(k + 1)
    OBVIOUS
  <2> DEFINE i == k + 1
             e == edges[i]
  <2>0. i \in 1 .. N /\ i - 1 = k /\ k \in 0 .. N /\ i \in Nat /\ i \in J
    BY <1>2
  <2>1. e \in V \X V /\ h[k] \in Walks(V) /\ h[i] = Follow(h[k], n, e)
    BY <1>1, <2>0
  <2>2. Ok(k)
    BY <1>7, <2>0
  <2> HIDE DEF i
  <2>3. CASE e[1] = n
    <3>1. i \in left(k)[e[2]]
      <4>1. e[2] \in V /\ ~(i <= k)
        BY <2>0, <2>1
      <4> QED
        BY <2>0, <2>3, <4>1 DEF Owed
    <3>2. left(i) = [left(k) EXCEPT ![e[2]] = @ \ {i}]
      <4>1. ASSUME NEW m \in V
            PROVE  Owed(edges, m, done, n, i) = IF m = e[2] THEN Owed(edges, m, done, n, k) \ {i}
                                                ELSE Owed(edges, m, done, n, k)
        <5>1. \A j \in J : j <= i <=> j <= k \/ j = i
          BY <1>2, <2>0
        <5> QED
          BY <2>3, <5>1 DEF Owed
      <4>2. e[2] \in V
        BY <2>1
      <4> QED
        BY <4>1, <4>2
    <3> HIDE DEF left, e, J, seen, N
    <3>3. Balanced(Follow(h[k], n, e), V, [left(k) EXCEPT ![e[2]] = @ \ {i}], seen)
      BY <1>2, <1>3, <2>1, <2>2, <2>3, <3>1, FollowBalanced
    <3>4. Follow(h[k], n, e).visited = h[k].visited
      <4>1. n \in V /\ h[k] \in Walks(V) /\ e \in V \X V /\ e[1] = n
        BY <2>1, <2>3
      <4> QED
        BY <4>1, FollowVisited
    <3> QED
      BY <2>0, <2>1, <2>2, <3>2, <3>3, <3>4 DEF i
  <2>4. CASE e[1] # n
    <3>1. left(i) = left(k)
      <4>1. ASSUME NEW m \in V PROVE Owed(edges, m, done, n, i) = Owed(edges, m, done, n, k)
        <5>1. \A j \in J : j <= i <=> j <= k \/ j = i
          BY <1>2, <2>0
        <5> QED
          BY <2>4, <5>1 DEF Owed
      <4> QED
        BY <4>1
    <3>2. h[i] = h[k]
      BY <2>1, <2>4 DEF Follow
    <3> HIDE DEF left
    <3> QED
      BY <2>2, <3>1, <3>2 DEF i
  <2> QED
    BY <2>3, <2>4
<1>8. Ok(N)
  <2>1. Nat \subseteq Good
    <3> HIDE DEF Good
    <3> QED
      BY <1>6, <1>7, NatSet
  <2> HIDE DEF Ok
  <2> QED
    BY <1>2, <2>1
<1>9. h[N] \in Walks(V)
  BY <1>1, <1>2
<1> HIDE DEF left, N
<1> QED
  BY <1>1, <1>5, <1>8, <1>9 DEF seen

\* The queue starts with the nodes without an edge into them, each once.
LEMMA RootsQueued ==
    ASSUME NEW V, NEW nodes \in Seq(V), NoDuplicates(nodes), NEW indeg
    PROVE  LET r == Roots(nodes, indeg)
           IN /\ r \in Seq(V)
              /\ \A a, b \in DOMAIN r : r[a] = r[b] => a = b
              /\ \A m \in ToSet(nodes) : indeg[m] = 0 <=> \E a \in DOMAIN r : r[a] = m
<1>0. PICK h : RootsRun(h, V, nodes, indeg)
  BY RootsTrace
<1> DEFINE N == Len(nodes)
<1>1. /\ h \in [0 .. N -> Seq(V)] /\ h[0] = <<>> /\ h[N] = Roots(nodes, indeg)
      /\ \A k \in 1 .. N : h[k] = Rooted(indeg, h[k - 1], nodes[k])
  BY <1>0 DEF RootsRun
<1> DEFINE From(k) == \A a \in DOMAIN h[k] : \E i \in 1 .. k : nodes[i] = h[k][a] /\ indeg[nodes[i]] = 0
           Once(k) == \A a, b \in DOMAIN h[k] : h[k][a] = h[k][b] => a = b
           All(k)  == \A i \in 1 .. k : indeg[nodes[i]] = 0 => \E a \in DOMAIN h[k] : h[k][a] = nodes[i]
           Good == {k \in Nat : k <= N => From(k) /\ Once(k) /\ All(k)}
<1>2. N \in Nat /\ DOMAIN nodes = 1 .. N /\ \A i, j \in 1 .. N : nodes[i] = nodes[j] => i = j
  BY DEF NoDuplicates
<1>3. 0 \in Good
  <2>1. DOMAIN h[0] = {} /\ 1 .. 0 = {}
    BY <1>1
  <2> QED
    BY <2>1
<1>4. ASSUME NEW k \in Nat, k \in Good PROVE k + 1 \in Good
  <2> SUFFICES ASSUME k + 1 <= N PROVE From(k + 1) /\ Once(k + 1) /\ All(k + 1)
    OBVIOUS
  <2> DEFINE i == k + 1
             L == Len(h[k])
  <2>1. i \in 1 .. N /\ i - 1 = k /\ k \in 0 .. N /\ i \in 0 .. N
    BY <1>2
  <2>2. h[k] \in Seq(V) /\ nodes[i] \in V 
        /\ h[i] = Rooted(indeg, h[k], nodes[i])
    BY <1>1, <1>2, <2>1
  <2>3. From(k) /\ Once(k) /\ All(k)
    BY <1>4, <2>1
  <2>4. 1 .. i = (1 .. k) \cup {i} /\ i \notin 1 .. k /\ 1 .. i \subseteq 1 .. N
    BY <2>1
  <2>5. L \in Nat /\ DOMAIN h[k] = 1 .. L
    BY <2>2
  <2> HIDE DEF i, L
  <2>6. CASE indeg[nodes[i]] = 0
    <3>1. h[i] = Append(h[k], nodes[i])
      BY <2>2, <2>6 DEF Rooted
    <3>2. /\ DOMAIN h[i] = 1 .. L + 1
          /\ \A a \in 1 .. L : h[i][a] = h[k][a]
          /\ h[i][L + 1] = nodes[i]
      BY <2>2, <2>5, <3>1 DEF L
    <3>3. 1 .. L + 1 = (1 .. L) \cup {L + 1} /\ L + 1 \notin 1 .. L
      BY <2>5
    <3>4. \A a \in 1 .. L : h[k][a] # nodes[i]
      <4> SUFFICES ASSUME NEW a \in 1 .. L PROVE h[k][a] # nodes[i]
        OBVIOUS
      <4>1. PICK j \in 1 .. k : nodes[j] = h[k][a]
        BY <2>3, <2>5
      <4>2. j \in 1 .. N /\ i \in 1 .. N /\ j # i
        BY <2>1, <2>4
      <4> HIDE DEF N, From, Once, All
      <4> QED
        BY <1>2, <4>1, <4>2
    <3>5. From(i)
      <4> SUFFICES ASSUME NEW a \in DOMAIN h[i]
                   PROVE  \E j \in 1 .. i : nodes[j] = h[i][a] /\ indeg[nodes[j]] = 0
        OBVIOUS
      <4>1. CASE a = L + 1
        BY <2>4, <2>6, <3>2, <4>1
      <4>2. CASE a \in 1 .. L
        <5>1. PICK j \in 1 .. k : nodes[j] = h[k][a] /\ indeg[nodes[j]] = 0
          BY <2>3, <2>5, <4>2
        <5> QED
          BY <2>4, <3>2, <4>2, <5>1
      <4> QED
        BY <3>2, <3>3, <4>1, <4>2
    <3>6. Once(i)
      <4> SUFFICES ASSUME NEW a \in DOMAIN h[i], NEW b \in DOMAIN h[i], h[i][a] = h[i][b] PROVE a = b
        OBVIOUS
      <4>1. (a \in 1 .. L \/ a = L + 1) /\ (b \in 1 .. L \/ b = L + 1)
        BY <3>2, <3>3
      <4>2. CASE a \in 1 .. L /\ b \in 1 .. L
        <5>1. h[k][a] = h[k][b]
          BY <3>2, <4>2
        <5> QED
          BY <2>3, <2>5, <4>2, <5>1
      <4>3. ~(a \in 1 .. L /\ b = L + 1) /\ ~(b \in 1 .. L /\ a = L + 1)
        BY <3>2, <3>4
      <4>4. a = L + 1 /\ b = L + 1 => a = b
        OBVIOUS
      <4> HIDE DEF Once
      <4> QED
        BY <4>1, <4>2, <4>3, <4>4
    <3>7. All(i)
      <4> SUFFICES ASSUME NEW j \in 1 .. i, indeg[nodes[j]] = 0 PROVE \E a \in DOMAIN h[i] : h[i][a] = nodes[j]
        OBVIOUS
      <4>1. CASE j = i
        BY <3>2, <3>3, <4>1
      <4>2. CASE j \in 1 .. k
        <5>1. PICK a \in DOMAIN h[k] : h[k][a] = nodes[j]
          BY <2>3, <4>2
        <5> QED
          BY <2>5, <3>2, <3>3, <5>1
      <4> QED
        BY <2>4, <4>1, <4>2
    <3> QED
      BY <3>5, <3>6, <3>7 DEF i
  <2>7. CASE indeg[nodes[i]] # 0
    <3>1. h[i] = h[k]
      BY <2>2, <2>7 DEF Rooted
    <3> QED
      BY <2>3, <2>4, <2>7, <3>1 DEF i
  <2> QED
    BY <2>6, <2>7
<1>5. From(N) /\ Once(N) /\ All(N)
  <2>1. Nat \subseteq Good
    <3> HIDE DEF Good
    <3> QED
      BY <1>3, <1>4, NatSet
  <2> HIDE DEF From, Once, All
  <2> QED
    BY <1>2, <2>1
<1>6. h[N] \in Seq(V)
  BY <1>1, <1>2
<1> QED
  BY <1>1, <1>2, <1>5, <1>6 DEF ToSet

\* What the walk of a list of nodes along a list of edges starts with.
LEMMA StartBalanced ==
    ASSUME NEW nodes, NEW edges, nodes \in Seq(ToSet(nodes)), NoDuplicates(nodes),
           edges \in Seq(ToSet(nodes) \X ToSet(nodes))
    PROVE  LET q == Start(nodes, edges)
               V == ToSet(nodes)
           IN q \in Walks(V) /\ q.visited = 0 /\ Balanced(q, V, LeftOf(V, edges, {}), {})
<1> DEFINE V == ToSet(nodes)
           indeg == [n \in V |-> Cardinality({i \in DOMAIN edges : edges[i][2] = n})]
           q == Start(nodes, edges)
           r == Roots(nodes, indeg)
<1>1. q = [queue |-> r, indeg |-> indeg, level |-> [n \in V |-> 0], visited |-> 0]
  BY DEF Start
<1>2. \A n \in V : Cardinality({i \in DOMAIN edges : edges[i][2] = n}) \in Nat
  <2> SUFFICES ASSUME NEW n \in V PROVE Cardinality({i \in DOMAIN edges : edges[i][2] = n}) \in Nat
    OBVIOUS
  <2>1. DOMAIN edges = 1 .. Len(edges) /\ Len(edges) \in Nat
    OBVIOUS
  <2>2. IsFiniteSet(DOMAIN edges)
    BY <2>1, FS_Interval
  <2> QED
    BY <2>2, FS_Subset, FS_CardinalityType
<1>3. indeg \in [V -> Int]
  BY <1>2
<1>4. \A m \in V : indeg[m] = Cardinality(Left(edges, m, {}))
  <2>1. \A m \in V : Left(edges, m, {}) = {i \in DOMAIN edges : edges[i][2] = m}
    BY DEF Left
  <2> QED
    BY <2>1
<1> HIDE DEF indeg, V
<1>5. /\ r \in Seq(V)
      /\ \A a, b \in DOMAIN r : r[a] = r[b] => a = b
      /\ \A m \in V : indeg[m] = 0 <=> \E a \in DOMAIN r : r[a] = m
  BY RootsQueued DEF V
<1> HIDE DEF q, r
<1>6. q \in Walks(V) /\ q.visited = 0 /\ q.queue = r /\ q.indeg = indeg
  BY <1>1, <1>3, <1>5 DEF Walks
<1>7. Balanced(q, V, LeftOf(V, edges, {}), {})
  BY <1>4, <1>5, <1>6 DEF Balanced, LeftOf
<1> QED
  BY <1>6, <1>7 DEF q, V

\* A turn is done with n.
Visits(V, edges, q, done, n) ==
    /\ Left(edges, n, done) = {}
    /\ VisitHead(q, edges).visited = Cardinality(done \cup {n})
    /\ Cardinality(done \cup {n}) = Cardinality(done) + 1
    /\ Balanced(VisitHead(q, edges), V, LeftOf(V, edges, done \cup {n}), done \cup {n})

\* A turn moves the head of the queue to the nodes that are done.
LEMMA VisitBalanced ==
    ASSUME NEW V, IsFiniteSet(V), NEW edges \in Seq(V \X V), NEW done \in SUBSET V,
           NEW q \in Walks(V), q.queue # <<>>, q.visited = Cardinality(done),
           Balanced(q, V, LeftOf(V, edges, done), done)
    PROVE  \E n \in V \ done : Visits(V, edges, q, done, n)
<1> DEFINE p == [q EXCEPT !.queue = Tail(@), !.visited = @ + 1]
           n == Head(q.queue)
           left == LeftOf(V, edges, done)
<1>1. /\ p \in Walks(V) /\ n \in V
      /\ p.queue = Tail(q.queue) /\ p.visited = q.visited + 1 /\ p.indeg = q.indeg
  BY Popped
<1>2. VisitHead(q, edges) = FollowAll(p, n, edges)
  BY DEF VisitHead
<1>3. /\ q.queue \in Seq(V) /\ Len(q.queue) \in Nat /\ Len(q.queue) >= 1
      /\ DOMAIN q.queue = 1 .. Len(q.queue) /\ n = q.queue[1]
      /\ DOMAIN Tail(q.queue) = 1 .. Len(q.queue) - 1
      /\ \A a \in 1 .. Len(q.queue) - 1 : Tail(q.queue)[a] = q.queue[a + 1]
  <2>1. q.queue \in Seq(V)
    BY DEF Walks
  <2> QED
    BY <2>1
<1> HIDE DEF p, n, left
<1>4. n \notin done
  <2>1. 1 \in DOMAIN q.queue
    BY <1>3
  <2> QED
    BY <1>3, <2>1 DEF Balanced
<1>5. Balanced(p, V, left, done \cup {n})
  <2> DEFINE L == Len(q.queue)
  <2>1. L \in Nat /\ L >= 1 /\ DOMAIN q.queue = 1 .. L /\ DOMAIN p.queue = 1 .. L - 1 /\ n = q.queue[1]
        /\ \A a \in 1 .. L - 1 : p.queue[a] = q.queue[a + 1]
    BY <1>1, <1>3
  <2> HIDE DEF L
  <2>2. \A a \in 1 .. L - 1 : a + 1 \in 1 .. L /\ a + 1 # 1
    BY <2>1
  <2>3. \A a, b \in 1 .. L - 1 : a + 1 = b + 1 => a = b
    BY <2>1
  <2>4. \A b \in 1 .. L : b = 1 \/ (b - 1 \in 1 .. L - 1 /\ (b - 1) + 1 = b)
    BY <2>1
  <2>5. 1 \in 1 .. L
    BY <2>1
  <2>10. /\ \A a, b \in 1 .. L : q.queue[a] = q.queue[b] => a = b
         /\ \A a \in 1 .. L : q.queue[a] \notin done
    BY <2>1 DEF Balanced
  <2>6. \A a, b \in DOMAIN p.queue : p.queue[a] = p.queue[b] => a = b
    <3> SUFFICES ASSUME NEW a \in 1 .. L - 1, NEW b \in 1 .. L - 1, p.queue[a] = p.queue[b] PROVE a = b
      BY <2>1
    <3>1. a + 1 \in 1 .. L /\ b + 1 \in 1 .. L /\ q.queue[a + 1] = q.queue[b + 1]
      BY <2>1, <2>2
    <3>2. a + 1 = b + 1
      BY <2>10, <3>1
    <3> QED
      BY <2>3, <3>2
  <2>7. \A a \in DOMAIN p.queue : p.queue[a] \notin done \cup {n}
    <3> SUFFICES ASSUME NEW a \in 1 .. L - 1 PROVE p.queue[a] \notin done \cup {n}
      BY <2>1
    <3>1. a + 1 \in 1 .. L /\ a + 1 # 1 /\ p.queue[a] = q.queue[a + 1]
      BY <2>1, <2>2
    <3> QED
      BY <2>1, <2>5, <2>10, <3>1
  <2>8. ASSUME NEW m \in V
        PROVE  p.indeg[m] = 0 <=> m \in done \cup {n} \/ \E a \in DOMAIN p.queue : p.queue[a] = m
    <3>1. (m = n \/ \E a \in DOMAIN p.queue : p.queue[a] = m) <=> \E b \in DOMAIN q.queue : q.queue[b] = m
      <4>1. ASSUME NEW a \in DOMAIN p.queue, p.queue[a] = m PROVE \E b \in DOMAIN q.queue : q.queue[b] = m
        <5>1. a + 1 \in 1 .. L /\ q.queue[a + 1] = m
          BY <2>1, <2>2, <4>1
        <5> QED
          BY <2>1, <5>1
      <4>2. ASSUME NEW b \in DOMAIN q.queue, q.queue[b] = m
            PROVE  m = n \/ \E a \in DOMAIN p.queue : p.queue[a] = m
        <5>1. CASE b = 1
          BY <2>1, <4>2, <5>1
        <5>2. CASE b # 1
          <6>1. b - 1 \in 1 .. L - 1 /\ (b - 1) + 1 = b
            BY <2>1, <2>4, <5>2
          <6>2. p.queue[b - 1] = q.queue[(b - 1) + 1]
            BY <2>1, <6>1
          <6> QED
            BY <2>1, <4>2, <6>1, <6>2
        <5> QED
          BY <5>1, <5>2
      <4> QED
        BY <2>1, <2>5, <4>1, <4>2
    <3>2. q.indeg[m] = 0 <=> m \in done \/ \E b \in DOMAIN q.queue : q.queue[b] = m
      BY DEF Balanced
    <3> QED
      BY <1>1, <3>1, <3>2
  <2>9. \A m \in V : p.indeg[m] = Cardinality(left[m])
    BY <1>1 DEF Balanced, left, LeftOf
  <2> QED
    BY <2>6, <2>7, <2>8, <2>9 DEF Balanced
<1>6. /\ VisitHead(q, edges).visited = p.visited
      /\ Balanced(VisitHead(q, edges), V, LeftOf(V, edges, done \cup {n}), done \cup {n})
  <2>1. n \in V \ done /\ Balanced(p, V, LeftOf(V, edges, done), done \cup {n})
    BY <1>1, <1>4, <1>5 DEF left
  <2>2. /\ FollowAll(p, n, edges).visited = p.visited
        /\ Balanced(FollowAll(p, n, edges), V, LeftOf(V, edges, done \cup {n}), done \cup {n})
    BY <1>1, <2>1, FollowAllBalanced
  <2> QED
    BY <1>2, <2>2
<1>7. Cardinality(done \cup {n}) = Cardinality(done) + 1
  <2>1. IsFiniteSet(done)
    BY FS_Subset
  <2> QED
    BY <1>4, <2>1, FS_AddElement
<1>8. Left(edges, n, done) = {}
  <2>1. q.queue[1] = n /\ 1 \in DOMAIN q.queue
    BY <1>3
  <2>2. q.indeg[n] = 0 /\ q.indeg[n] = Cardinality(LeftOf(V, edges, done)[n])
    BY <1>1, <2>1 DEF Balanced
  <2>3. Cardinality(Left(edges, n, done)) = 0
    BY <1>1, <2>2 DEF LeftOf
  <2>4. IsFiniteSet(DOMAIN edges)
    <3>1. DOMAIN edges = 1 .. Len(edges) /\ Len(edges) \in Nat
      OBVIOUS
    <3> QED
      BY <3>1, FS_Interval
  <2>5. IsFiniteSet(Left(edges, n, done))
    <3>1. Left(edges, n, done) \in SUBSET (DOMAIN edges)
      BY DEF Left
    <3> QED
      BY <2>4, <3>1, FS_Subset
  <2> QED
    BY <2>3, <2>5, FS_EmptySet
<1> QED
  BY <1>1, <1>4, <1>6, <1>7, <1>8 DEF Visits


\* A list without duplicates is as long as its set is large.
LEMMA CountedOnce ==
    ASSUME NEW nodes, nodes \in Seq(ToSet(nodes)), NoDuplicates(nodes)
    PROVE  IsFiniteSet(ToSet(nodes)) /\ Cardinality(ToSet(nodes)) = Len(nodes)
<1> DEFINE V == ToSet(nodes)
           I == 1 .. Len(nodes)
<1>1. Len(nodes) \in Nat /\ DOMAIN nodes = I /\ nodes \in [I -> V]
  OBVIOUS
<1>2. \A a, b \in I : nodes[a] = nodes[b] => a = b
  BY <1>1 DEF NoDuplicates
<1>3. \A t \in V : \E s \in I : nodes[s] = t
  BY <1>1 DEF ToSet
<1>4. IsFiniteSet(I) /\ Cardinality(I) = Len(nodes)
  BY SMTT(30), <1>1, FS_Interval
<1> HIDE DEF V, I
<1>5. nodes \in Bijection(I, V)
  BY <1>1, <1>2, <1>3 DEF Bijection, Injection, Surjection, IsInjective
<1>6. ExistsBijection(I, V)
  BY <1>5 DEF ExistsBijection
<1> QED
  BY <1>4, <1>6, FS_Bijection DEF V

\* The nodes that are done come after nodes that are done only, and not after themselves.
Settled(V, E, done) ==
    /\ \A z \in done, u \in V : <<u, z>> \in E => u \in done
    /\ \A s \in done : s \notin Reach(V, E, s)

\* A node that waits for nothing but what is done may be done.
LEMMA SettledNode ==
    ASSUME NEW V, NEW E, NEW done \in SUBSET V, Settled(V, E, done),
           NEW n \in V \ done, \A u \in V : <<u, n>> \in E => u \in done
    PROVE  Settled(V, E, done \cup {n})
<1> DEFINE C == (V \ done) \ {n}
<1>1. Covers(V, E, n, C)
  BY DEF Covers, Settled
<1>2. Reach(V, E, n) \subseteq C
  BY <1>1, ReachWithin
<1> QED
  BY <1>2 DEF Settled

\* The whole walk ends with an empty queue.
LEMMA WalkEnds ==
    ASSUME NEW nodes, NEW edges, nodes \in Seq(ToSet(nodes)), NoDuplicates(nodes),
           edges \in Seq(ToSet(nodes) \X ToSet(nodes))
    PROVE  LET q == Topology(nodes, edges)
               V == ToSet(nodes)
           IN \E done \in SUBSET V :
                 /\ q \in Walks(V) /\ q.queue = <<>> /\ q.visited = Cardinality(done)
                 /\ Balanced(q, V, LeftOf(V, edges, done), done)
                 /\ Settled(V, ToSet(edges), done)
<1>0. PICK h : VisitRun(h, ToSet(nodes), nodes, edges)
  BY StartBalanced, VisitTrace
<1> DEFINE V == ToSet(nodes)
           N == Len(nodes)
           At(k, done) == /\ h[k].visited = Cardinality(done)
                          /\ h[k].queue = <<>> \/ Cardinality(done) = k
                          /\ Balanced(h[k], V, LeftOf(V, edges, done), done)
                          /\ Settled(V, ToSet(edges), done)
           Ok(k) == \E done \in SUBSET V : At(k, done)
           Good == {k \in Nat : k <= N => Ok(k)}
<1>1. /\ h \in [0 .. N -> Walks(V)] /\ h[0] = Start(nodes, edges) /\ h[N] = Topology(nodes, edges)
      /\ \A k \in 1 .. N : h[k] = VisitHead(h[k - 1], edges)
  BY <1>0 DEF VisitRun
<1>2. N \in Nat /\ IsFiniteSet(V) /\ Cardinality(V) = N /\ edges \in Seq(V \X V)
  BY CountedOnce
<1>3. h[0].visited = 0 /\ Balanced(h[0], V, LeftOf(V, edges, {}), {})
  BY <1>1, StartBalanced
<1> HIDE DEF V, N
<1>4. 0 \in Good
  <2>1. At(0, {})
    BY <1>3, FS_EmptySet DEF Settled
  <2> HIDE DEF At
  <2> QED
    BY <2>1
<1>5. ASSUME NEW k \in Nat, k \in Good PROVE k + 1 \in Good
  <2> SUFFICES ASSUME k + 1 <= N PROVE Ok(k + 1)
    OBVIOUS
  <2>1. k + 1 \in 1 .. N /\ (k + 1) - 1 = k /\ k \in 0 .. N
    BY <1>2
  <2>2. h[k] \in Walks(V) /\ h[k + 1] = VisitHead(h[k], edges)
    BY <1>1, <2>1
  <2>3. Ok(k)
    BY <1>5, <2>1
  <2>4. PICK done \in SUBSET V : At(k, done)
    BY <2>3
  <2>5. CASE h[k].queue = <<>>
    <3>1. h[k + 1] = h[k]
      BY <2>2, <2>5 DEF VisitHead
    <3>2. At(k + 1, done)
      BY <2>4, <2>5, <3>1
    <3> HIDE DEF At
    <3> QED
      BY <3>2
  <2>6. CASE h[k].queue # <<>>
    <3>1. h[k].visited = Cardinality(done) /\ Cardinality(done) = k /\ Balanced(h[k], V, LeftOf(V, edges, done), done)
      BY <2>4, <2>6
    <3>2. PICK n \in V \ done : Visits(V, edges, h[k], done, n)
      BY <1>2, <2>2, <2>6, <3>1, VisitBalanced
    <3>4. \A u \in V : <<u, n>> \in ToSet(edges) => u \in done
      <4> SUFFICES ASSUME NEW u \in V, NEW j \in DOMAIN edges, edges[j] = <<u, n>> PROVE u \in done
        BY DEF ToSet
      <4>1. edges[j][1] = u /\ edges[j][2] = n
        OBVIOUS
      <4> QED
        BY <3>2, <4>1 DEF Visits, Left
    <3>5. Settled(V, ToSet(edges), done \cup {n})
      BY <2>4, <3>4, SettledNode
    <3>3. At(k + 1, done \cup {n})
      BY <2>2, <3>1, <3>2, <3>5 DEF Visits
    <3> HIDE DEF At
    <3> QED
      BY <3>3
  <2> QED
    BY <2>5, <2>6
<1>6. Ok(N)
  <2>1. Nat \subseteq Good
    <3> HIDE DEF Good
    <3> QED
      BY <1>4, <1>5, NatSet
  <2> HIDE DEF Ok
  <2> QED
    BY <1>2, <2>1
<1>7. PICK done \in SUBSET V : At(N, done)
  BY <1>6
<1>8. h[N] \in Walks(V)
  BY <1>1, <1>2
<1>9. h[N].queue = <<>>
  <2> SUFFICES ASSUME h[N].queue # <<>> PROVE FALSE
    OBVIOUS
  <2>1. done = V
    BY <1>2, <1>7, FS_Subset
  <2>2. 1 \in DOMAIN h[N].queue /\ h[N].queue[1] \in V
    <3>1. h[N].queue \in Seq(V)
      BY <1>8 DEF Walks
    <3> QED
      BY <3>1
  <2> QED
    BY <1>7, <2>1, <2>2 DEF Balanced
<1> QED
  BY <1>1, <1>7, <1>8, <1>9 DEF V

\* Kahn's algorithm visits every node exactly if no node comes after itself.
LEMMA KahnSound ==
    ASSUME NEW nodes, NEW edges, nodes \in Seq(ToSet(nodes)), NoDuplicates(nodes),
           edges \in Seq(ToSet(nodes) \X ToSet(nodes))
    PROVE  LET V == ToSet(nodes)
           IN Topology(nodes, edges).visited = Len(nodes)
                <=> \A s \in V : s \notin Reach(V, ToSet(edges), s)
<1> DEFINE V == ToSet(nodes)
           E == ToSet(edges)
           q == Topology(nodes, edges)
<1>1. IsFiniteSet(V) /\ Cardinality(V) = Len(nodes) /\ edges \in Seq(V \X V)
  BY CountedOnce
<1>2. PICK done \in SUBSET V :
         /\ q \in Walks(V) /\ q.queue = <<>> /\ q.visited = Cardinality(done)
         /\ Balanced(q, V, LeftOf(V, edges, done), done)
         /\ Settled(V, E, done)
  BY WalkEnds
<1> HIDE DEF V, q
<1>3. q.visited = Len(nodes) => done = V
  BY <1>1, <1>2, FS_Subset
<1>4. ASSUME NEW s \in V \ done PROVE \E p \in V \ done : <<p, s>> \in E
  <2>1. q.indeg[s] # 0
    BY <1>2, <1>4 DEF Balanced
  <2>2. q.indeg[s] = Cardinality(Left(edges, s, done))
    BY <1>2, <1>4 DEF Balanced, LeftOf
  <2>3. Left(edges, s, done) # {}
    BY <2>1, <2>2, FS_EmptySet
  <2>4. PICK j \in DOMAIN edges : edges[j][2] = s /\ edges[j][1] \notin done
    BY <2>3 DEF Left
  <2>5. edges[j] \in V \X V /\ edges[j] = <<edges[j][1], edges[j][2]>> /\ edges[j] \in E
    BY <1>1, <2>4 DEF ToSet
  <2> QED
    BY <2>4, <2>5
<1>5. done # V => \E s \in V : s \in Reach(V, E, s)
  <2> SUFFICES ASSUME V \ done # {} PROVE \E s \in V : s \in Reach(V, E, s)
    OBVIOUS
  <2> HIDE DEF E
  <2>1. V \ done \in SUBSET V
    OBVIOUS
  <2>2. \E s \in V \ done : s \in Reach(V, E, s)
    BY <1>1, <1>4, <2>1, CycleExists
  <2> QED
    BY <2>2
<1>6. q.visited = Len(nodes) <=> \A s \in V : s \notin Reach(V, E, s)
  BY <1>1, <1>2, <1>3, <1>5 DEF Settled
<1> QED
  BY <1>6 DEF V, q

-----------------------------------------------------------------------------
(* Lists: flattened, and without duplicates.                               *)

\* The lists appended one after the other.
FlattenRun(h, S, ss) ==
    /\ h \in [0 .. Len(ss) -> Seq(S)] /\ h[0] = <<>> /\ h[Len(ss)] = FlattenSeq(ss)
    /\ \A k \in 1 .. Len(ss) : h[k] = h[k - 1] \o ss[k]

\* What flattening computes, list by list.
LEMMA FlattenTrace ==
    ASSUME NEW S, NEW ss \in Seq(Seq(S))
    PROVE  \E h : FlattenRun(h, S, ss)
<1> DEFINE n == Len(ss)
           V == Seq(S)
           b == <<>>
           G == [v \in V |-> [x \in V |-> v \o x]]
           Rec(f) == f = [i \in 1 .. n |-> IF i = 1 THEN ss[i] ELSE f[i - 1] \o ss[i]]
           f == CHOOSE f : Rec(f)
           h == [k \in 0 .. n |-> IF k = 0 THEN b ELSE f[k]]
<1>1. n \in Nat /\ ss \in [1 .. n -> V] /\ DOMAIN ss = 1 .. n /\ b \in V
  OBVIOUS
<1>2. \A v, x \in V : v \o x \in V /\ G[v][x] = v \o x
  OBVIOUS
<1>3. \A x \in V : b \o x = x
  OBVIOUS
<1>4. FlattenSeq(ss) = IF n = 0 THEN b ELSE f[n]
  <2>1. n = 0 => ss = <<>>
    OBVIOUS
  <2> QED
    BY <2>1 DEF FlattenSeq
<1>5. G \in [V -> [V -> V]]
  BY <1>2
<1> HIDE DEF n, V, b, G
<1>6. \E g : Rec(g)
  <2>1. PICK it \in [SUBSET (1 .. n) -> V] : Recursion(it, V, b, n, ss, G)
    <3> HIDE DEF Rec, f, h
    <3> QED
      BY <1>1, <1>5, FoldExists
  <2>2. Unrolls(it, V, b, n, ss, G)
    <3> HIDE DEF Rec, f, h
    <3> QED
      BY <1>1, <1>5, <2>1, FoldTrace
  <2>3. PICK r \in [0 .. n -> V] : Turns(r, b, n, ss, G)
    BY <2>2 DEF Unrolls
  <2> DEFINE g == [i \in 1 .. n |-> r[i]]
  <2>4. ASSUME NEW i \in 1 .. n PROVE r[i] = IF i = 1 THEN ss[i] ELSE g[i - 1] \o ss[i]
    <3>1. i \in 0 .. n /\ i - 1 \in 0 .. n /\ (i # 1 => i - 1 \in 1 .. n) /\ (i = 1 => i - 1 = 0)
      BY <1>1
    <3>2. r[i] = r[i - 1] \o ss[i]
      BY <1>1, <1>2, <2>3, <3>1 DEF Turns
    <3>3. CASE i = 1
      <4>1. r[i] = b \o ss[i]
        BY <2>3, <3>1, <3>2, <3>3 DEF Turns
      <4> QED
        BY <1>1, <1>3, <3>3, <4>1
    <3>4. CASE i # 1
      <4>1. g[i - 1] = r[i - 1]
        BY <3>1, <3>4
      <4> QED
        BY <3>2, <3>4, <4>1
    <3> QED
      BY <3>3, <3>4
  <2>5. Rec(g)
    <3> HIDE DEF f, h
    <3>1. g = [i \in 1 .. n |-> IF i = 1 THEN ss[i] ELSE g[i - 1] \o ss[i]]
      BY <2>4
    <3> QED
      BY <3>1
  <2> HIDE DEF Rec, g
  <2> QED
    BY <2>5
<1>7. Rec(f)
  <2> HIDE DEF Rec
  <2> QED
    BY <1>6
<1> HIDE DEF f
<1>8. ASSUME NEW i \in 1 .. n PROVE f[i] = IF i = 1 THEN ss[i] ELSE f[i - 1] \o ss[i]
  BY <1>7
<1> DEFINE Good == {k \in Nat : k <= n => h[k] \in V}
<1>9. ASSUME NEW k \in 1 .. n PROVE h[k - 1] \in V => h[k] = h[k - 1] \o ss[k]
  <2>1. k \in 0 .. n /\ k - 1 \in 0 .. n /\ k # 0 /\ (k = 1 <=> k - 1 = 0)
    BY <1>1
  <2>2. h[k] = f[k] /\ h[k - 1] = IF k = 1 THEN b ELSE f[k - 1]
    BY <2>1
  <2> QED
    BY <1>1, <1>3, <1>8, <2>2
<1>10. h[0] = b
  BY <1>1
<1>11. 0 \in Good
  BY <1>1, <1>10
<1> HIDE DEF h
<1>12. ASSUME NEW k \in Nat, k \in Good PROVE k + 1 \in Good
  <2> SUFFICES ASSUME k + 1 <= n PROVE h[k + 1] \in V
    OBVIOUS
  <2>1. k + 1 \in 1 .. n /\ (k + 1) - 1 = k /\ h[k] \in V
    BY <1>1, <1>12
  <2>2. h[k + 1] = h[k] \o ss[k + 1] /\ ss[k + 1] \in V
    BY <1>1, <1>9, <2>1
  <2> QED
    BY <1>2, <2>1, <2>2
<1>13. Nat \subseteq Good
  <2> HIDE DEF Good
  <2> QED
    BY <1>11, <1>12, NatSet
<1>14. \A k \in 0 .. n : h[k] \in V
  BY <1>1, <1>13
<1>15. h \in [0 .. n -> V]
  BY <1>14 DEF h
<1>16. h[n] = FlattenSeq(ss)
  BY <1>1, <1>4 DEF h
<1>17. \A k \in 1 .. n : h[k] = h[k - 1] \o ss[k]
  <2> SUFFICES ASSUME NEW k \in 1 .. n PROVE h[k] = h[k - 1] \o ss[k]
    OBVIOUS
  <2>1. k - 1 \in 0 .. n
    BY <1>1
  <2> QED
    BY <1>9, <1>14, <2>1
<1>18. FlattenRun(h, S, ss)
  BY <1>10, <1>15, <1>16, <1>17 DEF FlattenRun, n, V, b
<1> QED
  BY <1>18

\* Two lists appended.
LEMMA Joined ==
    ASSUME NEW S, NEW s \in Seq(S), NEW t \in Seq(S)
    PROVE  /\ s \o t \in Seq(S) /\ Len(s \o t) = Len(s) + Len(t)
           /\ Len(s) \in Nat /\ Len(t) \in Nat
           /\ \A i \in 1 .. Len(s) : (s \o t)[i] = s[i]
           /\ \A i \in 1 .. Len(t) : (s \o t)[Len(s) + i] = t[i]
           /\ ToSet(s \o t) = ToSet(s) \cup ToSet(t)
<1>1. /\ s \o t \in Seq(S) /\ Len(s \o t) = Len(s) + Len(t)
      /\ Len(s) \in Nat /\ Len(t) \in Nat
      /\ DOMAIN s = 1 .. Len(s) /\ DOMAIN t = 1 .. Len(t) /\ DOMAIN (s \o t) = 1 .. Len(s) + Len(t)
  OBVIOUS
<1>2. \A i \in 1 .. Len(s) : (s \o t)[i] = s[i]
  OBVIOUS
<1>3. \A i \in 1 .. Len(t) : (s \o t)[Len(s) + i] = t[i]
  OBVIOUS
<1> DEFINE L == Len(s)
           M == Len(t)
<1>4. /\ L \in Nat /\ M \in Nat
      /\ \A i \in 1 .. L : i \in 1 .. L + M
      /\ \A i \in 1 .. M : L + i \in 1 .. L + M
      /\ \A j \in 1 .. L + M : j \in 1 .. L \/ (j - L \in 1 .. M /\ L + (j - L) = j)
  OBVIOUS
<1> HIDE DEF L, M
<1>5. /\ DOMAIN s = 1 .. L /\ DOMAIN t = 1 .. M /\ DOMAIN (s \o t) = 1 .. L + M
      /\ \A i \in 1 .. L : (s \o t)[i] = s[i]
      /\ \A i \in 1 .. M : (s \o t)[L + i] = t[i]
  BY <1>1, <1>2, <1>3 DEF L, M
<1> DEFINE c == s \o t
<1>6. DOMAIN c = 1 .. L + M /\ (\A i \in 1 .. L : c[i] = s[i]) /\ \A i \in 1 .. M : c[L + i] = t[i]
  BY <1>5
<1> HIDE DEF c
<1>7. ASSUME NEW x \in ToSet(c) PROVE x \in ToSet(s) \cup ToSet(t)
  <2>1. PICK j \in 1 .. L + M : c[j] = x
    BY <1>6 DEF ToSet
  <2>2. CASE j \in 1 .. L
    BY <1>5, <1>6, <2>1, <2>2 DEF ToSet
  <2>3. CASE j - L \in 1 .. M /\ L + (j - L) = j
    <3>1. x = t[j - L]
      BY <1>6, <2>1, <2>3
    <3> QED
      BY <1>5, <2>3, <3>1 DEF ToSet
  <2> QED
    BY <1>4, <2>2, <2>3
<1>8. ASSUME NEW x \in ToSet(s) PROVE x \in ToSet(c)
  BY <1>4, <1>5, <1>6 DEF ToSet
<1>9. ASSUME NEW x \in ToSet(t) PROVE x \in ToSet(c)
  <2>1. PICK i \in 1 .. M : t[i] = x
    BY <1>5 DEF ToSet
  <2>2. L + i \in 1 .. L + M /\ c[L + i] = x
    BY <1>4, <1>6, <2>1
  <2> QED
    BY <1>6, <2>2 DEF ToSet
<1>10. ToSet(c) = ToSet(s) \cup ToSet(t)
  BY <1>7, <1>8, <1>9
<1> QED
  BY <1>1, <1>2, <1>3, <1>10 DEF c

\* All that is in some of the lists.
Contents(ss) == UNION {ToSet(ss[i]) : i \in DOMAIN ss}

\* Lists of elements of S are flattened to one.
LEMMA FlattenTyped ==
    ASSUME NEW S, NEW ss \in Seq(Seq(S))
    PROVE  FlattenSeq(ss) \in Seq(S)
<1>1. PICK h : FlattenRun(h, S, ss)
  BY FlattenTrace
<1> QED
  BY <1>1 DEF FlattenRun

\* What is in a flattened list is what is in the lists.
LEMMA FlattenContents ==
    ASSUME NEW S, NEW ss \in Seq(Seq(S))
    PROVE  ToSet(FlattenSeq(ss)) = Contents(ss)
<1>0. PICK h : FlattenRun(h, S, ss)
  BY FlattenTrace
<1> DEFINE n == Len(ss)
           Upto(k) == UNION {ToSet(ss[i]) : i \in 1 .. k}
           Good == {k \in Nat : k <= n => ToSet(h[k]) = Upto(k)}
<1>1. /\ n \in Nat /\ DOMAIN ss = 1 .. n
      /\ h \in [0 .. n -> Seq(S)] /\ h[0] = <<>> /\ h[n] = FlattenSeq(ss)
      /\ \A k \in 1 .. n : h[k] = h[k - 1] \o ss[k] /\ ss[k] \in Seq(S)
  <2>1. n \in Nat /\ DOMAIN ss = 1 .. n
    OBVIOUS
  <2>2. \A k \in 1 .. n : ss[k] \in Seq(S)
    OBVIOUS
  <2>3. /\ h \in [0 .. n -> Seq(S)] /\ h[0] = <<>> /\ h[n] = FlattenSeq(ss)
        /\ \A k \in 1 .. n : h[k] = h[k - 1] \o ss[k]
    BY <1>0 DEF FlattenRun
  <2> QED
    BY <2>1, <2>2, <2>3
<1> HIDE DEF n
<1>2. 0 \in Good
  <2>1. ToSet(h[0]) = {} /\ Upto(0) = {}
    BY <1>1 DEF ToSet
  <2> QED
    BY <2>1
<1>3. ASSUME NEW k \in Nat, k \in Good PROVE k + 1 \in Good
  <2> SUFFICES ASSUME k + 1 <= n PROVE ToSet(h[k + 1]) = Upto(k + 1)
    OBVIOUS
  <2>1. k + 1 \in 1 .. n /\ (k + 1) - 1 = k /\ k \in 0 .. n /\ 1 .. k + 1 = (1 .. k) \cup {k + 1}
    <3>1. n \in Nat
      BY <1>1
    <3> HIDE DEF Good
    <3> QED
      BY <3>1
  <2>2. h[k + 1] = h[k] \o ss[k + 1] /\ ss[k + 1] \in Seq(S) /\ h[k] \in Seq(S)
    BY <1>1, <2>1
  <2>3. ToSet(h[k]) = Upto(k)
    BY <1>3, <2>1
  <2>4. ToSet(h[k + 1]) = ToSet(h[k]) \cup ToSet(ss[k + 1])
    BY <2>2, Joined
  <2>5. Upto(k + 1) = Upto(k) \cup ToSet(ss[k + 1])
    BY <2>1
  <2> HIDE DEF Upto
  <2> QED
    BY <2>3, <2>4, <2>5
<1>4. ToSet(h[n]) = Upto(n)
  <2>1. Nat \subseteq Good
    <3> HIDE DEF Good
    <3> QED
      BY <1>2, <1>3, NatSet
  <2> HIDE DEF Upto
  <2> QED
    BY <1>1, <2>1
<1> QED
  BY <1>1, <1>4 DEF Contents

\* The lists have the same lengths, and their elements are in pairs of R.
Alike(s, t, R) == Len(s) = Len(t) /\ \A j \in 1 .. Len(s) : <<s[j], t[j]>> \in R

\* Lists that are alike one by one are alike when flattened.
LEMMA FlattenAlike ==
    ASSUME NEW S, NEW T, NEW R, NEW ss \in Seq(Seq(S)), NEW tt \in Seq(Seq(T)), Len(ss) = Len(tt),
           \A i \in 1 .. Len(ss) : Alike(ss[i], tt[i], R)
    PROVE  Alike(FlattenSeq(ss), FlattenSeq(tt), R)
<1>0. PICK h : FlattenRun(h, S, ss)
  BY FlattenTrace
<1>1. PICK g : FlattenRun(g, T, tt)
  BY FlattenTrace
<1> DEFINE n == Len(ss)
           Good == {k \in Nat : k <= n => Alike(h[k], g[k], R)}
<1>6. n \in Nat /\ n = Len(tt)
      /\ (\A k \in 1 .. n : ss[k] \in Seq(S)) /\ \A k \in 1 .. n : tt[k] \in Seq(T)
  OBVIOUS
<1>2. /\ n \in Nat
      /\ h \in [0 .. n -> Seq(S)] /\ h[0] = <<>> /\ h[n] = FlattenSeq(ss)
      /\ g \in [0 .. n -> Seq(T)] /\ g[0] = <<>> /\ g[n] = FlattenSeq(tt)
      /\ \A k \in 1 .. n : h[k] = h[k - 1] \o ss[k] /\ ss[k] \in Seq(S)
      /\ \A k \in 1 .. n : g[k] = g[k - 1] \o tt[k] /\ tt[k] \in Seq(T)
      /\ \A k \in 1 .. n : Alike(ss[k], tt[k], R)
  BY <1>0, <1>1, <1>6 DEF FlattenRun
<1> HIDE DEF n
<1>3. 0 \in Good
  <2>1. Len(h[0]) = 0 /\ Len(g[0]) = 0
    BY <1>2
  <2> QED
    BY <2>1 DEF Alike
<1>4. ASSUME NEW k \in Nat, k \in Good PROVE k + 1 \in Good
  <2> SUFFICES ASSUME k + 1 <= n PROVE Alike(h[k + 1], g[k + 1], R)
    OBVIOUS
  <2>1. k + 1 \in 1 .. n /\ (k + 1) - 1 = k /\ k \in 0 .. n
    BY <1>2
  <2> DEFINE s == h[k]
             t == g[k]
             u == ss[k + 1]
             v == tt[k + 1]
  <2>2. /\ h[k + 1] = s \o u /\ u \in Seq(S) /\ s \in Seq(S)
        /\ g[k + 1] = t \o v /\ v \in Seq(T) /\ t \in Seq(T)
    BY <1>2, <2>1
  <2>3. Alike(s, t, R) /\ Alike(u, v, R)
    BY <1>2, <1>4, <2>1
  <2> HIDE DEF s, t, u, v
  <2> DEFINE L == Len(s)
             M == Len(u)
  <2>7. L \in Nat /\ M \in Nat /\ Len(t) = L /\ Len(v) = M
    BY <2>2, <2>3 DEF Alike
  <2>8. /\ Len(s \o u) = L + M
        /\ \A i \in 1 .. L : (s \o u)[i] = s[i]
        /\ \A i \in 1 .. M : (s \o u)[L + i] = u[i]
    BY <2>2, Joined
  <2>9. /\ Len(t \o v) = Len(t) + Len(v)
        /\ \A i \in 1 .. Len(t) : (t \o v)[i] = t[i]
        /\ \A i \in 1 .. Len(v) : (t \o v)[Len(t) + i] = v[i]
    BY <2>2, Joined
  <2>4. /\ L \in Nat /\ M \in Nat /\ Len(s \o u) = L + M /\ Len(t \o v) = L + M
        /\ \A i \in 1 .. L : (s \o u)[i] = s[i] /\ (t \o v)[i] = t[i]
        /\ \A i \in 1 .. M : (s \o u)[L + i] = u[i] /\ (t \o v)[L + i] = v[i]
    BY <2>7, <2>8, <2>9
  <2>5. /\ \A i \in 1 .. L : <<s[i], t[i]>> \in R
        /\ \A i \in 1 .. M : <<u[i], v[i]>> \in R
    BY <2>3 DEF Alike
  <2> HIDE DEF L, M
  <2>6. ASSUME NEW j \in 1 .. L + M PROVE <<(s \o u)[j], (t \o v)[j]>> \in R
    <3>1. CASE j \in 1 .. L
      BY <2>4, <2>5, <3>1
    <3>2. CASE j - L \in 1 .. M /\ L + (j - L) = j
      <4>1. (s \o u)[L + (j - L)] = u[j - L] /\ (t \o v)[L + (j - L)] = v[j - L] /\ <<u[j - L], v[j - L]>> \in R
        BY <2>4, <2>5, <3>2
      <4> QED
        BY <3>2, <4>1
    <3>3. j \in 1 .. L \/ (j - L \in 1 .. M /\ L + (j - L) = j)
      BY <2>4
    <3> QED
      BY <3>1, <3>2, <3>3
  <2> QED
    BY <2>2, <2>4, <2>6 DEF Alike
<1>5. Alike(h[n], g[n], R)
  <2>1. Nat \subseteq Good
    <3> HIDE DEF Good
    <3> QED
      BY <1>3, <1>4, NatSet
  <2> QED
    BY <1>2, <2>1
<1> QED
  BY <1>2, <1>5

\* One element, kept unless it was kept before.
Kept(out, x) == IF Contains(out, x) THEN out ELSE Append(out, x)

\* The elements kept turn by turn.
DedupRun(h, V0, s) ==
    /\ h \in [0 .. Len(s) -> Seq(V0)] /\ h[0] = <<>> /\ h[Len(s)] = Dedup(s)
    /\ \A k \in 1 .. Len(s) : h[k] = Kept(h[k - 1], s[k])

\* The elements that are kept, turn by turn.
LEMMA DedupTrace ==
    ASSUME NEW V0, NEW s \in Seq(V0)
    PROVE  \E h : DedupRun(h, V0, s)
<1> DEFINE n == Len(s)
           V == Seq(V0)
           D == V0
           b == <<>>
           G == [v \in V |-> [x \in D |-> Kept(v, x)]]
           Rec(it) == it = [T \in SUBSET (1 .. n) |->
                               IF T = {} THEN b ELSE Kept(it[T \ {Max(T)}], s[Max(T)])]
           it == CHOOSE it : Rec(it)
<1>1. G \in [V -> [D -> V]]
  <2>1. ASSUME NEW v \in V, NEW x \in D PROVE Kept(v, x) \in V
    BY Appended DEF Kept
  <2> HIDE DEF V, D, n, b, Rec, it
  <2> QED
    BY <2>1
<1>2. n \in Nat /\ s \in [1 .. n -> D] /\ DOMAIN s = 1 .. n
  OBVIOUS
<1>3. \A v \in V, x \in D : G[v][x] = Kept(v, x)
  OBVIOUS
<1>4. ASSUME NEW T \in SUBSET (1 .. n), T # {} PROVE Max(T) \in 1 .. n /\ s[Max(T)] \in D
  <2> HIDE DEF n, G, it, Rec, D
  <2>1. Max(T) \in T
    BY <1>2, <1>4, MaxOfPart
  <2> QED
    BY <1>2, <2>1
<1>5. Dedup(s) = it[1 .. n]
  BY <1>2 DEF Dedup, Kept, FoldLeft, MapThenFoldSet
<1>0. b \in V
  OBVIOUS
<1> HIDE DEF G, V, n, D, b
<1>6. \E f : Rec(f)
  <2>1. PICK f \in [SUBSET (1 .. n) -> V] : Recursion(f, V, b, n, s, G)
    <3> HIDE DEF Rec, it
    <3> QED
      BY <1>0, <1>1, <1>2, FoldExists
  <2>2. ASSUME NEW T \in SUBSET (1 .. n)
        PROVE  f[T] = IF T = {} THEN b ELSE Kept(f[T \ {Max(T)}], s[Max(T)])
    <3> HIDE DEF Rec, it
    <3>1. f[T \ {Max(T)}] \in V
      <4>1. T \ {Max(T)} \in SUBSET (1 .. n)
        OBVIOUS
      <4> QED
        BY <4>1
    <3>2. T # {} => G[f[T \ {Max(T)}]][s[Max(T)]] = Kept(f[T \ {Max(T)}], s[Max(T)])
      BY <1>3, <1>4, <3>1
    <3> QED
      BY <2>1, <3>2 DEF Recursion
  <2>3. Rec(f)
    <3> HIDE DEF it
    <3>1. f = [T \in SUBSET (1 .. n) |-> f[T]]
      OBVIOUS
    <3> QED
      BY <2>2, <3>1
  <2> HIDE DEF Rec, it
  <2> QED
    BY <2>3
<1>7. Rec(it)
  <2> HIDE DEF Rec
  <2> QED
    BY <1>6
<1> HIDE DEF it
<1>8. it[{}] = b
  BY <1>7
<1>9. ASSUME NEW T \in SUBSET (1 .. n), T # {}, it[T \ {Max(T)}] \in V
      PROVE  it[T] = G[it[T \ {Max(T)}]][s[Max(T)]]
  <2>1. it[T] = Kept(it[T \ {Max(T)}], s[Max(T)])
    BY <1>7, <1>9
  <2> QED
    BY <1>3, <1>4, <1>9, <2>1
<1>10. Recursion(it, V, b, n, s, G)
  BY <1>8, <1>9 DEF Recursion
<1>11. PICK h \in [0 .. n -> V] : h[n] = it[1 .. n] /\ Turns(h, b, n, s, G)
  <2> HIDE DEF Rec
  <2>1. Unrolls(it, V, b, n, s, G)
    BY <1>0, <1>1, <1>2, <1>10, FoldTrace
  <2> QED
    BY <2>1 DEF Unrolls
<1>12. ASSUME NEW k \in 1 .. n PROVE h[k] = Kept(h[k - 1], s[k])
  <2>1. k - 1 \in 0 .. n
    BY <1>2
  <2>2. h[k - 1] \in V /\ s[k] \in D
    BY <1>2, <2>1
  <2> QED
    BY <1>3, <1>11, <2>2 DEF Turns
<1> QED
  BY <1>5, <1>11, <1>12 DEF n, V, b, Turns, DedupRun

\* Nothing is lost with the duplicates.
LEMMA DedupSet ==
    ASSUME NEW S, NEW s \in Seq(S)
    PROVE  Dedup(s) \in Seq(S) /\ ToSet(Dedup(s)) = ToSet(s)
<1>0. PICK h : DedupRun(h, S, s)
  BY DedupTrace
<1> DEFINE n == Len(s)
           Upto(k) == {s[i] : i \in 1 .. k}
           Good == {k \in Nat : k <= n => ToSet(h[k]) = Upto(k)}
<1>1. /\ n \in Nat /\ DOMAIN s = 1 .. n
      /\ h \in [0 .. n -> Seq(S)] /\ h[0] = <<>> /\ h[n] = Dedup(s)
      /\ \A k \in 1 .. n : h[k] = Kept(h[k - 1], s[k]) /\ s[k] \in S
  BY <1>0 DEF DedupRun
<1> HIDE DEF n
<1>2. 0 \in Good
  <2>1. ToSet(h[0]) = {} /\ Upto(0) = {}
    BY <1>1 DEF ToSet
  <2> QED
    BY <2>1
<1>3. ASSUME NEW k \in Nat, k \in Good PROVE k + 1 \in Good
  <2> SUFFICES ASSUME k + 1 <= n PROVE ToSet(h[k + 1]) = Upto(k + 1)
    OBVIOUS
  <2>1. k + 1 \in 1 .. n /\ (k + 1) - 1 = k /\ k \in 0 .. n /\ 1 .. k + 1 = (1 .. k) \cup {k + 1}
    <3>1. n \in Nat
      BY <1>1
    <3> HIDE DEF Good
    <3> QED
      BY <3>1
  <2> DEFINE x == s[k + 1]
             o == h[k]
  <2>2. h[k + 1] = Kept(o, x) /\ x \in S /\ o \in Seq(S)
    BY <1>1, <2>1
  <2>3. ToSet(o) = Upto(k)
    BY <1>3, <2>1
  <2>4. Upto(k + 1) = Upto(k) \cup {x}
    BY <2>1
  <2> HIDE DEF Upto, x, o
  <2>5. Contains(o, x) => x \in ToSet(o)
    BY <2>2 DEF Contains, ToSet
  <2>6. ToSet(Append(o, x)) = ToSet(o) \cup {x}
    <3> DEFINE L == Len(o)
               c == Append(o, x)
    <3>1. L \in Nat /\ DOMAIN o = 1 .. L /\ DOMAIN c = 1 .. L + 1
          /\ (\A i \in 1 .. L : c[i] = o[i]) /\ c[L + 1] = x
      BY <2>2
    <3>2. 1 .. L + 1 = (1 .. L) \cup {L + 1}
      BY <3>1
    <3> HIDE DEF L, c
    <3> QED
      <4>1. ToSet(c) = ToSet(o) \cup {x}
        BY <3>1, <3>2 DEF ToSet
      <4> QED
        BY <4>1 DEF c
  <2> QED
    BY <2>2, <2>3, <2>4, <2>5, <2>6 DEF Kept
<1>4. ToSet(h[n]) = Upto(n)
  <2>1. Nat \subseteq Good
    <3> HIDE DEF Good
    <3> QED
      BY <1>2, <1>3, NatSet
  <2> HIDE DEF Upto
  <2> QED
    BY <1>1, <2>1
<1>5. h[n] \in Seq(S)
  BY <1>1
<1>6. ToSet(Dedup(s)) = ToSet(s)
  BY <1>1, <1>4 DEF ToSet
<1> QED
  BY <1>1, <1>5, <1>6

-----------------------------------------------------------------------------
(* The steps, their names and their edges.                                 *)

Steps  == [name : STRING, deps : Seq(STRING)]
Groups == [name : STRING, after : Seq(STRING), steps : Seq(Steps)]

\* A list of elements of T whose elements are all in U.
LEMMA ListOf ==
    ASSUME NEW T, NEW s \in Seq(T), NEW U, ToSet(s) \subseteq U
    PROVE  s \in Seq(U)
<1>1. Len(s) \in Nat /\ DOMAIN s = 1 .. Len(s) /\ s \in [1 .. Len(s) -> T]
  OBVIOUS
<1>2. s \in [1 .. Len(s) -> U]
  BY <1>1 DEF ToSet
<1> QED
  BY <1>1, <1>2

\* The names of a list.
LEMMA NamesOf ==
    ASSUME NEW T, \A t \in T : t.name \in STRING, NEW list \in Seq(T)
    PROVE  /\ Names(list) \in Seq(STRING) /\ Len(Names(list)) = Len(list)
           /\ \A x : x \in ToSet(Names(list)) <=> \E y \in ToSet(list) : y.name = x
<1>1. Len(list) \in Nat /\ DOMAIN list = 1 .. Len(list) /\ \A i \in 1 .. Len(list) : list[i] \in T
  OBVIOUS
<1>2. Names(list) = [i \in 1 .. Len(list) |-> list[i].name]
  BY <1>1 DEF Names
<1>3. /\ Names(list) \in Seq(STRING) /\ Len(Names(list)) = Len(list)
      /\ DOMAIN Names(list) = 1 .. Len(list) /\ \A i \in 1 .. Len(list) : Names(list)[i] = list[i].name
  BY <1>1, <1>2
<1>4. ASSUME NEW x PROVE x \in ToSet(Names(list)) <=> \E y \in ToSet(list) : y.name = x
  BY <1>1, <1>3 DEF ToSet
<1> QED
  BY <1>3, <1>4

\* The edges of one step.
EdgesInto(x) == [j \in DOMAIN x.deps |-> <<x.deps[j], x.name>>]

\* The edges of the steps are those from the dependencies of a step to the step.
LEMMA DepEdgesOf ==
    ASSUME NEW steps \in Seq(Steps)
    PROVE  /\ DepEdges(steps) \in Seq(STRING \X STRING)
           /\ \A u, z : <<u, z>> \in ToSet(DepEdges(steps))
                          <=> \E x \in ToSet(steps) : z = x.name /\ u \in ToSet(x.deps)
<1> DEFINE n == Len(steps)
           lists == [i \in DOMAIN steps |-> EdgesInto(steps[i])]
<1>1. n \in Nat /\ DOMAIN steps = 1 .. n /\ \A i \in 1 .. n : steps[i] \in Steps
  OBVIOUS
<1>2. ASSUME NEW x \in Steps
      PROVE  /\ EdgesInto(x) \in Seq(STRING \X STRING)
             /\ \A e : e \in ToSet(EdgesInto(x)) <=> \E d \in ToSet(x.deps) : e = <<d, x.name>>
  <2>1. x.name \in STRING /\ x.deps \in Seq(STRING)
    BY DEF Steps
  <2> DEFINE m == Len(x.deps)
  <2>2. m \in Nat /\ DOMAIN x.deps = 1 .. m /\ \A j \in 1 .. m : x.deps[j] \in STRING
    BY <2>1
  <2> HIDE DEF m
  <2>3. EdgesInto(x) = [j \in 1 .. m |-> <<x.deps[j], x.name>>]
    BY <2>2 DEF EdgesInto
  <2>4. EdgesInto(x) \in Seq(STRING \X STRING)
    BY <2>1, <2>2, <2>3
  <2>5. \A e : e \in ToSet(EdgesInto(x)) <=> \E d \in ToSet(x.deps) : e = <<d, x.name>>
    BY <2>2, <2>3 DEF ToSet
  <2> QED
    BY <2>4, <2>5
<1>3. DepEdges(steps) = FlattenSeq(lists)
  BY DEF DepEdges, EdgesInto
<1>4. lists \in Seq(Seq(STRING \X STRING)) /\ DOMAIN lists = DOMAIN steps /\ \A i \in DOMAIN steps : lists[i] = EdgesInto(steps[i])
  BY <1>1, <1>2
<1> HIDE DEF lists, n
<1>5. DepEdges(steps) \in Seq(STRING \X STRING)
  BY <1>3, <1>4, FlattenTyped
<1>6. ToSet(DepEdges(steps)) = Contents(lists)
  BY <1>3, <1>4, FlattenContents
<1>7. ASSUME NEW u, NEW z
      PROVE  <<u, z>> \in ToSet(DepEdges(steps)) <=> \E x \in ToSet(steps) : z = x.name /\ u \in ToSet(x.deps)
  <2>1. ASSUME <<u, z>> \in ToSet(DepEdges(steps))
        PROVE  \E x \in ToSet(steps) : z = x.name /\ u \in ToSet(x.deps)
    <3>1. PICK i \in DOMAIN steps : <<u, z>> \in ToSet(EdgesInto(steps[i]))
      BY <1>4, <1>6, <2>1 DEF Contents
    <3>2. steps[i] \in Steps /\ steps[i] \in ToSet(steps)
      BY <1>1 DEF ToSet
    <3>3. PICK d \in ToSet(steps[i].deps) : <<u, z>> = <<d, steps[i].name>>
      BY <1>2, <3>1, <3>2
    <3> QED
      BY <3>2, <3>3
  <2>2. ASSUME NEW x \in ToSet(steps), z = x.name, u \in ToSet(x.deps)
        PROVE  <<u, z>> \in ToSet(DepEdges(steps))
    <3>1. PICK i \in DOMAIN steps : x = steps[i]
      BY DEF ToSet
    <3>2. x \in Steps
      BY <1>1, <3>1
    <3>3. <<u, z>> \in ToSet(lists[i])
      BY <1>2, <1>4, <2>2, <3>1, <3>2
    <3> QED
      BY <1>4, <1>6, <3>3 DEF Contents
  <2> QED
    BY <2>1, <2>2
<1> QED
  BY <1>5, <1>7

\* The validation accepts exactly the steps that are well named and acyclic.
LEMMA ValidateSound ==
    ASSUME NEW steps \in Seq(Steps)
    PROVE  LET S == ToSet(Names(steps))
           IN ValidateDAG(steps) <=> /\ "" \notin S /\ NoDuplicates(Names(steps))
                                     /\ \A x \in ToSet(steps) : ToSet(x.deps) \subseteq S
                                     /\ \A s \in S : s \notin Reach(S, ToSet(DepEdges(steps)), s)
<1> DEFINE nodes == Names(steps)
           S == ToSet(nodes)
           edges == DepEdges(steps)
<1>1. /\ nodes \in Seq(STRING) /\ Len(nodes) = Len(steps)
      /\ \A x : x \in S <=> \E y \in ToSet(steps) : y.name = x
  BY NamesOf DEF Steps
<1>2. nodes \in Seq(S)
  BY <1>1, ListOf
<1>3. (\A i \in DOMAIN steps : ToSet(steps[i].deps) \subseteq S) <=> \A x \in ToSet(steps) : ToSet(x.deps) \subseteq S
  BY DEF ToSet
<1>4. ASSUME \A x \in ToSet(steps) : ToSet(x.deps) \subseteq S PROVE edges \in Seq(S \X S)
  <2>1. edges \in Seq(STRING \X STRING)
    BY DepEdgesOf
  <2>2. ASSUME NEW e \in ToSet(edges) PROVE e \in S \X S
    <3>1. e \in STRING \X STRING
      BY <2>1 DEF ToSet
    <3>2. e = <<e[1], e[2]>>
      BY <3>1
    <3>3. PICK x \in ToSet(steps) : e[2] = x.name /\ e[1] \in ToSet(x.deps)
      BY <3>2, DepEdgesOf
    <3> HIDE DEF S
    <3>4. e[1] \in S /\ e[2] \in S
      BY <1>1, <1>4, <3>3
    <3> QED
      BY <3>2, <3>4
  <2> HIDE DEF S, edges
  <2> QED
    BY <2>1, <2>2, ListOf
<1>5. ASSUME NoDuplicates(nodes), \A x \in ToSet(steps) : ToSet(x.deps) \subseteq S
      PROVE  Topology(nodes, edges).visited = Len(nodes) <=> \A s \in S : s \notin Reach(S, ToSet(edges), s)
  <2>1. edges \in Seq(ToSet(nodes) \X ToSet(nodes))
    BY <1>4, <1>5
  <2> HIDE DEF nodes, edges
  <2> QED
    BY <1>2, <1>5, <2>1, KahnSound
<1> HIDE DEF S
<1>6. ValidateDAG(steps) <=> /\ "" \notin S /\ NoDuplicates(nodes)
                             /\ \A x \in ToSet(steps) : ToSet(x.deps) \subseteq S
                             /\ Topology(nodes, edges).visited = Len(nodes)
  BY <1>1, <1>3 DEF ValidateDAG, S
<1> QED
  BY <1>5, <1>6 DEF S

-----------------------------------------------------------------------------
(* From groups to steps.                                                   *)

\* The steps of the groups, in a row.
Row(groups) == FlattenSeq([i \in DOMAIN groups |-> groups[i].steps])

\* The steps in a row are the steps of the groups.
LEMMA RowOf ==
    ASSUME NEW groups \in Seq(Groups)
    PROVE  /\ Row(groups) \in Seq(Steps)
           /\ \A x : x \in ToSet(Row(groups)) <=> \E i \in DOMAIN groups : x \in ToSet(groups[i].steps)
<1> DEFINE lists == [i \in DOMAIN groups |-> groups[i].steps]
<1>1. Len(groups) \in Nat /\ DOMAIN groups = 1 .. Len(groups) /\ \A i \in DOMAIN groups : groups[i] \in Groups
  OBVIOUS
<1>2. \A i \in DOMAIN groups : groups[i].steps \in Seq(Steps)
  BY <1>1 DEF Groups
<1>3. /\ lists \in Seq(Seq(Steps)) /\ DOMAIN lists = DOMAIN groups
      /\ \A i \in DOMAIN groups : lists[i] = groups[i].steps
  BY <1>1, <1>2
<1> HIDE DEF lists
<1>4. Row(groups) = FlattenSeq(lists)
  BY DEF Row, lists
<1>5. Row(groups) \in Seq(Steps)
  BY <1>3, <1>4, FlattenTyped
<1>6. ToSet(Row(groups)) = Contents(lists)
  BY <1>3, <1>4, FlattenContents
<1> QED
  BY <1>3, <1>5, <1>6 DEF Contents

\* The steps that one group which is waited for adds.
StepsOfNamed(groups, name) ==
    IF name \in ToSet(Names(groups)) THEN Names(Find(groups, name).steps) ELSE <<>>

\* A name of its own finds its group.
LEMMA FindNamed ==
    ASSUME NEW groups \in Seq(Groups), NoDuplicates(Names(groups)), NEW k \in DOMAIN groups
    PROVE  Find(groups, groups[k].name) = groups[k]
<1>1. DOMAIN Names(groups) = DOMAIN groups /\ \A i \in DOMAIN groups : Names(groups)[i] = groups[i].name
  BY DEF Names
<1>2. \A i, j \in DOMAIN groups : groups[i].name = groups[j].name => i = j
  BY <1>1 DEF NoDuplicates
<1>3. (CHOOSE i \in DOMAIN groups : groups[i].name = groups[k].name) = k
  BY <1>2
<1> QED
  BY <1>3 DEF Find

\* The steps a group waits for are those of the groups it names.
LEMMA DepStepsOf ==
    ASSUME NEW groups \in Seq(Groups), NoDuplicates(Names(groups)), NEW g \in Groups
    PROVE  /\ DepSteps(groups, g) \in Seq(STRING)
           /\ \A s : s \in ToSet(DepSteps(groups, g))
                       <=> \E k \in DOMAIN groups : /\ groups[k].name \in ToSet(g.after)
                                                    /\ s \in ToSet(Names(groups[k].steps))
<1> DEFINE lists == [i \in DOMAIN g.after |-> StepsOfNamed(groups, g.after[i])]
<1>1. /\ DOMAIN groups = 1 .. Len(groups) /\ Len(groups) \in Nat
      /\ \A k \in DOMAIN groups : groups[k] \in Groups
  OBVIOUS
<1>2. g.after \in Seq(STRING)
  BY DEF Groups
<1>3. \A n : n \in ToSet(Names(groups)) <=> \E k \in DOMAIN groups : groups[k].name = n
  BY <1>1 DEF Names, ToSet
<1>4. \A k \in DOMAIN groups : StepsOfNamed(groups, groups[k].name) = Names(groups[k].steps)
  BY <1>3, FindNamed DEF StepsOfNamed
<1>5. \A n : StepsOfNamed(groups, n) \in Seq(STRING)
  <2> SUFFICES ASSUME NEW n PROVE StepsOfNamed(groups, n) \in Seq(STRING)
    OBVIOUS
  <2>1. CASE n \in ToSet(Names(groups))
    <3>1. PICK k \in DOMAIN groups : groups[k].name = n
      BY <1>3, <2>1
    <3>2. groups[k].steps \in Seq(Steps)
      BY <1>1 DEF Groups
    <3>3. Names(groups[k].steps) \in Seq(STRING)
      BY <3>2, NamesOf DEF Steps
    <3> QED
      BY <1>4, <3>1, <3>3
  <2>2. CASE n \notin ToSet(Names(groups))
    BY <2>2 DEF StepsOfNamed
  <2> QED
    BY <2>1, <2>2
<1>6. /\ lists \in Seq(Seq(STRING)) /\ DOMAIN lists = DOMAIN g.after
      /\ \A i \in DOMAIN g.after : lists[i] = StepsOfNamed(groups, g.after[i])
  <2>1. Len(g.after) \in Nat /\ DOMAIN g.after = 1 .. Len(g.after)
    BY <1>2
  <2> QED
    BY <1>5, <2>1
<1>7. DepSteps(groups, g) = Dedup(FlattenSeq(lists))
  BY DEF DepSteps, StepsOfNamed
<1> HIDE DEF lists
<1>8. FlattenSeq(lists) \in Seq(STRING)
  BY <1>6, FlattenTyped
<1>9. ToSet(FlattenSeq(lists)) = Contents(lists)
  BY <1>6, FlattenContents
<1>10. DepSteps(groups, g) \in Seq(STRING) /\ ToSet(DepSteps(groups, g)) = Contents(lists)
  BY <1>7, <1>8, <1>9, DedupSet
<1>11. ASSUME NEW s
       PROVE  s \in Contents(lists)
                <=> \E k \in DOMAIN groups : /\ groups[k].name \in ToSet(g.after)
                                             /\ s \in ToSet(Names(groups[k].steps))
  <2>1. ASSUME s \in Contents(lists)
        PROVE  \E k \in DOMAIN groups : groups[k].name \in ToSet(g.after) /\ s \in ToSet(Names(groups[k].steps))
    <3>1. PICK i \in DOMAIN g.after : s \in ToSet(StepsOfNamed(groups, g.after[i]))
      BY <1>6, <2>1 DEF Contents
    <3>2. g.after[i] \in ToSet(g.after)
      BY DEF ToSet
    <3>3. ToSet(<<>>) = {}
      BY DEF ToSet
    <3>4. g.after[i] \in ToSet(Names(groups))
      BY <3>1, <3>3 DEF StepsOfNamed
    <3>5. PICK k \in DOMAIN groups : groups[k].name = g.after[i]
      BY <1>3, <3>4
    <3> QED
      BY <1>4, <3>1, <3>2, <3>5
  <2>2. ASSUME NEW k \in DOMAIN groups, groups[k].name \in ToSet(g.after), s \in ToSet(Names(groups[k].steps))
        PROVE  s \in Contents(lists)
    <3>1. PICK i \in DOMAIN g.after : g.after[i] = groups[k].name
      BY <2>2 DEF ToSet
    <3>2. s \in ToSet(lists[i])
      BY <1>4, <1>6, <2>2, <3>1
    <3> QED
      BY <1>6, <3>2 DEF Contents
  <2> QED
    BY <2>1, <2>2
<1> QED
  BY <1>10, <1>11

\* A step of group g as it is lowered.
LowerStep(groups, g, x) == [name |-> x.name, deps |-> Dedup(x.deps \o DepSteps(groups, g))]
LowerGroup(groups, g) == [j \in DOMAIN g.steps |-> LowerStep(groups, g, g.steps[j])]

\* A lowered step has its own dependencies and those of its group.
LEMMA LowerStepOf ==
    ASSUME NEW groups \in Seq(Groups), NoDuplicates(Names(groups)), NEW g \in Groups, NEW x \in Steps
    PROVE  /\ LowerStep(groups, g, x) \in Steps
           /\ LowerStep(groups, g, x).name = x.name
           /\ ToSet(LowerStep(groups, g, x).deps) = ToSet(x.deps) \cup ToSet(DepSteps(groups, g))
<1> DEFINE d == Dedup(x.deps \o DepSteps(groups, g))
<1>1. x.name \in STRING /\ x.deps \in Seq(STRING)
  BY DEF Steps
<1>2. DepSteps(groups, g) \in Seq(STRING)
  BY DepStepsOf
<1>3. /\ x.deps \o DepSteps(groups, g) \in Seq(STRING)
      /\ ToSet(x.deps \o DepSteps(groups, g)) = ToSet(x.deps) \cup ToSet(DepSteps(groups, g))
  BY <1>1, <1>2, Joined
<1>4. d \in Seq(STRING) /\ ToSet(d) = ToSet(x.deps) \cup ToSet(DepSteps(groups, g))
  BY <1>3, DedupSet
<1>5. LowerStep(groups, g, x) = [name |-> x.name, deps |-> d]
  BY DEF LowerStep
<1> HIDE DEF d
<1> QED
  BY <1>1, <1>4, <1>5 DEF Steps

\* The lowered steps are the steps in a row, each one lowered.
LEMMA LoweredOf ==
    ASSUME NEW groups \in Seq(Groups), NoDuplicates(Names(groups))
    PROVE  LET W == NewGroupWorkflow(groups).steps
           IN /\ W \in Seq(Steps) /\ Names(W) = Names(Row(groups))
              /\ \A x : x \in ToSet(W)
                          <=> \E i \in DOMAIN groups : \E y \in ToSet(groups[i].steps) :
                                  x = LowerStep(groups, groups[i], y)
<1> DEFINE W == NewGroupWorkflow(groups).steps
           lists == [i \in DOMAIN groups |-> LowerGroup(groups, groups[i])]
           plain == [i \in DOMAIN groups |-> groups[i].steps]
           R == {p \in Steps \X Steps : p[1].name = p[2].name}
<1>1. /\ Len(groups) \in Nat /\ DOMAIN groups = 1 .. Len(groups)
      /\ \A i \in DOMAIN groups : groups[i] \in Groups
  OBVIOUS
<1>2. W = FlattenSeq(lists)
  BY DEF NewGroupWorkflow, LowerGroup, LowerStep
<1>3. ASSUME NEW g \in Groups
      PROVE  /\ LowerGroup(groups, g) \in Seq(Steps)
             /\ Alike(LowerGroup(groups, g), g.steps, R)
             /\ \A x : x \in ToSet(LowerGroup(groups, g))
                         <=> \E y \in ToSet(g.steps) : x = LowerStep(groups, g, y)
  <2>1. g.steps \in Seq(Steps)
    BY DEF Groups
  <2> DEFINE m == Len(g.steps)
  <2>2. m \in Nat /\ DOMAIN g.steps = 1 .. m /\ \A j \in 1 .. m : g.steps[j] \in Steps
    BY <2>1
  <2>3. \A j \in 1 .. m : LowerStep(groups, g, g.steps[j]) \in Steps /\ LowerStep(groups, g, g.steps[j]).name = g.steps[j].name
    BY <2>2, LowerStepOf
  <2> HIDE DEF m, R
  <2>4. LowerGroup(groups, g) = [j \in 1 .. m |-> LowerStep(groups, g, g.steps[j])]
    BY <2>2 DEF LowerGroup
  <2>5. /\ LowerGroup(groups, g) \in Seq(Steps) /\ Len(LowerGroup(groups, g)) = m
        /\ DOMAIN LowerGroup(groups, g) = 1 .. m
        /\ \A j \in 1 .. m : LowerGroup(groups, g)[j] = LowerStep(groups, g, g.steps[j])
    BY <2>2, <2>3, <2>4
  <2>6. \A j \in 1 .. m : <<LowerGroup(groups, g)[j], g.steps[j]>> \in R
    BY <2>2, <2>3, <2>5 DEF R
  <2>7. Alike(LowerGroup(groups, g), g.steps, R)
    BY <2>5, <2>6 DEF Alike, m
  <2>8. \A x : x \in ToSet(LowerGroup(groups, g)) <=> \E y \in ToSet(g.steps) : x = LowerStep(groups, g, y)
    BY <2>2, <2>5 DEF ToSet
  <2> QED
    BY <2>5, <2>7, <2>8
<1>4. /\ lists \in Seq(Seq(Steps)) /\ Len(lists) = Len(groups) /\ DOMAIN lists = DOMAIN groups
      /\ \A i \in DOMAIN groups : lists[i] = LowerGroup(groups, groups[i])
  <2>1. \A i \in DOMAIN groups : LowerGroup(groups, groups[i]) \in Seq(Steps)
    BY <1>1, <1>3
  <2> QED
    BY <1>1, <2>1
<1>5. /\ plain \in Seq(Seq(Steps)) /\ Len(plain) = Len(groups)
      /\ \A i \in DOMAIN groups : plain[i] = groups[i].steps
  <2>1. \A i \in DOMAIN groups : groups[i].steps \in Seq(Steps)
    BY <1>1 DEF Groups
  <2> QED
    BY <1>1, <2>1
<1> HIDE DEF W, lists, plain, R
<1>6. W \in Seq(Steps)
  BY <1>2, <1>4, FlattenTyped
<1>7. ToSet(W) = Contents(lists)
  BY <1>2, <1>4, FlattenContents
<1>8. \A x : x \in ToSet(W)
               <=> \E i \in DOMAIN groups : \E y \in ToSet(groups[i].steps) : x = LowerStep(groups, groups[i], y)
  <2>1. \A x : x \in ToSet(W) <=> \E i \in DOMAIN groups : x \in ToSet(LowerGroup(groups, groups[i]))
    BY <1>4, <1>7 DEF Contents
  <2>2. ASSUME NEW i \in DOMAIN groups, NEW x
        PROVE  x \in ToSet(LowerGroup(groups, groups[i]))
                 <=> \E y \in ToSet(groups[i].steps) : x = LowerStep(groups, groups[i], y)
    <3>1. groups[i] \in Groups
      BY <1>1
    <3> QED
      BY <1>3, <3>1
  <2> QED
    BY <2>1, <2>2
<1>9. Alike(W, Row(groups), R)
  <2>1. \A i \in 1 .. Len(lists) : Alike(lists[i], plain[i], R)
    BY <1>1, <1>3, <1>4, <1>5
  <2>2. Row(groups) = FlattenSeq(plain)
    BY DEF Row, plain
  <2>3. Alike(FlattenSeq(lists), FlattenSeq(plain), R)
    BY <1>4, <1>5, <2>1, FlattenAlike
  <2> QED
    BY <1>2, <2>2, <2>3
<1>10. Names(W) = Names(Row(groups))
  <2>1. Row(groups) \in Seq(Steps)
    BY RowOf
  <2> DEFINE r == Row(groups)
  <2>2. Len(W) = Len(r) /\ DOMAIN W = 1 .. Len(r) /\ DOMAIN r = 1 .. Len(r)
    BY <1>6, <1>9, <2>1 DEF Alike
  <2>3. \A j \in 1 .. Len(r) : W[j].name = r[j].name
    BY <1>9, <2>2 DEF Alike, R
  <2> QED
    BY <2>2, <2>3 DEF Names
<1> QED
  BY <1>6, <1>8, <1>10 DEF W

StepsIn(g)       == ToSet(Names(g.steps))
AllSteps(groups) == ToSet(Names(Row(groups)))
GroupNames(groups) == ToSet(Names(groups))

\* The edges between the steps as declared, and as lowered.
Own(groups)     == ToSet(DepEdges(Row(groups)))
Lowered(groups) == ToSet(DepEdges(NewGroupWorkflow(groups).steps))

\* The edges between the groups.
After(groups) ==
    UNION {{<<g, groups[i].name>> : g \in ToSet(groups[i].after)} : i \in DOMAIN groups}

\* The group of z waits for the group of u, in one step or in several.
Waits(groups, u, z) ==
    \E i, k \in DOMAIN groups : /\ z \in StepsIn(groups[i]) /\ u \in StepsIn(groups[k])
                                /\ groups[k].name \in ToSet(groups[i].after)
Linked(groups, u, z) ==
    \E k, i \in DOMAIN groups :
        /\ u \in StepsIn(groups[k]) /\ z \in StepsIn(groups[i])
        /\ groups[i].name \in Reach(GroupNames(groups), After(groups), groups[k].name)

\* The steps of a group are among all steps.
LEMMA StepsInRow ==
    ASSUME NEW groups \in Seq(Groups)
    PROVE  /\ \A i \in DOMAIN groups : StepsIn(groups[i]) \subseteq AllSteps(groups)
           /\ \A i \in DOMAIN groups : \A x :
                  x \in StepsIn(groups[i]) <=> \E y \in ToSet(groups[i].steps) : y.name = x
<1>1. \A t \in Steps : t.name \in STRING
  BY DEF Steps
<1>2. \A i \in DOMAIN groups : groups[i].steps \in Seq(Steps)
  <2>1. \A i \in DOMAIN groups : groups[i] \in Groups
    OBVIOUS
  <2> QED
    BY <2>1 DEF Groups
<1>3. ASSUME NEW i \in DOMAIN groups, NEW x
      PROVE  x \in StepsIn(groups[i]) <=> \E y \in ToSet(groups[i].steps) : y.name = x
  BY <1>1, <1>2, NamesOf DEF StepsIn
<1>4. \A x : x \in AllSteps(groups) <=> \E y \in ToSet(Row(groups)) : y.name = x
  BY <1>1, RowOf, NamesOf DEF AllSteps
<1>5. \A i \in DOMAIN groups : StepsIn(groups[i]) \subseteq AllSteps(groups)
  BY <1>3, <1>4, RowOf
<1> QED
  BY <1>3, <1>5

\* Lowering adds the edges from the steps of each group that a group names.
LEMMA LoweredEdges ==
    ASSUME NEW groups \in Seq(Groups), NoDuplicates(Names(groups)), NEW u, NEW z
    PROVE  <<u, z>> \in Lowered(groups) <=> <<u, z>> \in Own(groups) \/ Waits(groups, u, z)
<1> DEFINE W == NewGroupWorkflow(groups).steps
<1>1. /\ W \in Seq(Steps)
      /\ \A x : x \in ToSet(W)
                  <=> \E i \in DOMAIN groups : \E y \in ToSet(groups[i].steps) : x = LowerStep(groups, groups[i], y)
  BY LoweredOf
<1> HIDE DEF W
<1>2. <<u, z>> \in Lowered(groups) <=> \E x \in ToSet(W) : z = x.name /\ u \in ToSet(x.deps)
  BY <1>1, DepEdgesOf DEF Lowered, W
<1>3. <<u, z>> \in Own(groups) <=> \E y \in ToSet(Row(groups)) : z = y.name /\ u \in ToSet(y.deps)
  BY RowOf, DepEdgesOf DEF Own
<1>4. ASSUME NEW i \in DOMAIN groups, NEW y \in ToSet(groups[i].steps)
      PROVE  LET x == LowerStep(groups, groups[i], y)
             IN x.name = y.name /\ ToSet(x.deps) = ToSet(y.deps) \cup ToSet(DepSteps(groups, groups[i]))
  <2>1. groups[i] \in Groups
    OBVIOUS
  <2>2. y \in Steps
    <3>1. groups[i].steps \in Seq(Steps)
      BY <2>1 DEF Groups
    <3> QED
      BY <3>1 DEF ToSet
  <2> QED
    BY <2>1, <2>2, LowerStepOf
<1>5. ASSUME NEW i \in DOMAIN groups
      PROVE  u \in ToSet(DepSteps(groups, groups[i]))
               <=> \E k \in DOMAIN groups : groups[k].name \in ToSet(groups[i].after) /\ u \in StepsIn(groups[k])
  <2>1. groups[i] \in Groups
    OBVIOUS
  <2> QED
    BY <2>1, DepStepsOf DEF StepsIn
<1>6. ASSUME <<u, z>> \in Lowered(groups) PROVE <<u, z>> \in Own(groups) \/ Waits(groups, u, z)
  <2>1. PICK x \in ToSet(W) : z = x.name /\ u \in ToSet(x.deps)
    BY <1>2, <1>6
  <2>6. PICK i \in DOMAIN groups : \E y \in ToSet(groups[i].steps) : x = LowerStep(groups, groups[i], y)
    BY <1>1, <2>1
  <2>2. PICK y \in ToSet(groups[i].steps) : x = LowerStep(groups, groups[i], y)
    BY <2>6
  <2>3. z = y.name /\ (u \in ToSet(y.deps) \/ u \in ToSet(DepSteps(groups, groups[i])))
    BY <1>4, <2>1, <2>2
  <2>4. CASE u \in ToSet(y.deps)
    <3>1. y \in ToSet(Row(groups))
      BY RowOf
    <3> QED
      BY <1>3, <2>3, <2>4, <3>1
  <2>5. CASE u \in ToSet(DepSteps(groups, groups[i]))
    <3>1. PICK k \in DOMAIN groups : groups[k].name \in ToSet(groups[i].after) /\ u \in StepsIn(groups[k])
      BY <1>5, <2>5
    <3>2. z \in StepsIn(groups[i])
      BY <2>3, StepsInRow
    <3> QED
      BY <3>1, <3>2 DEF Waits
  <2> QED
    BY <2>3, <2>4, <2>5
<1>7. ASSUME <<u, z>> \in Own(groups) PROVE <<u, z>> \in Lowered(groups)
  <2>1. PICK y \in ToSet(Row(groups)) : z = y.name /\ u \in ToSet(y.deps)
    BY <1>3, <1>7
  <2>2. PICK i \in DOMAIN groups : y \in ToSet(groups[i].steps)
    BY <2>1, RowOf
  <2>3. LowerStep(groups, groups[i], y) \in ToSet(W)
    BY <1>1, <2>2
  <2> QED
    BY <1>2, <1>4, <2>1, <2>2, <2>3
<1>8. ASSUME Waits(groups, u, z) PROVE <<u, z>> \in Lowered(groups)
  <2>1. PICK i \in DOMAIN groups, k \in DOMAIN groups :
           z \in StepsIn(groups[i]) /\ u \in StepsIn(groups[k]) /\ groups[k].name \in ToSet(groups[i].after)
    BY <1>8 DEF Waits
  <2>2. PICK y \in ToSet(groups[i].steps) : y.name = z
    BY <2>1, StepsInRow
  <2>3. LowerStep(groups, groups[i], y) \in ToSet(W)
    BY <1>1, <2>2
  <2>4. u \in ToSet(DepSteps(groups, groups[i]))
    BY <1>5, <2>1
  <2> QED
    BY <1>2, <1>4, <2>2, <2>3, <2>4
<1> QED
  BY <1>6, <1>7, <1>8

\* Dependencies name steps in one form exactly if they do in the other.
LEMMA LoweredDeps ==
    ASSUME NEW groups \in Seq(Groups), NoDuplicates(Names(groups))
    PROVE  (\A x \in ToSet(NewGroupWorkflow(groups).steps) : ToSet(x.deps) \subseteq AllSteps(groups))
             <=> \A x \in ToSet(Row(groups)) : ToSet(x.deps) \subseteq AllSteps(groups)
<1> DEFINE W == NewGroupWorkflow(groups).steps
           S == AllSteps(groups)
           Known(E) == \A u, z : <<u, z>> \in E => u \in S
<1>1. W \in Seq(Steps) /\ Row(groups) \in Seq(Steps)
  BY LoweredOf, RowOf
<1> HIDE DEF S
<1>2. ASSUME NEW steps \in Seq(Steps)
      PROVE  (\A x \in ToSet(steps) : ToSet(x.deps) \subseteq S) <=> Known(ToSet(DepEdges(steps)))
  BY DepEdgesOf
<1>3. \A u, z : Waits(groups, u, z) => u \in S
  BY StepsInRow DEF Waits, S
<1>4. Known(Lowered(groups)) <=> Known(Own(groups))
  BY <1>3, LoweredEdges
<1> HIDE DEF Known, W
<1>5. (\A x \in ToSet(W) : ToSet(x.deps) \subseteq S) <=> Known(Lowered(groups))
  BY <1>1, <1>2 DEF Lowered, W
<1>6. (\A x \in ToSet(Row(groups)) : ToSet(x.deps) \subseteq S) <=> Known(Own(groups))
  BY <1>1, <1>2 DEF Own
<1> QED
  BY <1>4, <1>5, <1>6 DEF W, S

\* An edge between groups is a name that a group waits for.
LEMMA AfterOf ==
    ASSUME NEW groups, NEW g, NEW h
    PROVE  <<g, h>> \in After(groups) <=> \E i \in DOMAIN groups : h = groups[i].name /\ g \in ToSet(groups[i].after)
BY DEF After

\* What a group waits for through others reaches its steps through the others'
\* steps, for every group in between has a step.
LEMMA LinkedReach ==
    ASSUME NEW groups \in Seq(Groups), NoDuplicates(Names(groups)),
           \A i \in DOMAIN groups : groups[i].steps = <<>> => groups[i].after = <<>>,
           NEW u, NEW z, Linked(groups, u, z)
    PROVE  z \in Reach(AllSteps(groups), Lowered(groups), u)
<1> DEFINE S == AllSteps(groups)
           E == Lowered(groups)
           N == GroupNames(groups)
           A == After(groups)
           C == {h \in N : \A i \in DOMAIN groups :
                    groups[i].name = h => groups[i].steps # <<>> /\ StepsIn(groups[i]) \subseteq Reach(S, E, u)}
<1>1. PICK k \in DOMAIN groups, i \in DOMAIN groups :
         /\ u \in StepsIn(groups[k]) /\ z \in StepsIn(groups[i])
         /\ groups[i].name \in Reach(N, A, groups[k].name)
  BY DEF Linked
<1>2. \A a, b \in DOMAIN groups : groups[a].name = groups[b].name => a = b
  <2>1. DOMAIN Names(groups) = DOMAIN groups /\ \A a \in DOMAIN groups : Names(groups)[a] = groups[a].name
    BY DEF Names
  <2> QED
    BY <2>1 DEF NoDuplicates
<1>3. \A h : h \in N <=> \E a \in DOMAIN groups : groups[a].name = h
  BY DEF GroupNames, Names, ToSet
<1>4. \A a \in DOMAIN groups : groups[a].steps # <<>> => \E y : y \in StepsIn(groups[a])
  <2> SUFFICES ASSUME NEW a \in DOMAIN groups, groups[a].steps # <<>> PROVE \E y : y \in StepsIn(groups[a])
    OBVIOUS
  <2>1. groups[a].steps \in Seq(Steps)
    <3>1. groups[a] \in Groups
      OBVIOUS
    <3> QED
      BY <3>1 DEF Groups
  <2>2. groups[a].steps[1] \in ToSet(groups[a].steps)
    BY <2>1 DEF ToSet
  <2> QED
    BY <2>2, StepsInRow
<1>5. ASSUME NEW w \in C \cup {groups[k].name}, NEW h \in N, <<w, h>> \in A PROVE h \in C
  <2>1. PICK a \in DOMAIN groups : h = groups[a].name /\ w \in ToSet(groups[a].after)
    BY <1>5, AfterOf
  <2>2. groups[a].steps # <<>>
    <3>1. groups[a].after # <<>>
      BY <2>1 DEF ToSet
    <3> QED
      BY <3>1
  <2>3. ASSUME NEW m \in DOMAIN groups, groups[m].name = w, NEW x \in StepsIn(groups[m]), x \in Reach(S, E, u) \cup {u}
        PROVE  StepsIn(groups[a]) \subseteq Reach(S, E, u)
    <3> SUFFICES ASSUME NEW y \in StepsIn(groups[a]) PROVE y \in Reach(S, E, u)
      OBVIOUS
    <3>1. Waits(groups, x, y)
      BY <2>1, <2>3 DEF Waits
    <3>2. <<x, y>> \in E
      BY <3>1, LoweredEdges
    <3>3. y \in S
      BY StepsInRow
    <3>4. Covers(S, E, u, Reach(S, E, u))
      BY ReachCovers
    <3> HIDE DEF S, E
    <3> QED
      BY <2>3, <3>2, <3>3, <3>4 DEF Covers
  <2>4. StepsIn(groups[a]) \subseteq Reach(S, E, u)
    <3>1. CASE w = groups[k].name
      <4>1. u \in Reach(S, E, u) \cup {u}
        OBVIOUS
      <4> HIDE DEF S, E
      <4> QED
        BY <1>1, <2>3, <3>1, <4>1
    <3>2. CASE w \in C
      <4> HIDE DEF S, E
      <4>1. PICK m \in DOMAIN groups : groups[m].name = w
        BY <1>3, <3>2
      <4>2. groups[m].steps # <<>> /\ StepsIn(groups[m]) \subseteq Reach(S, E, u)
        BY <3>2, <4>1
      <4>3. PICK y : y \in StepsIn(groups[m])
        BY <1>4, <4>2
      <4> QED
        BY <2>3, <4>1, <4>2, <4>3
    <3> QED
      BY <3>1, <3>2
  <2> HIDE DEF S, E, N, A
  <2> QED
    BY <1>2, <2>1, <2>2, <2>4
<1>6. Covers(N, A, groups[k].name, C) /\ C \in SUBSET N
  <2>1. C \in SUBSET N
    OBVIOUS
  <2> HIDE DEF C
  <2> QED
    BY <1>5, <2>1 DEF Covers
<1>7. groups[i].name \in C
  <2> HIDE DEF C, N, A
  <2> QED
    BY <1>1, <1>6, ReachWithin
<1> HIDE DEF S, E, N, A
<1>8. StepsIn(groups[i]) \subseteq Reach(S, E, u)
  BY <1>7
<1> QED
  BY <1>1, <1>8 DEF S, E

\* The lowered edges order the steps as the declaration means them to be.
LEMMA LoweredReach ==
    ASSUME NEW groups \in Seq(Groups), NoDuplicates(Names(groups)),
           \A i \in DOMAIN groups : groups[i].steps = <<>> => groups[i].after = <<>>,
           NEW M, \A u, z \in AllSteps(groups) :
                      <<u, z>> \in M <=> <<u, z>> \in Own(groups) \/ Linked(groups, u, z),
           NEW s \in AllSteps(groups)
    PROVE  Reach(AllSteps(groups), Lowered(groups), s) = Reach(AllSteps(groups), M, s)
<1> DEFINE S == AllSteps(groups)
           E == Lowered(groups)
<1>1. ASSUME NEW u \in S, NEW z \in S, Waits(groups, u, z) PROVE Linked(groups, u, z)
  <2>1. PICK i \in DOMAIN groups, k \in DOMAIN groups :
           z \in StepsIn(groups[i]) /\ u \in StepsIn(groups[k]) /\ groups[k].name \in ToSet(groups[i].after)
    BY <1>1 DEF Waits
  <2>2. <<groups[k].name, groups[i].name>> \in After(groups)
    BY <2>1, AfterOf
  <2>3. groups[i].name \in GroupNames(groups)
    BY DEF GroupNames, Names, ToSet
  <2>4. Covers(GroupNames(groups), After(groups), groups[k].name,
               Reach(GroupNames(groups), After(groups), groups[k].name))
    BY ReachCovers
  <2>5. groups[i].name \in Reach(GroupNames(groups), After(groups), groups[k].name)
    BY <2>2, <2>3, <2>4 DEF Covers
  <2> QED
    BY <2>1, <2>5 DEF Linked
<1> HIDE DEF S, E
<1>2. ASSUME NEW u \in S, NEW z \in S, <<u, z>> \in E PROVE z \in Reach(S, M, u)
  <2>1. <<u, z>> \in M
    BY <1>1, <1>2, LoweredEdges DEF S, E
  <2>2. Covers(S, M, u, Reach(S, M, u))
    BY ReachCovers
  <2> QED
    BY <2>1, <2>2 DEF Covers
<1>3. ASSUME NEW u \in S, NEW z \in S, <<u, z>> \in M PROVE z \in Reach(S, E, u)
  <2>1. <<u, z>> \in Own(groups) \/ Linked(groups, u, z)
    BY <1>3 DEF S
  <2>2. CASE <<u, z>> \in Own(groups)
    <3>1. <<u, z>> \in E
      BY <2>2, LoweredEdges DEF E
    <3>2. Covers(S, E, u, Reach(S, E, u))
      BY ReachCovers
    <3> QED
      BY <3>1, <3>2 DEF Covers
  <2>3. CASE Linked(groups, u, z)
    BY <2>3, LinkedReach DEF S, E
  <2> QED
    BY <2>1, <2>2, <2>3
<1>4. s \in S
  BY DEF S
<1>5. Reach(S, E, s) \subseteq Reach(S, M, s)
  BY <1>2, <1>4, ReachAlong
<1>6. Reach(S, M, s) \subseteq Reach(S, E, s)
  BY <1>3, <1>4, ReachAlong
<1> QED
  BY <1>5, <1>6 DEF S, E

-----------------------------------------------------------------------------
(* Acceptance.                                                             *)

Valid(w) == ValidGroups(w.groups) /\ ValidateDAG(w.steps)

\* The declared workflows are typed, and a flat one has one group.
LEMMA InputTyped ==
    ASSUME input \in Inputs
    PROVE  input.groups \in Seq(Groups) /\ (input.flat => Len(input.groups) = 1)
BY WorkflowsAssumption DEF Groups, Steps

\* The steps of a single group in a row are its steps.
LEMMA RowOfOne ==
    ASSUME NEW groups \in Seq(Groups), Len(groups) = 1
    PROVE  Row(groups) = groups[1].steps
<1> DEFINE lists == [i \in DOMAIN groups |-> groups[i].steps]
<1>1. DOMAIN groups = {1} /\ groups[1] \in Groups
  <2>1. DOMAIN groups = 1 .. 1 /\ 1 .. 1 = {1}
    OBVIOUS
  <2>3. DOMAIN groups = {1}
    BY <2>1
  <2>4. groups[1] \in Groups
    <3>1. groups \in [1 .. Len(groups) -> Groups] /\ 1 \in 1 .. Len(groups)
      OBVIOUS
    <3> QED
      BY ONLY <3>1
  <2> HIDE DEF lists
  <2> QED
    BY <2>3, <2>4
<1>2. groups[1].steps \in Seq(Steps)
  BY <1>1 DEF Groups
<1>3. lists \in Seq(Seq(Steps)) /\ Len(lists) = 1 /\ lists[1] = groups[1].steps
  <2>1. lists = [i \in 1 .. 1 |-> groups[1].steps]
    BY <1>1
  <2> HIDE DEF lists
  <2> QED
    BY <1>2, <2>1
<1>4. Row(groups) = FlattenSeq(lists)
  BY DEF Row
<1> HIDE DEF lists
<1>5. PICK h : FlattenRun(h, Steps, lists)
  BY <1>3, FlattenTrace
<1>6. h[0] = <<>> /\ h[1] = h[0] \o lists[1] /\ h[1] = FlattenSeq(lists)
  <2>1. /\ h[0] = <<>> /\ h[1] = FlattenSeq(lists)
        /\ \A k \in 1 .. 1 : h[k] = h[k - 1] \o lists[k]
    BY <1>3, <1>5 DEF FlattenRun
  <2>2. 1 \in 1 .. 1 /\ 1 - 1 = 0
    OBVIOUS
  <2> QED
    BY <2>1, <2>2
<1>7. <<>> \o groups[1].steps = groups[1].steps
  BY <1>2
<1> QED
  BY <1>3, <1>4, <1>6, <1>7

\* What the declaration means, between two of its steps.
LEMMA MeantOf ==
    ASSUME input \in Inputs, NEW u \in AllSteps(input.groups), NEW z \in AllSteps(input.groups)
    PROVE  <<u, z>> \in Meant
             <=> <<u, z>> \in Own(input.groups) \/ (~input.flat /\ Linked(input.groups, u, z))
<1> DEFINE e == <<u, z>>
           S == ToSet(Names(Declared))
           N == ToSet(Names(input.groups))
           A == After(input.groups)
<1>1. Declared = Row(input.groups) /\ u \in S /\ z \in S
  BY DEF Declared, Row, AllSteps
<1>2. e \in S \X S /\ e[1] = u /\ e[2] = z
  BY <1>1
<1>3. e \in Meant <=> \/ e \in ToSet(DepEdges(Declared))
                      \/ /\ ~input.flat
                         /\ \E i, j \in DOMAIN input.groups :
                              /\ e[1] \in ToSet(Names(input.groups[i].steps))
                              /\ e[2] \in ToSet(Names(input.groups[j].steps))
                              /\ input.groups[j].name \in Reach(N, A, input.groups[i].name)
  BY <1>2 DEF Meant, After
<1> QED
  BY <1>1, <1>2, <1>3 DEF Own, Linked, StepsIn, GroupNames

\* A workflow of groups is accepted exactly if it is well named and acyclic.
LEMMA GroupsAccepted ==
    ASSUME input \in Inputs, ~input.flat, NoEmptyLink
    PROVE  LET S == ToSet(Names(Declared))
               w == NewWorkflow(input)
           IN /\ Valid(w) <=> WellNamed /\ \A s \in S : s \notin Reach(S, Meant, s)
              /\ Valid(w) => \A s \in S : Reach(S, ToSet(DepEdges(w.steps)), s) = Reach(S, Meant, s)
<1> DEFINE groups == input.groups
           S == AllSteps(groups)
           w == NewWorkflow(input)
           GroupsNamed == /\ "" \notin GroupNames(groups) /\ NoDuplicates(Names(groups))
                          /\ \A i \in DOMAIN groups : ToSet(groups[i].after) \subseteq GroupNames(groups)
           StepsNamed == /\ "" \notin S /\ NoDuplicates(Names(Row(groups)))
                         /\ \A x \in ToSet(Row(groups)) : ToSet(x.deps) \subseteq S
<1>1. groups \in Seq(Groups) /\ Declared = Row(groups) /\ S = ToSet(Names(Declared))
  BY InputTyped DEF Declared, Row, AllSteps
<1>2. w = NewGroupWorkflow(groups) /\ ToSet(DepEdges(w.steps)) = Lowered(groups)
  BY DEF NewWorkflow, Lowered
<1>3. ValidGroups(w.groups) <=> GroupsNamed
  <2> DEFINE v == w.groups
  <2>1. v = [i \in DOMAIN groups |-> [name |-> groups[i].name, deps |-> groups[i].after, steps |-> Names(groups[i].steps)]]
    BY <1>2 DEF NewGroupWorkflow
  <2> HIDE DEF v
  <2>2. /\ DOMAIN v = DOMAIN groups
        /\ \A i \in DOMAIN groups : v[i].name = groups[i].name /\ v[i].deps = groups[i].after
    BY <2>1
  <2>3. Names(v) = Names(groups)
    BY <2>2 DEF Names
  <2>4. ValidGroups(v) <=> GroupsNamed
    BY <2>2, <2>3 DEF ValidGroups, GroupNames
  <2> QED
    BY <2>4 DEF v
<1>4. WellNamed <=> GroupsNamed /\ StepsNamed
  <2>1. (\A i \in DOMAIN Declared : ToSet(Declared[i].deps) \subseteq S) <=> \A x \in ToSet(Declared) : ToSet(x.deps) \subseteq S
    BY DEF ToSet
  <2> HIDE DEF S
  <2> QED
    BY <1>1, <2>1 DEF WellNamed, GroupNames
<1>5. \A i \in DOMAIN groups : groups[i].steps = <<>> => groups[i].after = <<>>
  BY DEF NoEmptyLink
<1>6. \A u, z \in S : <<u, z>> \in Meant <=> <<u, z>> \in Own(groups) \/ Linked(groups, u, z)
  BY MeantOf
<1> HIDE DEF S, groups, w
<1>7. ASSUME NoDuplicates(Names(groups)), NEW s \in S
      PROVE  Reach(S, Lowered(groups), s) = Reach(S, Meant, s)
  BY <1>1, <1>5, <1>6, <1>7, LoweredReach DEF S
<1>8. ASSUME NoDuplicates(Names(groups))
      PROVE  ValidateDAG(w.steps) <=> StepsNamed /\ \A s \in S : s \notin Reach(S, Meant, s)
  <2>1. w.steps \in Seq(Steps) /\ Names(w.steps) = Names(Row(groups))
    BY <1>1, <1>2, <1>8, LoweredOf
  <2>2. ToSet(Names(w.steps)) = S
    BY <2>1 DEF S, AllSteps
  <2>3. (\A x \in ToSet(w.steps) : ToSet(x.deps) \subseteq S) <=> \A x \in ToSet(Row(groups)) : ToSet(x.deps) \subseteq S
    BY <1>1, <1>2, <1>8, LoweredDeps DEF S
  <2>4. ValidateDAG(w.steps) <=> /\ "" \notin S /\ NoDuplicates(Names(w.steps))
                                 /\ \A x \in ToSet(w.steps) : ToSet(x.deps) \subseteq S
                                 /\ \A s \in S : s \notin Reach(S, ToSet(DepEdges(w.steps)), s)
    BY <2>1, <2>2, ValidateSound
  <2>5. (\A s \in S : s \notin Reach(S, ToSet(DepEdges(w.steps)), s)) <=> \A s \in S : s \notin Reach(S, Meant, s)
    BY <1>2, <1>7, <1>8
  <2> QED
    BY <2>1, <2>3, <2>4, <2>5
<1>9. Valid(w) <=> WellNamed /\ \A s \in S : s \notin Reach(S, Meant, s)
  BY <1>3, <1>4, <1>8 DEF Valid
<1>10. Valid(w) => \A s \in S : Reach(S, ToSet(DepEdges(w.steps)), s) = Reach(S, Meant, s)
  BY <1>2, <1>3, <1>7 DEF Valid
<1> QED
  BY <1>1, <1>9, <1>10 DEF w

\* A flat workflow is accepted exactly if it is well named and acyclic.
LEMMA FlatAccepted ==
    ASSUME input \in Inputs, input.flat
    PROVE  LET S == ToSet(Names(Declared))
               w == NewWorkflow(input)
           IN /\ Valid(w) <=> WellNamed /\ \A s \in S : s \notin Reach(S, Meant, s)
              /\ Valid(w) => \A s \in S : Reach(S, ToSet(DepEdges(w.steps)), s) = Reach(S, Meant, s)
<1> DEFINE S == ToSet(Names(Declared))
           E == ToSet(DepEdges(Declared))
           w == NewWorkflow(input)
<1>1. input.groups \in Seq(Groups) /\ Len(input.groups) = 1
  BY InputTyped
<1>2. Declared = Row(input.groups) /\ Declared \in Seq(Steps) /\ Declared = input.groups[1].steps
  BY <1>1, RowOf, RowOfOne DEF Declared, Row
<1>3. w.steps = Declared /\ w.groups = <<>>
  BY <1>2 DEF NewWorkflow
<1>4. ValidGroups(w.groups)
  <2> DEFINE v == w.groups
  <2>1. DOMAIN v = {}
    BY <1>3
  <2> HIDE DEF v
  <2>2. DOMAIN Names(v) = {}
    BY <2>1 DEF Names
  <2>3. ToSet(Names(v)) = {}
    BY <2>2 DEF ToSet
  <2>4. ValidGroups(v)
    BY <2>1, <2>2, <2>3 DEF ValidGroups, NoDuplicates
  <2> QED
    BY <2>4 DEF v
<1>5. WellNamed <=> /\ "" \notin S /\ NoDuplicates(Names(Declared))
                    /\ \A x \in ToSet(Declared) : ToSet(x.deps) \subseteq S
  <2>1. (\A i \in DOMAIN Declared : ToSet(Declared[i].deps) \subseteq S) <=> \A x \in ToSet(Declared) : ToSet(x.deps) \subseteq S
    BY DEF ToSet
  <2> QED
    BY <2>1 DEF WellNamed
<1>6. \A u, z \in S : <<u, z>> \in Meant <=> <<u, z>> \in E
  BY <1>2, MeantOf DEF AllSteps, Own
<1> HIDE DEF S, E, w
<1>7. ASSUME NEW s \in S PROVE Reach(S, E, s) = Reach(S, Meant, s)
  <2>1. ASSUME NEW u \in S, NEW z \in S, <<u, z>> \in E PROVE z \in Reach(S, Meant, u)
    <3>1. Covers(S, Meant, u, Reach(S, Meant, u))
      BY ReachCovers
    <3> QED
      BY <1>6, <2>1, <3>1 DEF Covers
  <2>2. ASSUME NEW u \in S, NEW z \in S, <<u, z>> \in Meant PROVE z \in Reach(S, E, u)
    <3>1. Covers(S, E, u, Reach(S, E, u))
      BY ReachCovers
    <3> QED
      BY <1>6, <2>2, <3>1 DEF Covers
  <2>3. Reach(S, E, s) \subseteq Reach(S, Meant, s)
    BY <2>1, ReachAlong
  <2>4. Reach(S, Meant, s) \subseteq Reach(S, E, s)
    BY <2>2, ReachAlong
  <2> QED
    BY <2>3, <2>4
<1>8. ValidateDAG(Declared) <=> /\ "" \notin S /\ NoDuplicates(Names(Declared))
                                /\ \A x \in ToSet(Declared) : ToSet(x.deps) \subseteq S
                                /\ \A s \in S : s \notin Reach(S, E, s)
  BY <1>2, ValidateSound DEF S, E
<1>9. Valid(w) <=> WellNamed /\ \A s \in S : s \notin Reach(S, Meant, s)
  BY <1>3, <1>4, <1>5, <1>7, <1>8 DEF Valid
<1>10. \A s \in S : Reach(S, ToSet(DepEdges(w.steps)), s) = Reach(S, Meant, s)
  BY <1>3, <1>7 DEF E
<1> QED
  BY <1>9, <1>10 DEF S, w

\* What is kept between the declaration and the drawing.
Judged ==
    /\ input \in Inputs
    /\ phase \in {"declared", "accepted", "rejected", "drawn"}
    /\ phase \in {"accepted", "rejected"} =>
          wf = NewWorkflow(input) /\ (phase = "accepted" <=> Valid(NewWorkflow(input)))

\* workflow.go, engine.go and dag.go: an enqueue accepts a workflow of any size
\* exactly if its names are in order and what it means has no cycle, and the
\* steps of an accepted one wait for what the declaration means, and for no more.
THEOREM AcceptedIsWhatIsOrdered == Spec => []AcceptedIsOrdered
<1>1. Init => Judged
  BY DEF Init, Judged
<1>2. Judged /\ [Next]_vars => Judged'
  <2> SUFFICES ASSUME Judged, [Next]_vars PROVE Judged'
    OBVIOUS
  <2>1. CASE EnqueueWorkflow
    <3>1. /\ input' = input /\ wf' = NewWorkflow(input)
          /\ phase' = IF Valid(NewWorkflow(input)) THEN "accepted" ELSE "rejected"
      BY <2>1 DEF EnqueueWorkflow, Valid
    <3>2. NewWorkflow(input)' = NewWorkflow(input) /\ Valid(NewWorkflow(input))' = Valid(NewWorkflow(input))
      BY <3>1 DEF NewWorkflow, Valid
    <3> QED
      BY <3>1, <3>2 DEF Judged
  <2>2. CASE DrawDAG
    BY <2>2 DEF DrawDAG, Judged
  <2>3. CASE UNCHANGED vars
    <3>1. input' = input /\ wf' = wf /\ phase' = phase
      BY <2>3 DEF vars
    <3>2. NewWorkflow(input)' = NewWorkflow(input) /\ Valid(NewWorkflow(input))' = Valid(NewWorkflow(input))
      BY <3>1 DEF NewWorkflow, Valid
    <3> QED
      BY <3>1, <3>2 DEF Judged
  <2> QED
    BY <2>1, <2>2, <2>3 DEF Next
<1>3. Judged => AcceptedIsOrdered
  BY GroupsAccepted, FlatAccepted DEF Judged, AcceptedIsOrdered
<1> QED
  BY <1>1, <1>2, <1>3, PTL DEF Spec
=============================================================================
