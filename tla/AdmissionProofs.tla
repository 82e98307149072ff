-------------------------- MODULE AdmissionProofs --------------------------
(***************************************************************************)
(* Proofs about Admission, for all runs, batches, clients, queues, slots,  *)
(* rates and windows: the limits a claim checks hold of what executes      *)
(* (LimitsRespected), sequences keep their order (SequenceOrder), and      *)
(* unique keys and strategies keep their promise against racing enqueues   *)
(* (EnqueuePromises).                                                      *)
(*                                                                         *)
(* Each theorem names the requests it is about: without StartsOnce,        *)
(* KeepsKeys or DeclaresLimits the code breaks the property, and the       *)
(* README names the configuration that shows how.  Runs is finite, which a *)
(* safety property does not notice: what violates it happens within a      *)
(* finite prefix, and that enqueues finitely many.                         *)
(*                                                                         *)
(* What a whole batch or a whole claim does is defined by a fold, so the   *)
(* proofs turn the fold into a trace of its turns (FoldTrace) and go along *)
(* the trace by induction over the naturals (NatSet).                      *)
(***************************************************************************)
EXTENDS Admission, FiniteSetTheorems, WellFoundedInduction, TLAPS

-----------------------------------------------------------------------------
(* The scenarios the theorems are about.                                   *)

\* On a queue with a rate a run starts once, and its row stays.
StartsOnce ==
    \A sc \in Scenarios : \A r \in Runs :
        sc.rate[sc.req[r].queue] > 0 => sc.req[r].max <= 1 /\ ~sc.req[r].ephemeral

\* No enqueue ends a step that holds a key, a named key or a place in a
\* sequence while its body may run: a unique key that replaces is not combined
\* with them, and a cancel strategy not with ephemeral runs.
KeepsKeys ==
    \A sc \in Scenarios : \A r, x \in Runs :
        /\ sc.req[r].conflict = "replace" /\ sc.req[r].unique # None /\ sc.req[x].unique = sc.req[r].unique
           => sc.req[x].key = None /\ sc.req[x].extra = {} /\ sc.req[x].seqKey = None
        /\ sc.req[r].strategy # "hold" /\ sc.req[r].key # None /\ sc.req[x].key = sc.req[r].key
           => ~sc.req[x].ephemeral

\* A strategy declares its limit.
DeclaresLimits ==
    \A sc \in Scenarios : \A r \in Runs :
        sc.req[r].strategy # "hold" /\ sc.req[r].key # None => sc.req[r].limit > 0

-----------------------------------------------------------------------------
(* The invariants.                                                         *)

Statuses == {"NEW", "QUEUED", "RUNNING", "SUCCEEDED", "FAILED", "CANCELLED", "DELETED"}

Plans == [insert : SUBSET Runs, cancel : SUBSET Runs, replace : SUBSET Runs, error : BOOLEAN]
Txs   == [pc : {"idle", "write", "again"}, batch : Seq(Runs), tries : Nat, plan : Plans,
          seq : [Runs -> Nat] \cup {<<>>}]

Typed ==
    /\ req \in [Runs -> Request] /\ rate \in [Queues -> Nat]
    /\ run \in [Runs -> Statuses] /\ step \in [Runs -> Statuses]
    /\ seq \in [Runs -> Nat] /\ counter \in Nat
    /\ attempts \in [Runs -> Nat] /\ age \in [Runs -> 0 .. Window + 1]
    /\ tx \in [Clients -> Txs]
    /\ executing \in SUBSET Runs /\ paused \in SUBSET Queues
    /\ starts \in [Queues -> [0 .. Window -> Nat]]
    /\ [req |-> req, rate |-> rate] \in Scenarios

\* A step is new as long as its run is, and only an inserted step executes.
Fresh ==
    /\ \A r \in Runs : step[r] = "NEW" <=> run[r] = "NEW"
    /\ \A r \in executing : run[r] # "NEW"

\* What an open transaction enqueues is still new, and nobody else's.  The
\* locked counter admits one transaction with keyed runs at a time.
Opened ==
    /\ \A c \in Clients : tx[c].pc = "write" => tx[c].seq \in [Runs -> Nat]
    /\ \A c \in Clients : \A i \in DOMAIN tx[c].batch :
           /\ run[tx[c].batch[i]] = "NEW"
           /\ \A j \in DOMAIN tx[c].batch : tx[c].batch[i] = tx[c].batch[j] => i = j
    /\ \A c, d \in Clients : c # d =>
           /\ \A i \in DOMAIN tx[c].batch, j \in DOMAIN tx[d].batch : tx[c].batch[i] # tx[d].batch[j]
           /\ tx[c].pc = "write" /\ tx[d].pc = "write" =>
                 ~\E i \in DOMAIN tx[c].batch, j \in DOMAIN tx[d].batch :
                      Keyed(tx[c].batch[i]) /\ Keyed(tx[d].batch[j])

\* The keyed runs of a status table have distinct numbers up to last.
Numbers(st, num, last) ==
    /\ \A x \in Runs : st[x] # "NEW" /\ Keyed(x) => num[x] <= last
    /\ \A x, y \in Runs : x # y /\ st[x] # "NEW" /\ st[y] # "NEW" /\ Keyed(x) /\ Keyed(y)
                          => num[x] # num[y]

Numbered == Numbers(run, seq, counter)

\* The two halves of EnqueuePromises, for any table of run statuses.
OneEach(st) ==
    \A r, x \in Runs : r # x /\ req[r].unique # None /\ req[x].unique = req[r].unique
                       => ~(st[r] \in Live /\ st[x] \in Live)

Group(r)   == {x \in Runs : req[x].key = req[r].key}
Uniform(r) == /\ req[r].strategy # "hold" /\ req[r].key # None
              /\ \A x \in Group(r) : req[x].strategy = req[r].strategy /\ req[x].limit = req[r].limit
Counted(r) == IF req[r].strategy \in {"cancelNewest", "cancelInProgress"} THEN Live ELSE {"QUEUED"}

Roomy(st) ==
    \A r \in Runs : Uniform(r) => Cardinality({x \in Group(r) : st[x] \in Counted(r)}) <= req[r].limit

\* The run table once a plan is carried out; a row it deletes counts as cancelled.
Planned(plan) ==
    [x \in Runs |-> IF x \in plan.cancel \cup plan.replace THEN "CANCELLED"
                    ELSE IF x \in plan.insert THEN "QUEUED" ELSE run[x]]

\* What a plan names: it inserts runs of the batch, and ends inserted runs or
\* its own, for a strategy of their key or a request that replaces their name.
Grounded(plan, S) ==
    /\ plan.insert \subseteq S
    /\ \A x \in plan.cancel \cup plan.replace : run[x] # "NEW" \/ x \in plan.insert
    /\ \A x \in plan.cancel : \E r \in Runs : Strategic(r) /\ req[x].key = req[r].key
    /\ \A x \in plan.replace : \E r \in Runs : /\ req[r].conflict = "replace" /\ req[r].unique # None
                                               /\ req[x].unique = req[r].unique

KeyedAt(b) == {i \in DOMAIN b : Keyed(b[i])}

\* A plan still fits the table it was not read from.
PendingOk(c) ==
    LET p == tx[c].plan
        b == tx[c].batch
    IN tx[c].pc = "write" /\ ~p.error =>
        /\ Grounded(p, Range(b))
        /\ \A x \in p.insert : Keyed(x) =>
               /\ counter < tx[c].seq[x] /\ tx[c].seq[x] <= counter + Cardinality(KeyedAt(b))
               /\ \A y \in p.insert : Keyed(y) /\ y # x => tx[c].seq[x] # tx[c].seq[y]
        /\ \A x, y \in p.insert : x # y /\ req[x].unique # None /\ req[x].unique = req[y].unique
              => x \in p.cancel \cup p.replace \/ y \in p.cancel \cup p.replace

Pending == \A c \in Clients : PendingOk(c)

\* A transaction that enqueues keyed runs leaves every group its room.
RoomyPending ==
    \A c \in Clients :
        tx[c].pc = "write" /\ ~tx[c].plan.error /\ KeyedAt(tx[c].batch) # {}
        => Roomy(Planned(tx[c].plan))

\* The limits that a claim checks hold of every set of RUNNING steps.
KeysOk(st) ==
    LET held == {x \in Runs : st[x] = "RUNNING"}
    IN /\ \A S \in SUBSET held : \A k \in STRING :
             S # {} /\ (\A x \in S : req[x].key = k) => \E x \in S : Cardinality(S) <= KeyLimit(x)
       /\ \A S \in SUBSET held : \A k \in STRING :
             S # {} /\ (\A x \in S : \E j \in req[x].extra : j[1] = k)
             => \E x \in S : \E j \in req[x].extra : j[1] = k /\ Cardinality(S) <= j[2]

\* While a step is RUNNING, all that came before it in its sequence have ended.
SeqOk(st) ==
    \A r, x \in Runs : /\ st[r] = "RUNNING" /\ x # r /\ run[x] # "NEW" /\ req[x].seqKey # None
                       /\ req[x].seqKey = req[r].seqKey /\ seq[x] < seq[r]
                       => st[x] \notin {"QUEUED", "RUNNING"}

Gated(r) == req[r].key # None \/ req[r].extra # {} \/ req[r].seqKey # None

\* A body that runs under a key, a named key or in a sequence has a RUNNING step.
HeldWhileExecuting == \A r \in executing : Gated(r) => step[r] = "RUNNING"

InQueue(q) == {r \in executing : req[r].queue = q}
SlotsOk  == \A q \in Queues : Cardinality(InQueue(q)) <= Slots[q]

\* The starts that count are those of the steps the window shows.
Aged(q, a) == {r \in Runs : req[r].queue = q /\ age[r] = a}
RateOk ==
    /\ \A r \in Runs : rate[req[r].queue] > 0 =>
          /\ step[r] # "DELETED"
          /\ step[r] \in {"NEW", "QUEUED"} => age[r] = Window + 1 /\ attempts[r] = 0
          /\ r \in executing => attempts[r] >= 1
    /\ \A q \in Queues : rate[q] > 0 =>
          /\ Cardinality(Started(q)) <= rate[q]
          /\ \A a \in 0 .. Window : starts[q][a] = Cardinality(Aged(q, a))

-----------------------------------------------------------------------------
(* Induction and folds.                                                    *)

\* Induction over the naturals, for a set instead of a predicate.
LEMMA NatSet ==
    ASSUME NEW S, 0 \in S, \A n \in Nat : n \in S => n + 1 \in S
    PROVE  Nat \subseteq S
<1> DEFINE T == Nat \ S
<1> SUFFICES ASSUME T # {} PROVE FALSE
  OBVIOUS
<1>1. IsWellFoundedOn(OpToRel(<, Nat), Nat)
  BY NatLessThanWellFounded
<1>2. PICK m \in T : \A y \in Nat : <<y, m>> \in OpToRel(<, Nat) => y \notin T
  BY <1>1, WFMin
<1>3. m \in Nat /\ m # 0
  OBVIOUS
<1>4. m - 1 \in Nat /\ <<m - 1, m>> \in OpToRel(<, Nat)
  BY <1>3 DEF OpToRel
<1>5. m - 1 \in S
  BY <1>2, <1>4
<1>6. (m - 1) + 1 \in S
  BY <1>4, <1>5
<1>7. (m - 1) + 1 = m
  BY <1>3
<1> QED
  BY <1>6, <1>7

\* Removing its last number shortens an interval by one: the recursion of a fold
\* over the positions of a list goes from 1 .. k to 1 .. k - 1.
LEMMA IntervalWithoutLast ==
    ASSUME NEW k \in Nat
    PROVE  (1 .. k) \ {k} = 1 .. k - 1
<1>1. ASSUME NEW i \in (1 .. k) \ {k} PROVE i \in 1 .. k - 1
  <2>1. i \in Int /\ 1 <= i /\ i <= k /\ i # k
    OBVIOUS
  <2> QED
    BY <2>1
<1>2. ASSUME NEW i \in 1 .. k - 1 PROVE i \in (1 .. k) \ {k}
  <2>1. i \in Int /\ 1 <= i /\ i <= k - 1
    OBVIOUS
  <2> QED
    BY <2>1
<1> QED
  BY <1>1, <1>2

\* The largest element of an initial segment.
LEMMA MaxOfInterval ==
    ASSUME NEW k \in Nat, k > 0
    PROVE  Max(1 .. k) = k
<1>1. k \in 1 .. k /\ \A y \in 1 .. k : k >= y
  OBVIOUS
<1>2. \A x \in 1 .. k : (\A y \in 1 .. k : x >= y) => x = k
  BY <1>1
<1> QED
  BY <1>1, <1>2 DEF Max

\* The largest element of any part of it.
LEMMA MaxOfPart ==
    ASSUME NEW n \in Nat, NEW T \in SUBSET (1 .. n), T # {}
    PROVE  Max(T) \in T /\ \A y \in T : Max(T) >= y
<1> DEFINE U == {m \in Nat : m <= n /\ n - m \in T}
<1>1. PICK t \in T : TRUE
  OBVIOUS
<1>2. U # {} /\ U \subseteq Nat
  <2>1. n - t \in U
    OBVIOUS
  <2> QED
    BY <2>1
<1>3. IsWellFoundedOn(OpToRel(<, Nat), Nat)
  BY NatLessThanWellFounded
<1>4. PICK m \in U : \A y \in U : ~(<<y, m>> \in OpToRel(<, Nat))
  BY <1>2, <1>3, WFMin
<1>5. n - m \in T
  OBVIOUS
<1>6. \A y \in T : n - m >= y
  <2> SUFFICES ASSUME NEW y \in T, ~(n - m >= y) PROVE FALSE
    OBVIOUS
  <2>1. n - y \in U /\ n - y < m
    OBVIOUS
  <2> QED
    BY <1>4, <2>1 DEF OpToRel
<1> QED
  BY <1>5, <1>6 DEF Max

\* A fold from the left is defined by a recursion over sets of positions, here
\* for a step function G on values V; Turns says the same along the positions: h[k] is the
\* value after k turns.
Recursion(it, V, base, n, s, G) ==
    /\ it[{}] = base
    /\ \A T \in SUBSET (1 .. n) :
           T # {} /\ it[T \ {Max(T)}] \in V => it[T] = G[it[T \ {Max(T)}]][s[Max(T)]]

Turns(h, base, n, s, G) ==
    h[0] = base /\ \A k \in 1 .. n : h[k] = G[h[k - 1]][s[k]]

Unrolls(it, V, base, n, s, G) ==
    \E h \in [0 .. n -> V] : h[n] = it[1 .. n] /\ Turns(h, base, n, s, G)

\* The recursion has a solution.
LEMMA FoldExists ==
    ASSUME NEW V, NEW base \in V, NEW D, NEW n \in Nat, NEW s \in [1 .. n -> D],
           NEW G \in [V -> [D -> V]]
    PROVE  \E it \in [SUBSET (1 .. n) -> V] : Recursion(it, V, base, n, s, G)
<1> DEFINE Solves(it, k) ==
               \A T \in SUBSET (1 .. k) :
                   it[T] = IF T = {} THEN base ELSE G[it[T \ {Max(T)}]][s[Max(T)]]
           Solvable(k) == \E it \in [SUBSET (1 .. k) -> V] : Solves(it, k)
           Solved == {k \in Nat : k <= n => Solvable(k)}
<1>1. Solvable(0)
  <2> DEFINE it == [T \in SUBSET (1 .. 0) |-> base]
  <2>1. it \in [SUBSET (1 .. 0) -> V] /\ \A T \in SUBSET (1 .. 0) : T = {} /\ it[T] = base
    OBVIOUS
  <2>2. Solves(it, 0)
    BY <2>1
  <2> HIDE DEF it, Solves
  <2> QED
    BY <2>1, <2>2
<1>2. ASSUME NEW k \in Nat, k + 1 <= n, Solvable(k) PROVE Solvable(k + 1)
  <2>1. PICK old \in [SUBSET (1 .. k) -> V] : Solves(old, k)
    BY <1>2
  <2> DEFINE new == [T \in SUBSET (1 .. k + 1) |->
                        IF T = {} THEN base ELSE G[old[T \ {Max(T)}]][s[Max(T)]]]
  <2>2. ASSUME NEW T \in SUBSET (1 .. k + 1), T # {}
        PROVE  /\ Max(T) \in 1 .. n
               /\ T \ {Max(T)} \in SUBSET (1 .. k)
    <3> HIDE DEF Solves, new
    <3>0. k + 1 \in Nat
      OBVIOUS
    <3>1. Max(T) \in T /\ \A y \in T : Max(T) >= y
      BY <2>2, <3>0, MaxOfPart
    <3> DEFINE m == Max(T)
    <3>2. m \in 1 .. k + 1 /\ \A y \in T : m >= y
      BY <3>1
    <3> HIDE DEF m
    <3>3. m \in 1 .. n
      BY <1>2, <3>2
    <3>4. ASSUME NEW y \in T \ {m} PROVE y \in 1 .. k
      BY <3>2
    <3> QED
      BY <3>3, <3>4 DEF m
  <2>3. new \in [SUBSET (1 .. k + 1) -> V]
    <3> SUFFICES ASSUME NEW T \in SUBSET (1 .. k + 1), T # {}
                 PROVE  G[old[T \ {Max(T)}]][s[Max(T)]] \in V
      OBVIOUS
    <3> HIDE DEF Solves, new
    <3>1. old[T \ {Max(T)}] \in V /\ s[Max(T)] \in D
      BY <2>2
    <3>2. \A v \in V, d \in D : G[v][d] \in V
      OBVIOUS
    <3> QED
      BY <3>1, <3>2
  <2>4. ASSUME NEW T \in SUBSET (1 .. k) PROVE new[T] = old[T]
    <3>1. T \in SUBSET (1 .. k + 1)
      OBVIOUS
    <3>2. old[T] = IF T = {} THEN base ELSE G[old[T \ {Max(T)}]][s[Max(T)]]
      BY <2>1
    <3> HIDE DEF Solves
    <3> QED
      BY <3>1, <3>2
  <2>5. Solves(new, k + 1)
    <3> SUFFICES ASSUME NEW T \in SUBSET (1 .. k + 1)
                 PROVE  new[T] = IF T = {} THEN base ELSE G[new[T \ {Max(T)}]][s[Max(T)]]
      OBVIOUS
    <3> HIDE DEF Solves
    <3>1. T # {} => new[T \ {Max(T)}] = old[T \ {Max(T)}]
      <4> HIDE DEF new
      <4> QED
        BY <2>2, <2>4
    <3> QED
      BY <3>1
  <2> HIDE DEF new, Solves
  <2> QED
    BY <2>3, <2>5
<1>3. Solvable(n)
  <2> HIDE DEF Solvable
  <2>1. 0 \in Solved
    BY <1>1
  <2>2. ASSUME NEW k \in Nat, k \in Solved PROVE k + 1 \in Solved
    BY <1>2, <2>2
  <2> HIDE DEF Solved
  <2>3. Nat \subseteq Solved
    BY <2>1, <2>2, NatSet
  <2> QED
    BY <2>3 DEF Solved
<1>4. PICK it \in [SUBSET (1 .. n) -> V] : Solves(it, n)
  <2> HIDE DEF Solves
  <2> QED
    BY <1>3
<1> QED
  BY <1>4 DEF Recursion

\* Any solution, along the initial segments.
LEMMA FoldTrace ==
    ASSUME NEW V, NEW base \in V, NEW D, NEW n \in Nat, NEW s \in [1 .. n -> D],
           NEW G \in [V -> [D -> V]], NEW it,
           Recursion(it, V, base, n, s, G)
    PROVE  Unrolls(it, V, base, n, s, G)
<1> DEFINE InV(k) == it[1 .. k] \in V
           S == {k \in Nat : k <= n => InV(k)}
           h == [k \in 0 .. n |-> it[1 .. k]]
<1>1. it[1 .. 0] = base
  <2>1. 1 .. 0 = {}
    OBVIOUS
  <2> QED
    BY <2>1 DEF Recursion
<1>2. ASSUME NEW k \in 1 .. n, InV(k - 1)
      PROVE  it[1 .. k] = G[it[1 .. k - 1]][s[k]]
  <2>1. Max(1 .. k) = k
    <3>1. k \in Nat /\ k > 0
      OBVIOUS
    <3> QED
      BY <3>1, MaxOfInterval
  <2>2. (1 .. k) \ {k} = 1 .. k - 1
    <3>1. k \in Nat
      OBVIOUS
    <3> QED
      BY <3>1, IntervalWithoutLast
  <2>3. 1 .. k \in SUBSET (1 .. n)
    OBVIOUS
  <2>4. k \in 1 .. k
    OBVIOUS
  <2> QED
    BY <1>2, <2>1, <2>2, <2>3, <2>4 DEF Recursion
<1>3. 0 \in S
  BY <1>1
<1>4. ASSUME NEW k \in Nat, k \in S PROVE k + 1 \in S
  <2> SUFFICES ASSUME k + 1 <= n PROVE InV(k + 1)
    OBVIOUS
  <2>1. k + 1 \in 1 .. n /\ (k + 1) - 1 = k /\ InV(k)
    BY <1>4
  <2>2. it[1 .. k + 1] = G[it[1 .. k]][s[k + 1]] /\ s[k + 1] \in D
    BY <1>2, <2>1
  <2> QED
    BY <2>1, <2>2
<1>5. \A k \in 0 .. n : InV(k)
  <2>1. Nat \subseteq S
    <3> HIDE DEF S
    <3> QED
      BY <1>3, <1>4, NatSet
  <2> HIDE DEF InV
  <2> QED
    BY <2>1
<1>6. h \in [0 .. n -> V]
  BY <1>5
<1>7. \A k \in 1 .. n : h[k] = G[h[k - 1]][s[k]]
  <2> SUFFICES ASSUME NEW k \in 1 .. n PROVE h[k] = G[h[k - 1]][s[k]]
    OBVIOUS
  <2>1. k \in 0 .. n /\ k - 1 \in 0 .. n
    OBVIOUS
  <2>2. h[k] = it[1 .. k] /\ h[k - 1] = it[1 .. k - 1]
    BY <2>1
  <2> QED
    BY <1>2, <1>5, <2>1, <2>2
<1>8. h[0] = base /\ h[n] = it[1 .. n]
  BY <1>1
<1> HIDE DEF h
<1> QED
  BY <1>6, <1>7, <1>8 DEF Turns, Unrolls

\* The guarded UPDATEs of a claim, one after the other: h[k] is the step table
\* after the first k candidates.
LEMMA ClaimTrace ==
    ASSUME NEW st \in [Runs -> Statuses], NEW o \in Seq(Runs)
    PROVE  \E h \in [0 .. Len(o) -> [Runs -> Statuses]] :
               /\ h[0] = st /\ h[Len(o)] = FoldLeft(ClaimStep, st, o)
               /\ \A k \in 1 .. Len(o) : h[k] = ClaimStep(h[k - 1], o[k])
<1> DEFINE n == Len(o)
           V == [Runs -> Statuses]
           G == [v \in V |-> [r \in Runs |-> ClaimStep(v, r)]]
           Rec(it) == it = [T \in SUBSET (1 .. n) |->
                               IF T = {} THEN st ELSE ClaimStep(it[T \ {Max(T)}], o[Max(T)])]
           it == CHOOSE it : Rec(it)
<1>1. G \in [V -> [Runs -> V]]
  BY DEF ClaimStep, Statuses
<1>2. n \in Nat /\ o \in [1 .. n -> Runs] /\ DOMAIN o = 1 .. n
  OBVIOUS
<1>3. \A x \in V, r \in Runs : G[x][r] = ClaimStep(x, r)
  OBVIOUS
<1>4. ASSUME NEW T \in SUBSET (1 .. n), T # {} PROVE Max(T) \in 1 .. n /\ o[Max(T)] \in Runs
  <2> HIDE DEF n, G, it, Rec
  <2>1. Max(T) \in T
    BY <1>2, <1>4, MaxOfPart
  <2> QED
    BY <1>2, <2>1
<1>5. FoldLeft(ClaimStep, st, o) = it[1 .. n]
  BY <1>2 DEF FoldLeft, MapThenFoldSet
<1> HIDE DEF G, V, n
<1>6. \E f : Rec(f)
  <2>1. PICK f \in [SUBSET (1 .. n) -> V] : Recursion(f, V, st, n, o, G)
    <3> HIDE DEF Rec, it
    <3>1. st \in V
      BY DEF V
    <3> QED
      BY <1>1, <1>2, <3>1, FoldExists
  <2>2. ASSUME NEW T \in SUBSET (1 .. n)
        PROVE  f[T] = IF T = {} THEN st ELSE ClaimStep(f[T \ {Max(T)}], o[Max(T)])
    <3> HIDE DEF Rec, it
    <3>1. f[T \ {Max(T)}] \in V
      <4>1. T \ {Max(T)} \in SUBSET (1 .. n)
        OBVIOUS
      <4> QED
        BY <4>1
    <3>2. T # {} => G[f[T \ {Max(T)}]][o[Max(T)]] = ClaimStep(f[T \ {Max(T)}], o[Max(T)])
      BY <1>3, <1>4, <3>1
    <3> QED
      BY <2>1, <3>2 DEF Recursion
  <2>3. Rec(f)
    <3> HIDE DEF it
    <3>1. f = [T \in SUBSET (1 .. n) |-> f[T]]
      OBVIOUS
    <3> QED
      BY <2>2, <3>1
  <2> HIDE DEF Rec, it
  <2> QED
    BY <2>3
<1>7. Rec(it)
  <2> HIDE DEF Rec
  <2> QED
    BY <1>6
<1> HIDE DEF it
<1>8. it[{}] = st
  BY <1>7
<1>9. ASSUME NEW T \in SUBSET (1 .. n), T # {}, it[T \ {Max(T)}] \in V
      PROVE  it[T] = G[it[T \ {Max(T)}]][o[Max(T)]]
  <2>1. it[T] = ClaimStep(it[T \ {Max(T)}], o[Max(T)])
    BY <1>7, <1>9
  <2> QED
    BY <1>3, <1>4, <1>9, <2>1
<1>10. st \in V /\ Recursion(it, V, st, n, o, G)
  BY <1>8, <1>9 DEF V, Recursion
<1>11. PICK h \in [0 .. n -> V] : h[n] = it[1 .. n] /\ Turns(h, st, n, o, G)
  <2> HIDE DEF Rec
  <2>1. Unrolls(it, V, st, n, o, G)
    BY <1>1, <1>2, <1>10, FoldTrace
  <2> QED
    BY <2>1 DEF Unrolls
<1>12. ASSUME NEW k \in 1 .. n PROVE h[k] = ClaimStep(h[k - 1], o[k])
  <2>1. k - 1 \in 0 .. n
    BY <1>2
  <2>2. h[k - 1] \in V /\ o[k] \in Runs
    BY <1>2, <2>1
  <2> QED
    BY <1>3, <1>11, <2>2 DEF Turns
<1> QED
  BY <1>5, <1>11, <1>12 DEF n, V, Turns

-----------------------------------------------------------------------------
(* Counting.                                                               *)

\* Distinct numbers from an interval are no more than the interval has.
LEMMA CountByRank ==
    ASSUME NEW S, NEW a \in Int, NEW b \in Int, a <= b + 1, NEW rank \in [S -> a .. b],
           \A x, y \in S : rank[x] = rank[y] => x = y
    PROVE  IsFiniteSet(S) /\ Cardinality(S) \in Nat /\ Cardinality(S) <= b - a + 1
<1>1. rank \in Injection(S, a .. b)
  BY DEF Injection, IsInjective
<1>2. IsFiniteSet(a .. b) /\ Cardinality(a .. b) = b - a + 1
  BY FS_Interval
<1> QED
  BY <1>1, <1>2, FS_Injection, FS_CardinalityType

Ahead(S, f, x) == Cardinality({y \in S : f[y] < f[x]})

\* A place in line is a number below the length of the line, and nobody shares one.
LEMMA PlaceInLine ==
    ASSUME NEW S \in SUBSET Runs, IsFiniteSet(S), NEW f \in [Runs -> Nat],
           \A x, y \in S : f[x] = f[y] => x = y
    PROVE  /\ \A x \in S : Ahead(S, f, x) \in 0 .. Cardinality(S) - 1
           /\ \A x, y \in S : Ahead(S, f, x) = Ahead(S, f, y) => x = y
<1> DEFINE B(x) == {y \in S : f[y] < f[x]}
<1>0. Cardinality(S) \in Nat
  BY FS_CardinalityType
<1>1. ASSUME NEW x \in S
      PROVE  /\ IsFiniteSet(B(x)) /\ Cardinality(B(x)) \in Nat
             /\ IsFiniteSet(B(x) \cup {x}) /\ Cardinality(B(x) \cup {x}) = Cardinality(B(x)) + 1
  <2>1. B(x) \in SUBSET S /\ x \notin B(x)
    OBVIOUS
  <2> HIDE DEF B
  <2>2. IsFiniteSet(B(x))
    BY <2>1, FS_Subset
  <2> QED
    BY <2>1, <2>2, FS_AddElement, FS_CardinalityType
<1>2. ASSUME NEW x \in S PROVE Cardinality(B(x)) \in 0 .. Cardinality(S) - 1
  <2>1. B(x) \cup {x} \in SUBSET S
    OBVIOUS
  <2> HIDE DEF B
  <2>2. Cardinality(B(x) \cup {x}) <= Cardinality(S)
    BY <2>1, FS_Subset
  <2> QED
    BY <1>0, <1>1, <2>2
<1>3. ASSUME NEW x \in S, NEW y \in S, f[x] < f[y] PROVE Cardinality(B(x)) < Cardinality(B(y))
  <2>1. B(x) \cup {x} \in SUBSET B(y)
    BY <1>3
  <2> HIDE DEF B
  <2>2. Cardinality(B(x) \cup {x}) <= Cardinality(B(y))
    BY <1>1, <2>1, FS_Subset
  <2>3. /\ Cardinality(B(x) \cup {x}) = Cardinality(B(x)) + 1
        /\ Cardinality(B(x)) \in Nat /\ Cardinality(B(y)) \in Nat
    BY <1>1
  <2> QED
    BY <2>2, <2>3
<1>4. ASSUME NEW x \in S, NEW y \in S, Cardinality(B(x)) = Cardinality(B(y)) PROVE x = y
  <2>1. f[x] \in Nat /\ f[y] \in Nat /\ Cardinality(B(x)) \in Nat
    BY <1>1
  <2> HIDE DEF B
  <2>2. ~(f[x] < f[y]) /\ ~(f[y] < f[x])
    BY <1>3, <1>4, <2>1
  <2>3. f[x] = f[y]
    BY <2>1, <2>2
  <2> QED
    BY <2>3
<1> QED
  BY <1>2, <1>4 DEF Ahead

\* Somebody is last in line.
LEMMA LastInLine ==
    ASSUME NEW S \in SUBSET Runs, IsFiniteSet(S), S # {}, NEW f \in [Runs -> Nat]
    PROVE  \E x \in S : \A y \in S : f[y] <= f[x]
<1> DEFINE A(x) == {y \in S : f[x] < f[y]}
           N == {Cardinality(A(x)) : x \in S}
<1>1. ASSUME NEW x \in S PROVE A(x) \in SUBSET S /\ IsFiniteSet(A(x)) /\ Cardinality(A(x)) \in Nat
  <2>1. A(x) \in SUBSET S
    OBVIOUS
  <2> HIDE DEF A
  <2> QED
    BY <2>1, FS_Subset, FS_CardinalityType
<1>2. N # {} /\ N \subseteq Nat
  <2> HIDE DEF A
  <2> QED
    BY <1>1
<1>3. PICK m \in N : \A k \in N : ~(<<k, m>> \in OpToRel(<, Nat))
  BY <1>2, NatLessThanWellFounded, WFMin
<1>4. PICK x \in S : m = Cardinality(A(x))
  OBVIOUS
<1>5. ASSUME NEW y \in S, f[x] < f[y] PROVE FALSE
  <2>1. A(y) \in SUBSET A(x) /\ y \in A(x) /\ y \notin A(y)
    BY <1>5
  <2> HIDE DEF A
  <2>2. Cardinality(A(y)) < Cardinality(A(x))
    <3>1. IsFiniteSet(A(x)) /\ Cardinality(A(x)) \in Nat /\ Cardinality(A(y)) \in Nat
      BY <1>1
    <3>2. A(y) # A(x)
      BY <2>1
    <3>3. Cardinality(A(y)) <= Cardinality(A(x))
          /\ (Cardinality(A(y)) = Cardinality(A(x)) => A(y) = A(x))
      BY <2>1, <3>1, FS_Subset
    <3> QED
      BY <3>1, <3>2, <3>3
  <2>3. <<Cardinality(A(y)), m>> \in OpToRel(<, Nat)
    BY <1>1, <1>4, <2>2 DEF OpToRel
  <2> QED
    BY <1>3, <2>3
<1> QED
  BY <1>5

-----------------------------------------------------------------------------
(* The turns of createRunsUniqueTx.                                        *)

Views == [run : [Runs -> Statuses], seq : [Runs -> Nat], next : Nat, plan : Plans]

\* The strategy picks among the live runs of the key.
LEMMA VictimsLive ==
    ASSUME req \in [Runs -> Request], IsFiniteSet(Runs), NEW db \in Views, NEW r \in Runs, Strategic(r)
    PROVE  Victims(db, r) \subseteq {x \in Runs : db.run[x] \in Live /\ req[x].key = req[r].key}
<1> DEFINE cands == {x \in LiveRuns(db) : req[x].key = req[r].key}
<1>1. /\ cands \in SUBSET Runs /\ IsFiniteSet(cands) /\ Cardinality(cands) \in Nat
      /\ cands = {x \in Runs : db.run[x] \in Live /\ req[x].key = req[r].key}
  <2>1. cands \in SUBSET Runs /\ cands = {x \in Runs : db.run[x] \in Live /\ req[x].key = req[r].key}
    BY DEF LiveRuns
  <2> HIDE DEF cands
  <2> QED
    BY <2>1, FS_Subset, FS_CardinalityType
<1>2. req[r].strategy \in Strategies \ {"hold"} /\ req[r].limit \in Nat
  BY DEF Strategic, Request
<1>3. db.seq \in [Runs -> Nat]
  BY DEF Views
<1> DEFINE over == Cardinality(cands) - req[r].limit
<1>7. over \in Int
  BY <1>1, <1>2
<1>4. CASE ~(over > 0)
  <2>1. over <= 0
    BY <1>4, <1>7
  <2>2. Victims(db, r) = {}
    BY <1>4, <2>1 DEF Victims
  <2> QED
    BY <2>2
<1>5. CASE over > 0 /\ req[r].strategy = "cancelNewest"
  <2> DEFINE new == CHOOSE x \in cands : \A y \in cands : db.seq[y] <= db.seq[x]
  <2>1. Victims(db, r) = {new}
    BY <1>5 DEF Victims
  <2>2. cands # {}
    <3> HIDE DEF cands
    <3> QED
      BY <1>1, <1>2, <1>5, FS_EmptySet
  <2>3. \E x \in cands : \A y \in cands : db.seq[y] <= db.seq[x]
    <3> HIDE DEF cands
    <3> QED
      BY <1>1, <1>3, <2>2, LastInLine
  <2>4. new \in cands
    <3> HIDE DEF cands
    <3> QED
      BY <2>3
  <2> QED
    BY <1>1, <2>1, <2>4
<1>6. CASE over > 0 /\ req[r].strategy # "cancelNewest"
  <2>1. Victims(db, r) \subseteq cands
    <3>1. CASE req[r].strategy = "cancelInProgress"
      BY <1>6, <3>1 DEF Victims
    <3>2. CASE req[r].strategy = "exceptNewest"
      BY <1>6, <3>2 DEF Victims
    <3>3. CASE req[r].strategy = "exceptOldest"
      BY <1>6, <3>3 DEF Victims
    <3> QED
      BY <1>2, <1>6, <3>1, <3>2, <3>3 DEF Strategies
  <2> QED
    BY <1>1, <2>1
<1> QED
  BY <1>4, <1>5, <1>6

\* What each write of a turn changes in the view.
LEMMA InsertView ==
    ASSUME NEW db \in Views, NEW r \in Runs
    PROVE  LET d == Insert(db, r)
           IN /\ d \in Views /\ d.seq = db.seq /\ d.next = db.next
              /\ d.run = [db.run EXCEPT ![r] = "QUEUED"]
              /\ d.plan = [db.plan EXCEPT !.insert = @ \cup {r}]
<1> DEFINE d == Insert(db, r)
<1>1. d.run = [db.run EXCEPT ![r] = "QUEUED"] /\ d.seq = db.seq /\ d.next = db.next
  BY DEF Insert, Views
<1>2. d.plan = [db.plan EXCEPT !.insert = @ \cup {r}]
  BY DEF Insert, Views
<1>3. [db.run EXCEPT ![r] = "QUEUED"] \in [Runs -> Statuses]
  BY DEF Views, Statuses
<1>4. [db.plan EXCEPT !.insert = @ \cup {r}] \in Plans
  BY DEF Views, Plans
<1>5. d \in Views
  BY <1>3, <1>4 DEF Insert, Views
<1> QED
  BY <1>1, <1>2, <1>5

\* The runs a strategy strikes.
LEMMA CancelView ==
    ASSUME NEW db \in Views, NEW S \in SUBSET Runs
    PROVE  LET d == Cancel(db, S)
           IN /\ d \in Views /\ d.seq = db.seq /\ d.next = db.next
              /\ d.run = [x \in Runs |-> IF x \in S THEN "CANCELLED" ELSE db.run[x]]
              /\ d.plan = [db.plan EXCEPT !.cancel = @ \cup S]
BY DEF Cancel, Views, Plans, Statuses

\* The runs a unique key replaces.
LEMMA ReplaceView ==
    ASSUME NEW db \in Views, NEW S \in SUBSET Runs
    PROVE  LET d == Replace(db, S)
           IN /\ d \in Views /\ d.seq = db.seq /\ d.next = db.next
              /\ d.run = [x \in Runs |-> IF x \in S THEN "CANCELLED" ELSE db.run[x]]
              /\ d.plan = [db.plan EXCEPT !.replace = @ \cup S]
BY DEF Replace, Views, Plans, Statuses

\* The number a keyed run draws, whether or not it is inserted.
Drawn(db, r) == IF Keyed(r) THEN [db EXCEPT !.seq[r] = db.next + 1, !.next = @ + 1] ELSE db

\* Drawing a number changes nothing but the numbers.
LEMMA DrawnView ==
    ASSUME NEW db \in Views, NEW r \in Runs
    PROVE  /\ Drawn(db, r) \in Views /\ Drawn(db, r).run = db.run /\ Drawn(db, r).plan = db.plan
           /\ ~Keyed(r) => Drawn(db, r).next = db.next /\ Drawn(db, r).seq = db.seq
           /\ Keyed(r) => /\ Drawn(db, r).next = db.next + 1
                          /\ Drawn(db, r).seq = [db.seq EXCEPT ![r] = db.next + 1]
<1>1. CASE Keyed(r)
  <2> DEFINE d == [db EXCEPT !.seq[r] = db.next + 1, !.next = @ + 1]
  <2>1. Drawn(db, r) = d
    BY <1>1 DEF Drawn
  <2>2. [db.seq EXCEPT ![r] = db.next + 1] \in [Runs -> Nat] /\ db.next + 1 \in Nat
    BY DEF Views
  <2>3. d.seq = [db.seq EXCEPT ![r] = db.next + 1] /\ d.next = db.next + 1
    BY DEF Views
  <2>4. d.run = db.run /\ d.plan = db.plan
    BY DEF Views
  <2>5. d \in Views
    BY <2>2 DEF Views
  <2> QED
    BY <1>1, <2>1, <2>3, <2>4, <2>5
<1>2. CASE ~Keyed(r)
  BY <1>2 DEF Drawn
<1> QED
  BY <1>1, <1>2

\* The holders of r's unique key, the view between the insert of r and its
\* strategy, and the runs the strategy cancels.
Held(db, r) == IF req[r].unique = None THEN {} ELSE LiveRunByUnique(db, r)
Middle(db, r) == Insert(Replace(Drawn(db, r), Held(db, r)), r)
Struck(db, r) == IF Strategic(r) THEN Victims(Middle(db, r), r) ELSE {}

\* The view between the insert and the strategy.
LEMMA MiddleView ==
    ASSUME NEW db \in Views, NEW r \in Runs
    PROVE  /\ Middle(db, r) \in Views
           /\ Middle(db, r).seq = Drawn(db, r).seq /\ Middle(db, r).next = Drawn(db, r).next
           /\ Middle(db, r).run = [x \in Runs |-> IF x = r THEN "QUEUED"
                                     ELSE IF x \in Held(db, r) THEN "CANCELLED" ELSE db.run[x]]
           /\ Middle(db, r).plan = [db.plan EXCEPT !.insert = @ \cup {r}, !.replace = @ \cup Held(db, r)]
<1> DEFINE d1 == Drawn(db, r)
           d2 == Replace(d1, Held(db, r))
<1>1. Held(db, r) \in SUBSET Runs
  BY DEF Held, LiveRunByUnique, LiveRuns
<1>2. d1 \in Views /\ d1.run = db.run /\ d1.plan = db.plan
  BY DrawnView
<1>3. /\ d2 \in Views /\ d2.seq = d1.seq /\ d2.next = d1.next
      /\ d2.run = [x \in Runs |-> IF x \in Held(db, r) THEN "CANCELLED" ELSE d1.run[x]]
      /\ d2.plan = [d1.plan EXCEPT !.replace = @ \cup Held(db, r)]
  <2> HIDE DEF d1
  <2> QED
    BY <1>1, <1>2, ReplaceView
<1>4. LET d == Insert(d2, r)
      IN /\ d \in Views /\ d.seq = d2.seq /\ d.next = d2.next
         /\ d.run = [d2.run EXCEPT ![r] = "QUEUED"]
         /\ d.plan = [d2.plan EXCEPT !.insert = @ \cup {r}]
  <2> HIDE DEF d2
  <2> QED
    BY <1>3, InsertView
<1>5. Middle(db, r) = Insert(d2, r)
  BY DEF Middle
<1>6. db.plan \in Plans
  BY DEF Views
<1> DEFINE m == Insert(d2, r)
<1> HIDE DEF d1, d2
<1>7. m \in Views /\ m.seq = d1.seq /\ m.next = d1.next
  BY <1>3, <1>4
<1>8. m.run = [x \in Runs |-> IF x = r THEN "QUEUED"
                     ELSE IF x \in Held(db, r) THEN "CANCELLED" ELSE db.run[x]]
  BY <1>2, <1>3, <1>4
<1>9. m.plan = [db.plan EXCEPT !.insert = @ \cup {r}, !.replace = @ \cup Held(db, r)]
  <2>1. m.plan = [[db.plan EXCEPT !.replace = @ \cup Held(db, r)] EXCEPT !.insert = @ \cup {r}]
    BY <1>2, <1>3, <1>4
  <2> QED
    BY <1>6, <2>1 DEF Plans
<1> HIDE DEF m
<1>10. Middle(db, r) = m
  BY <1>5 DEF m
<1> QED
  BY <1>7, <1>8, <1>9, <1>10 DEF d1

\* The view after a turn that inserts r.
Inserts(db, r, d) ==
    /\ Held(db, r) # {} => req[r].conflict = "replace"
    /\ d.run = [x \in Runs |-> IF x \in Struck(db, r) THEN "CANCELLED"
                               ELSE IF x = r THEN "QUEUED"
                               ELSE IF x \in Held(db, r) THEN "CANCELLED" ELSE db.run[x]]
    /\ d.seq = Drawn(db, r).seq /\ d.next = Drawn(db, r).next
    /\ d.plan.insert = db.plan.insert \cup {r}
    /\ d.plan.cancel = db.plan.cancel \cup Struck(db, r)
    /\ d.plan.replace = db.plan.replace \cup Held(db, r)

\* A turn fails, draws a number and reuses the holder, or inserts.
LEMMA Turn ==
    ASSUME req \in [Runs -> Request], IsFiniteSet(Runs), NEW db \in Views, NEW r \in Runs
    PROVE  LET d == CreateRun(db, r)
           IN /\ d \in Views
              /\ \/ db.plan.error /\ d = db
                 \/ ~db.plan.error /\ d = Drawn(db, r)
                 \/ /\ d.plan.error /\ d.run = db.run /\ d.seq = db.seq /\ d.next = db.next
                    /\ d.plan.insert = db.plan.insert
                    /\ d.plan.cancel = db.plan.cancel /\ d.plan.replace = db.plan.replace
                 \/ ~db.plan.error /\ Inserts(db, r, d)
<1> DEFINE d == CreateRun(db, r)
           held == Held(db, r)
<1>0. db.plan.error \in BOOLEAN /\ req[r].conflict \in {"reuse", "error", "replace"}
  BY DEF Views, Plans, Request
<1>1. CASE db.plan.error
  <2>1. d = db
    BY <1>1 DEF CreateRun
  <2> HIDE DEF d
  <2> QED
    BY <1>1, <2>1 DEF d
<1>2. CASE ~db.plan.error /\ held # {} /\ req[r].conflict = "reuse"
  <2>1. d = Drawn(db, r)
    BY <1>2 DEF CreateRun, Drawn, Held
  <2> HIDE DEF d
  <2> QED
    BY <1>2, <2>1, DrawnView DEF d
<1>3. CASE ~db.plan.error /\ held # {} /\ req[r].conflict = "error"
  <2>1. d = [db EXCEPT !.plan.error = TRUE]
    BY <1>3 DEF CreateRun, Held
  <2> HIDE DEF d
  <2>2. d.run = db.run /\ d.seq = db.seq /\ d.next = db.next /\ d.plan = [db.plan EXCEPT !.error = TRUE]
    BY <2>1 DEF Views
  <2>3. [db.plan EXCEPT !.error = TRUE] \in Plans
    BY DEF Views, Plans
  <2>4. d \in Views
    BY <2>1, <2>3 DEF Views
  <2>5. /\ d.plan.error /\ d.plan.insert = db.plan.insert
        /\ d.plan.cancel = db.plan.cancel /\ d.plan.replace = db.plan.replace
    BY <2>2 DEF Views, Plans
  <2> QED
    BY <1>3, <2>2, <2>4, <2>5 DEF d
<1>4. CASE ~db.plan.error /\ (held # {} => req[r].conflict = "replace")
  <2> DEFINE m == Middle(db, r)
  <2>1. d = IF Strategic(r) THEN Cancel(m, Victims(m, r)) ELSE m
    <3>1. ~(held # {} /\ req[r].conflict = "reuse") /\ ~(held # {} /\ req[r].conflict = "error")
      BY <1>4
    <3> QED
      BY <1>4, <3>1 DEF CreateRun, Middle, Held, Drawn
  <2>2. /\ m \in Views /\ m.seq = Drawn(db, r).seq /\ m.next = Drawn(db, r).next
        /\ m.run = [x \in Runs |-> IF x = r THEN "QUEUED" ELSE IF x \in held THEN "CANCELLED" ELSE db.run[x]]
        /\ m.plan = [db.plan EXCEPT !.insert = @ \cup {r}, !.replace = @ \cup held]
    BY MiddleView
  <2>3. Struck(db, r) = IF Strategic(r) THEN Victims(m, r) ELSE {}
    BY DEF Struck
  <2> HIDE DEF d, m, held
  <2>4. /\ m.plan.insert = db.plan.insert \cup {r} /\ m.plan.replace = db.plan.replace \cup held
        /\ m.plan.cancel = db.plan.cancel /\ m.plan.error = db.plan.error
    BY <2>2 DEF Views, Plans
  <2>5. CASE Strategic(r)
    <3>1. Victims(m, r) \in SUBSET Runs
      BY <2>2, <2>5, VictimsLive
    <3> DEFINE V == Victims(m, r)
    <3>2. /\ d \in Views /\ d.seq = m.seq /\ d.next = m.next
          /\ d.run = [x \in Runs |-> IF x \in V THEN "CANCELLED" ELSE m.run[x]]
          /\ d.plan = [m.plan EXCEPT !.cancel = @ \cup V]
      <4> HIDE DEF V
      <4>1. d = Cancel(m, V)
        BY <2>1, <2>5 DEF V
      <4>2. V \in SUBSET Runs
        BY <3>1 DEF V
      <4>3. LET e == Cancel(m, V)
            IN /\ e \in Views /\ e.seq = m.seq /\ e.next = m.next
               /\ e.run = [x \in Runs |-> IF x \in V THEN "CANCELLED" ELSE m.run[x]]
               /\ e.plan = [m.plan EXCEPT !.cancel = @ \cup V]
        <5>1. m \in Views
          BY <2>2
        <5> QED
          BY <4>2, <5>1, CancelView
      <4> QED
        BY <4>1, <4>3
    <3>3. Struck(db, r) = V
      BY <2>3, <2>5
    <3> HIDE DEF V
    <3>4. /\ d.plan.insert = m.plan.insert /\ d.plan.replace = m.plan.replace
          /\ d.plan.cancel = m.plan.cancel \cup V
      BY <2>2, <3>2 DEF Views, Plans
    <3>5. d.run = [x \in Runs |-> IF x \in V THEN "CANCELLED" ELSE IF x = r THEN "QUEUED"
                                  ELSE IF x \in held THEN "CANCELLED" ELSE db.run[x]]
      BY <2>2, <3>2
    <3>6. Inserts(db, r, d)
      BY <1>4, <2>2, <2>4, <3>2, <3>3, <3>4, <3>5 DEF Inserts, held
    <3> QED
      BY <1>4, <3>2, <3>6 DEF d
  <2>6. CASE ~Strategic(r)
    <3>1. d = m /\ Struck(db, r) = {}
      BY <2>1, <2>3, <2>6
    <3>2. Inserts(db, r, d)
      BY <1>4, <2>2, <2>4, <3>1 DEF Inserts, held
    <3> QED
      BY <1>4, <2>2, <3>1, <3>2 DEF d
  <2> QED
    BY <2>5, <2>6
<1> QED
  BY <1>0, <1>1, <1>2, <1>3, <1>4

\* The turns of a transaction, one after the other: h[k] is the view after k.
LEMMA CreateTrace ==
    ASSUME req \in [Runs -> Request], IsFiniteSet(Runs),
           NEW st \in Views, NEW o \in Seq(Runs)
    PROVE  \E h \in [0 .. Len(o) -> Views] :
               /\ h[0] = st /\ h[Len(o)] = FoldLeft(CreateRun, st, o)
               /\ \A k \in 1 .. Len(o) : h[k] = CreateRun(h[k - 1], o[k])
<1> DEFINE n == Len(o)
           V == Views
           G == [v \in V |-> [r \in Runs |-> CreateRun(v, r)]]
           Rec(it) == it = [T \in SUBSET (1 .. n) |->
                               IF T = {} THEN st ELSE CreateRun(it[T \ {Max(T)}], o[Max(T)])]
           it == CHOOSE it : Rec(it)
<1>1. G \in [V -> [Runs -> V]]
  BY Turn
<1>2. n \in Nat /\ o \in [1 .. n -> Runs] /\ DOMAIN o = 1 .. n
  OBVIOUS
<1>3. \A x \in V, r \in Runs : G[x][r] = CreateRun(x, r)
  OBVIOUS
<1>4. ASSUME NEW T \in SUBSET (1 .. n), T # {} PROVE Max(T) \in 1 .. n /\ o[Max(T)] \in Runs
  <2> HIDE DEF n, G, it, Rec
  <2>1. Max(T) \in T
    BY <1>2, <1>4, MaxOfPart
  <2> QED
    BY <1>2, <2>1
<1>5. FoldLeft(CreateRun, st, o) = it[1 .. n]
  BY <1>2 DEF FoldLeft, MapThenFoldSet
<1> HIDE DEF G, V, n
<1>6. \E f : Rec(f)
  <2>1. PICK f \in [SUBSET (1 .. n) -> V] : Recursion(f, V, st, n, o, G)
    <3> HIDE DEF Rec, it
    <3>1. st \in V
      BY DEF V
    <3> QED
      BY <1>1, <1>2, <3>1, FoldExists
  <2>2. ASSUME NEW T \in SUBSET (1 .. n)
        PROVE  f[T] = IF T = {} THEN st ELSE CreateRun(f[T \ {Max(T)}], o[Max(T)])
    <3> HIDE DEF Rec, it
    <3>1. f[T \ {Max(T)}] \in V
      <4>1. T \ {Max(T)} \in SUBSET (1 .. n)
        OBVIOUS
      <4> QED
        BY <4>1
    <3>2. T # {} => G[f[T \ {Max(T)}]][o[Max(T)]] = CreateRun(f[T \ {Max(T)}], o[Max(T)])
      BY <1>3, <1>4, <3>1
    <3> QED
      BY <2>1, <3>2 DEF Recursion
  <2>3. Rec(f)
    <3> HIDE DEF it
    <3>1. f = [T \in SUBSET (1 .. n) |-> f[T]]
      OBVIOUS
    <3> QED
      BY <2>2, <3>1
  <2> HIDE DEF Rec, it
  <2> QED
    BY <2>3
<1>7. Rec(it)
  <2> HIDE DEF Rec
  <2> QED
    BY <1>6
<1> HIDE DEF it
<1>8. it[{}] = st
  BY <1>7
<1>9. ASSUME NEW T \in SUBSET (1 .. n), T # {}, it[T \ {Max(T)}] \in V
      PROVE  it[T] = G[it[T \ {Max(T)}]][o[Max(T)]]
  <2>1. it[T] = CreateRun(it[T \ {Max(T)}], o[Max(T)])
    BY <1>7, <1>9
  <2> QED
    BY <1>3, <1>4, <1>9, <2>1
<1>10. st \in V /\ Recursion(it, V, st, n, o, G)
  BY <1>8, <1>9 DEF V, Recursion
<1>11. PICK h \in [0 .. n -> V] : h[n] = it[1 .. n] /\ Turns(h, st, n, o, G)
  <2> HIDE DEF Rec
  <2>1. Unrolls(it, V, st, n, o, G)
    BY <1>1, <1>2, <1>10, FoldTrace
  <2> QED
    BY <2>1 DEF Unrolls
<1>12. ASSUME NEW k \in 1 .. n PROVE h[k] = CreateRun(h[k - 1], o[k])
  <2>1. k - 1 \in 0 .. n
    BY <1>2
  <2>2. h[k - 1] \in V /\ o[k] \in Runs
    BY <1>2, <2>1
  <2> QED
    BY <1>3, <1>11, <2>2 DEF Turns
<1> QED
  BY <1>5, <1>11, <1>12 DEF n, V, Turns


\* What the first k turns leave behind.
KeyedIn(b, k) == {i \in 1 .. k : Keyed(b[i])}
Named(b, k)   == {b[i] : i \in 1 .. k}

ViewOk(db, b, k) ==
    /\ Grounded(db.plan, Named(b, k))
    /\ db.run = Planned(db.plan)
    /\ Numbers(db.run, db.seq, db.next) /\ counter <= db.next
    /\ \A x \in db.plan.insert : Keyed(x) => counter < db.seq[x]
    /\ ~db.plan.error => db.next = counter + Cardinality(KeyedIn(b, k))
    /\ OneEach(db.run)

\* The numbers drawn up to a turn.
LEMMA KeyedCount ==
    ASSUME NEW b, NEW k \in Nat, k > 0
    PROVE  /\ Cardinality(KeyedIn(b, k - 1)) \in Nat
           /\ Cardinality(KeyedIn(b, k)) = Cardinality(KeyedIn(b, k - 1)) + (IF Keyed(b[k]) THEN 1 ELSE 0)
<1> DEFINE K == KeyedIn(b, k - 1)
<1>1. K \in SUBSET (1 .. k - 1) /\ k \notin K
  BY DEF KeyedIn
<1>2. IsFiniteSet(1 .. k - 1)
  BY FS_Interval
<1>3. KeyedIn(b, k) = IF Keyed(b[k]) THEN K \cup {k} ELSE K
  <2>1. \A i \in Int : i \in 1 .. k <=> i \in 1 .. k - 1 \/ i = k
    OBVIOUS
  <2> QED
    BY <2>1 DEF KeyedIn
<1> HIDE DEF K
<1>4. IsFiniteSet(K) /\ Cardinality(K) \in Nat
  BY <1>1, <1>2, FS_Subset, FS_CardinalityType
<1>5. Cardinality(K \cup {k}) = Cardinality(K) + 1
  BY <1>1, <1>4, FS_AddElement
<1> QED
  BY <1>3, <1>4, <1>5 DEF K

\* One more run gets the next number.
Grows(st, num, last, r, st2, num2, last2) ==
    /\ num \in [Runs -> Nat] /\ last \in Nat /\ Numbers(st, num, last) /\ r \in Runs
    /\ num2 \in [Runs -> Nat] /\ last2 \in Nat /\ last <= last2
    /\ \A x \in Runs : st2[x] # "NEW" => x = r \/ st[x] # "NEW"
    /\ \A x \in Runs : x # r => num2[x] = num[x]
    /\ Keyed(r) /\ st2[r] # "NEW" => num2[r] = last + 1 /\ last2 = last + 1

\* The numbers stay distinct.
LEMMA NumbersGrow ==
    ASSUME NEW st, NEW num, NEW last, NEW r, NEW st2, NEW num2, NEW last2,
           Grows(st, num, last, r, st2, num2, last2)
    PROVE  Numbers(st2, num2, last2)
<1>0. /\ num \in [Runs -> Nat] /\ last \in Nat /\ Numbers(st, num, last) /\ r \in Runs
      /\ num2 \in [Runs -> Nat] /\ last2 \in Nat /\ last <= last2
      /\ \A x \in Runs : st2[x] # "NEW" => x = r \/ st[x] # "NEW"
      /\ \A x \in Runs : x # r => num2[x] = num[x]
      /\ Keyed(r) /\ st2[r] # "NEW" => num2[r] = last + 1 /\ last2 = last + 1
  BY DEF Grows
<1>1. ASSUME NEW x \in Runs, x # r, st2[x] # "NEW", Keyed(x) PROVE num2[x] = num[x] /\ num[x] <= last
  BY <1>1, <1>0 DEF Numbers
<1>2. ASSUME NEW x \in Runs, st2[x] # "NEW", Keyed(x) PROVE num2[x] <= last2
  <2>1. CASE x = r
    BY <1>0, <1>2, <2>1
  <2>2. CASE x # r
    <3>1. num2[x] = num[x] /\ num[x] <= last /\ num[x] \in Nat
      BY <1>1, <1>2, <1>0, <2>2
    <3> QED
      BY <1>0, <3>1
  <2> QED
    BY <2>1, <2>2
<1>3. ASSUME NEW x \in Runs, NEW y \in Runs, x # y, st2[x] # "NEW", st2[y] # "NEW", Keyed(x), Keyed(y)
      PROVE  num2[x] # num2[y]
  <2>1. CASE x = r
    <3>1. num2[y] = num[y] /\ num[y] <= last /\ num2[x] = last + 1 /\ num[y] \in Nat
      BY <1>1, <1>3, <1>0, <2>1
    <3> QED
      BY <1>0, <3>1
  <2>2. CASE y = r
    <3>1. num2[x] = num[x] /\ num[x] <= last /\ num2[y] = last + 1 /\ num[x] \in Nat
      BY <1>1, <1>3, <1>0, <2>2
    <3> QED
      BY <1>0, <3>1
  <2>3. CASE x # r /\ y # r
    <3>1. num[x] # num[y]
      BY <1>3, <1>0, <2>3 DEF Numbers
    <3> QED
      BY <1>1, <1>3, <2>3, <3>1
  <2> QED
    BY <2>1, <2>2, <2>3
<1> QED
  BY <1>2, <1>3 DEF Numbers

\* One turn, for a run that is new and not yet in the view.
LEMMA ViewStep ==
    ASSUME Typed, IsFiniteSet(Runs), NEW b \in Seq(Runs), NEW k \in 1 .. Len(b), NEW db \in Views,
           \A i \in 1 .. Len(b) : run[b[i]] = "NEW",
           \A i, j \in 1 .. Len(b) : b[i] = b[j] => i = j,
           ViewOk(db, b, k - 1)
    PROVE  ViewOk(CreateRun(db, b[k]), b, k)
<1> DEFINE r == b[k]
           d == CreateRun(db, r)
<1>1. r \in Runs /\ run[r] = "NEW" /\ Named(b, k) = Named(b, k - 1) \cup {r} /\ r \notin Named(b, k - 1)
  <2>1. b[k] \in Runs
    OBVIOUS
  <2>2. 1 .. k = (1 .. k - 1) \cup {k}
    OBVIOUS
  <2>3. \A i \in 1 .. k - 1 : i \in 1 .. Len(b) /\ i # k
    OBVIOUS
  <2> QED
    BY <2>1, <2>2, <2>3 DEF Named
<1>2. req \in [Runs -> Request] /\ run \in [Runs -> Statuses] /\ counter \in Nat
  BY DEF Typed
<1>3. /\ d \in Views
      /\ \/ db.plan.error /\ d = db
         \/ ~db.plan.error /\ d = Drawn(db, r)
         \/ /\ d.plan.error /\ d.run = db.run /\ d.seq = db.seq /\ d.next = db.next
            /\ d.plan.insert = db.plan.insert
            /\ d.plan.cancel = db.plan.cancel /\ d.plan.replace = db.plan.replace
         \/ ~db.plan.error /\ Inserts(db, r, d)
  <2> HIDE DEF r
  <2> QED
    BY <1>1, <1>2, Turn
<1>4. /\ db.run \in [Runs -> Statuses] /\ db.seq \in [Runs -> Nat] /\ db.next \in Nat
      /\ db.plan.insert \in SUBSET Runs /\ db.plan.cancel \in SUBSET Runs /\ db.plan.replace \in SUBSET Runs
  BY DEF Views, Plans
<1>5. /\ Cardinality(KeyedIn(b, k - 1)) \in Nat
      /\ Cardinality(KeyedIn(b, k)) = Cardinality(KeyedIn(b, k - 1)) + (IF Keyed(r) THEN 1 ELSE 0)
  <2>1. k \in Nat /\ k > 0
    OBVIOUS
  <2> QED
    BY <2>1, KeyedCount
<1>6. /\ Grounded(db.plan, Named(b, k - 1)) /\ db.run = Planned(db.plan)
      /\ Numbers(db.run, db.seq, db.next) /\ counter <= db.next
      /\ \A x \in db.plan.insert : Keyed(x) => counter < db.seq[x]
      /\ ~db.plan.error => db.next = counter + Cardinality(KeyedIn(b, k - 1))
      /\ OneEach(db.run)
  BY DEF ViewOk
<1>7. r \notin db.plan.insert /\ r \notin db.plan.cancel \cup db.plan.replace
  BY <1>1, <1>4, <1>6 DEF Grounded
<1>8. db.run[r] = "NEW"
  BY <1>1, <1>6, <1>7 DEF Planned
<1>9. /\ Drawn(db, r).run = db.run /\ Drawn(db, r).plan = db.plan
      /\ ~Keyed(r) => Drawn(db, r).next = db.next /\ Drawn(db, r).seq = db.seq
      /\ Keyed(r) => /\ Drawn(db, r).next = db.next + 1
                     /\ Drawn(db, r).seq = [db.seq EXCEPT ![r] = db.next + 1]
  <2> HIDE DEF r
  <2> QED
    BY <1>1, DrawnView
<1> HIDE DEF r, d
\* The numbers after r has drawn one.
<1> DEFINE num == Drawn(db, r).seq
           last == Drawn(db, r).next
<1>11. /\ last \in Nat /\ db.next <= last /\ num \in [Runs -> Nat]
       /\ \A x \in Runs : x # r => num[x] = db.seq[x]
       /\ Keyed(r) => num[r] = db.next + 1 /\ last = db.next + 1
       /\ ~db.plan.error => last = counter + Cardinality(KeyedIn(b, k))
  <2>1. CASE Keyed(r)
    <3> HIDE DEF num, last
    <3>1. last = db.next + 1 /\ num = [db.seq EXCEPT ![r] = db.next + 1]
      BY <1>9, <2>1 DEF num, last
    <3>2. Cardinality(KeyedIn(b, k)) = Cardinality(KeyedIn(b, k - 1)) + 1
      BY <1>5, <2>1
    <3>3. ~db.plan.error => last = counter + Cardinality(KeyedIn(b, k))
      BY <1>2, <1>4, <1>5, <1>6, <3>1, <3>2
    <3>4. db.next + 1 \in Nat /\ db.next <= db.next + 1
      BY <1>4
    <3> QED
      BY <1>1, <1>4, <3>1, <3>3, <3>4
  <2>2. CASE ~Keyed(r)
    <3> HIDE DEF num, last
    <3>1. last = db.next /\ num = db.seq
      BY <1>9, <2>2 DEF num, last
    <3>2. Cardinality(KeyedIn(b, k)) = Cardinality(KeyedIn(b, k - 1))
      BY <1>5, <2>2
    <3> QED
      BY <1>4, <1>6, <2>2, <3>1, <3>2
  <2> QED
    BY <2>1, <2>2
<1>12. Grounded(db.plan, Named(b, k))
  BY <1>1, <1>6 DEF Grounded
<1>13. CASE db.plan.error /\ d = db
  BY <1>6, <1>12, <1>13 DEF ViewOk, d, r
<1>14. CASE ~db.plan.error /\ d = Drawn(db, r)
  <2>1. d.run = db.run /\ d.plan = db.plan /\ d.seq = num /\ d.next = last
    BY <1>9, <1>14
  <2> HIDE DEF num, last
  <2>2. Numbers(db.run, num, last)
    <3>1. \A x \in Runs : db.run[x] # "NEW" => x = r \/ db.run[x] # "NEW"
      OBVIOUS
    <3>2. Keyed(r) /\ db.run[r] # "NEW" => num[r] = db.next + 1 /\ last = db.next + 1
      BY <1>11
    <3>3. \A x \in Runs : x # r => num[x] = db.seq[x]
      BY <1>11
    <3>4. /\ db.seq \in [Runs -> Nat] /\ db.next \in Nat /\ num \in [Runs -> Nat] /\ last \in Nat
          /\ db.next <= last /\ r \in Runs /\ Numbers(db.run, db.seq, db.next)
      BY <1>1, <1>4, <1>6, <1>11
    <3>5. Grows(db.run, db.seq, db.next, r, db.run, num, last)
      BY <3>1, <3>2, <3>3, <3>4 DEF Grows
    <3> QED
      BY <3>5, NumbersGrow
  <2>3. \A x \in db.plan.insert : Keyed(x) => counter < num[x]
    BY <1>4, <1>6, <1>7, <1>11
  <2>4. counter <= last
    BY <1>2, <1>4, <1>6, <1>11
  <2> QED
    BY <1>6, <1>11, <1>12, <1>14, <2>1, <2>2, <2>3, <2>4 DEF ViewOk, d, r
<1>15. CASE /\ d.plan.error /\ d.run = db.run /\ d.seq = db.seq /\ d.next = db.next
            /\ d.plan.insert = db.plan.insert
            /\ d.plan.cancel = db.plan.cancel /\ d.plan.replace = db.plan.replace
  <2>1. Grounded(d.plan, Named(b, k))
    BY <1>12, <1>15 DEF Grounded
  <2>2. Planned(d.plan) = Planned(db.plan)
    BY <1>15 DEF Planned
  <2> QED
    BY <1>6, <1>15, <2>1, <2>2 DEF ViewOk, d, r
<1>16. CASE ~db.plan.error /\ Inserts(db, r, d)
  <2>1. Held(db, r) = {x \in Runs : /\ req[r].unique # None /\ req[x].unique = req[r].unique
                                   /\ db.run[x] \in Live}
    BY DEF Held, LiveRunByUnique, LiveRuns
  <2>2. \A x \in Struck(db, r) :
            x \in Runs /\ Strategic(r) /\ req[x].key = req[r].key /\ (x = r \/ db.run[x] \in Live)
    <3>1. CASE Strategic(r)
      <4>1. Struck(db, r) = Victims(Middle(db, r), r)
        BY <3>1 DEF Struck
      <4>2. Middle(db, r) \in Views
        BY <1>1, MiddleView
      <4>3. Middle(db, r).run = [x \in Runs |-> IF x = r THEN "QUEUED"
                                     ELSE IF x \in Held(db, r) THEN "CANCELLED" ELSE db.run[x]]
        BY <1>1, MiddleView
      <4>4. Victims(Middle(db, r), r)
              \subseteq {x \in Runs : Middle(db, r).run[x] \in Live /\ req[x].key = req[r].key}
        BY <1>1, <1>2, <3>1, <4>2, VictimsLive
      <4> SUFFICES ASSUME NEW x \in Victims(Middle(db, r), r)
                   PROVE  /\ x \in Runs /\ req[x].key = req[r].key
                          /\ x = r \/ db.run[x] \in Live
        BY <3>1, <4>1
      <4>5. x \in Runs /\ Middle(db, r).run[x] \in Live /\ req[x].key = req[r].key
        BY <4>4
      <4>6. Middle(db, r).run[x] = IF x = r THEN "QUEUED"
                                   ELSE IF x \in Held(db, r) THEN "CANCELLED" ELSE db.run[x]
        BY <4>3, <4>5
      <4> QED
        BY <4>5, <4>6 DEF Live
    <3>2. CASE ~Strategic(r)
      BY <3>2 DEF Struck
    <3> QED
      BY <3>1, <3>2
  <2> DEFINE H == Held(db, r)
             V == Struck(db, r)
  <2>3. /\ H # {} => req[r].conflict = "replace"
        /\ d.run = [x \in Runs |-> IF x \in V THEN "CANCELLED" ELSE IF x = r THEN "QUEUED"
                                  ELSE IF x \in H THEN "CANCELLED" ELSE db.run[x]]
        /\ d.seq = num /\ d.next = last
        /\ d.plan.insert = db.plan.insert \cup {r}
        /\ d.plan.cancel = db.plan.cancel \cup V /\ d.plan.replace = db.plan.replace \cup H
    BY <1>16 DEF Inserts
  <2> HIDE DEF H, V, num, last
  <2>4. H = {x \in Runs : /\ req[r].unique # None /\ req[x].unique = req[r].unique /\ db.run[x] \in Live}
    BY <2>1 DEF H
  <2>5. \A x \in V : x \in Runs /\ (x = r \/ db.run[x] \in Live)
    BY <2>2 DEF V
  <2>5a. \A x \in V : Strategic(r) /\ req[x].key = req[r].key
    BY <2>2 DEF V
  <2>6. \A x \in Runs : db.run[x] \in Live => x # r /\ (run[x] # "NEW" \/ x \in db.plan.insert)
    BY <1>6, <1>8 DEF Planned, Live
  <2>7. Grounded(d.plan, Named(b, k))
    <3>1. d.plan.insert \subseteq Named(b, k)
      BY <1>1, <1>6, <2>3 DEF Grounded
    <3>2. \A x \in d.plan.cancel \cup d.plan.replace : run[x] # "NEW" \/ x \in d.plan.insert
      <4> SUFFICES ASSUME NEW x \in d.plan.cancel \cup d.plan.replace, x # r
                   PROVE  run[x] # "NEW" \/ x \in db.plan.insert
        BY <2>3
      <4>1. CASE x \in db.plan.cancel \cup db.plan.replace
        BY <1>6, <4>1 DEF Grounded
      <4>2. CASE x \in V \cup H
        <5>1. x \in Runs /\ db.run[x] \in Live
          BY <2>4, <2>5, <4>2
        <5> QED
          BY <2>6, <5>1
      <4> QED
        BY <2>3, <4>1, <4>2
    <3>3. \A x \in d.plan.cancel : \E y \in Runs : Strategic(y) /\ req[x].key = req[y].key
      <4>1. \A x \in db.plan.cancel : \E y \in Runs : Strategic(y) /\ req[x].key = req[y].key
        BY <1>6 DEF Grounded
      <4>2. \A x \in V : \E y \in Runs : Strategic(y) /\ req[x].key = req[y].key
        BY <1>1, <2>5a
      <4> QED
        BY <2>3, <4>1, <4>2
    <3>4. \A x \in d.plan.replace : \E y \in Runs : /\ req[y].conflict = "replace" /\ req[y].unique # None
                                                   /\ req[x].unique = req[y].unique
      BY <1>1, <1>6, <2>3, <2>4 DEF Grounded
    <3> QED
      BY <3>1, <3>2, <3>3, <3>4 DEF Grounded
  <2>8. d.run = Planned(d.plan)
    <3>1. \A x \in Runs : d.run[x] = Planned(d.plan)[x]
      <4> SUFFICES ASSUME NEW x \in Runs PROVE d.run[x] = Planned(d.plan)[x]
        OBVIOUS
      <4>1. Planned(d.plan)[x] = IF x \in d.plan.cancel \cup d.plan.replace THEN "CANCELLED"
                                 ELSE IF x \in d.plan.insert THEN "QUEUED" ELSE run[x]
        BY DEF Planned
      <4>2. db.run[x] = IF x \in db.plan.cancel \cup db.plan.replace THEN "CANCELLED"
                        ELSE IF x \in db.plan.insert THEN "QUEUED" ELSE run[x]
        BY <1>6 DEF Planned
      <4> QED
        BY <1>7, <2>3, <2>4, <2>6, <4>1, <4>2
    <3>2. d.run \in [Runs -> Statuses]
      BY <1>3 DEF Views
    <3>3. Planned(d.plan) = [x \in Runs |-> Planned(d.plan)[x]]
      BY DEF Planned
    <3> QED
      BY <3>1, <3>2, <3>3
  <2>9. \A x \in Runs : d.run[x] # "NEW" => x = r \/ db.run[x] # "NEW"
    BY <2>3, <2>4, <2>5 DEF Live
  <2>10. Numbers(d.run, num, last)
    <3>2. Keyed(r) /\ d.run[r] # "NEW" => num[r] = db.next + 1 /\ last = db.next + 1
      BY <1>11
    <3>3. \A x \in Runs : x # r => num[x] = db.seq[x]
      BY <1>11
    <3>4. /\ db.seq \in [Runs -> Nat] /\ db.next \in Nat /\ num \in [Runs -> Nat] /\ last \in Nat
          /\ db.next <= last /\ r \in Runs /\ Numbers(db.run, db.seq, db.next)
      BY <1>1, <1>4, <1>6, <1>11
    <3>5. Grows(db.run, db.seq, db.next, r, d.run, num, last)
      BY <2>9, <3>2, <3>3, <3>4 DEF Grows
    <3> QED
      BY <3>5, NumbersGrow
  <2>11. \A x \in d.plan.insert : Keyed(x) => counter < num[x]
    <3> SUFFICES ASSUME NEW x \in d.plan.insert, Keyed(x) PROVE counter < num[x]
      OBVIOUS
    <3>1. CASE x = r
      <4>1. num[r] = db.next + 1 /\ counter <= db.next
        BY <1>6, <1>11, <3>1
      <4> QED
        BY <1>2, <1>4, <3>1, <4>1
    <3>2. CASE x \in db.plan.insert /\ x # r
      <4>1. counter < db.seq[x] /\ x \in Runs
        BY <1>4, <1>6, <3>2
      <4> QED
        BY <1>11, <3>2, <4>1
    <3> QED
      BY <2>3, <3>1, <3>2
  <2>12. counter <= last
    BY <1>2, <1>4, <1>6, <1>11
  <2>13. OneEach(d.run)
    <3>1. ASSUME NEW x \in Runs, d.run[x] \in Live PROVE x = r \/ (db.run[x] \in Live /\ x \notin H)
      BY <2>3, <3>1 DEF Live
    <3>2. ASSUME NEW x \in Runs, NEW y \in Runs, x # y, req[x].unique # None, req[y].unique = req[x].unique,
                 d.run[x] \in Live, d.run[y] \in Live
          PROVE  FALSE
      <4>1. x # r /\ y # r
        BY <2>4, <3>1, <3>2
      <4> QED
        BY <1>6, <3>1, <3>2, <4>1 DEF OneEach
    <3> QED
      BY <3>2 DEF OneEach
  <2> QED
    BY <1>11, <1>16, <2>3, <2>7, <2>8, <2>10, <2>11, <2>12, <2>13 DEF ViewOk, d, r
<1> QED
  BY <1>3, <1>13, <1>14, <1>15, <1>16

\* The live runs of r's key.
Cands(db, r) == {x \in LiveRuns(db) : req[x].key = req[r].key}

\* A strategy that strikes leaves no more of its key than the limit.
LEMMA VictimsLeaveRoom ==
    ASSUME req \in [Runs -> Request], IsFiniteSet(Runs), NEW db \in Views, NEW r \in Runs, Strategic(r),
           \A x, y \in Cands(db, r) : db.seq[x] = db.seq[y] => x = y,
           Cardinality(Cands(db, r)) <= req[r].limit + 1 \/ req[r].strategy # "cancelNewest"
    PROVE  Cardinality({x \in Cands(db, r) \ Victims(db, r) : db.run[x] \in Counted(r)}) <= req[r].limit
<1> DEFINE C == Cands(db, r)
           running == {x \in C : db.run[x] = "RUNNING"}
           queued  == C \ running
           S == {x \in C \ Victims(db, r) : db.run[x] \in Counted(r)}
           n == req[r].limit
           f == db.seq
           over == Cardinality(C) - n
<1>1. f \in [Runs -> Nat] /\ n \in Nat /\ req[r].strategy \in Strategies \ {"hold"}
  BY DEF Views, Strategic, Request
<1>2. /\ C \in SUBSET Runs /\ running \in SUBSET C /\ queued \in SUBSET C /\ S \in SUBSET C
      /\ running \cap queued = {} /\ running \cup queued = C
  BY DEF Cands, LiveRuns
<1>3. /\ over > 0 /\ req[r].strategy = "cancelNewest"
         => Victims(db, r) = {CHOOSE x \in C : \A y \in C : f[y] <= f[x]}
      /\ over > 0 /\ req[r].strategy = "cancelInProgress"
         => Victims(db, r) = {x \in running : Ahead(running, f, x) < over} \cup
                             {x \in queued : Cardinality(running) + Ahead(queued, f, x) < over}
      /\ over > 0 /\ req[r].strategy = "exceptNewest"
         => Victims(db, r) = {x \in queued : Ahead(queued, f, x) < Cardinality(queued) - n}
      /\ over > 0 /\ req[r].strategy = "exceptOldest"
         => Victims(db, r) = {x \in queued : Ahead(queued, f, x) >= n}
  <2>1. Cardinality(C) \in Int
    <3>1. C \in SUBSET Runs
      BY <1>2
    <3> HIDE DEF C
    <3> QED
      BY <3>1, FS_Subset, FS_CardinalityType
  <2>2. over > 0 => ~(over <= 0)
    <3> HIDE DEF C
    <3> QED
      BY <1>1, <2>1
  <2>3. ASSUME over > 0, req[r].strategy = "cancelNewest"
        PROVE  Victims(db, r) = {CHOOSE x \in C : \A y \in C : f[y] <= f[x]}
    BY <2>2, <2>3 DEF Victims, Cands
  <2>4. ASSUME over > 0, req[r].strategy = "cancelInProgress"
        PROVE  Victims(db, r) = {x \in running : Ahead(running, f, x) < over} \cup
                             {x \in queued : Cardinality(running) + Ahead(queued, f, x) < over}
    BY <2>2, <2>4 DEF Victims, Cands, Ahead
  <2>5. ASSUME over > 0, req[r].strategy = "exceptNewest"
        PROVE  Victims(db, r) = {x \in queued : Ahead(queued, f, x) < Cardinality(queued) - n}
    BY <2>2, <2>5 DEF Victims, Cands, Ahead
  <2>6. ASSUME over > 0, req[r].strategy = "exceptOldest"
        PROVE  Victims(db, r) = {x \in queued : Ahead(queued, f, x) >= n}
    BY <2>2, <2>6 DEF Victims, Cands, Ahead
  <2> QED
    BY <2>3, <2>4, <2>5, <2>6
<1> SUFFICES Cardinality(S) <= n
  OBVIOUS
<1>3a. /\ \A x, y \in C : f[x] = f[y] => x = y
       /\ Cardinality(C) <= n + 1 \/ req[r].strategy # "cancelNewest"
  OBVIOUS
<1> HIDE DEF C
<1>4. /\ IsFiniteSet(C) /\ IsFiniteSet(running) /\ IsFiniteSet(queued) /\ IsFiniteSet(S)
      /\ Cardinality(C) \in Nat /\ Cardinality(running) \in Nat /\ Cardinality(queued) \in Nat
      /\ Cardinality(S) \in Nat
      /\ Cardinality(C) = Cardinality(running) + Cardinality(queued)
  <2> HIDE DEF running, queued, S
  <2>1. IsFiniteSet(C)
    BY <1>2, FS_Subset
  <2>2. IsFiniteSet(running) /\ IsFiniteSet(queued) /\ IsFiniteSet(S)
    BY <1>2, <2>1, FS_Subset
  <2>3. Cardinality(running \cup queued) = Cardinality(running) + Cardinality(queued) - Cardinality(running \cap queued)
    BY <2>2, FS_Union
  <2>4. Cardinality(running \cap queued) = 0
    BY <1>2, FS_EmptySet
  <2>5. /\ Cardinality(C) \in Nat /\ Cardinality(running) \in Nat /\ Cardinality(queued) \in Nat
        /\ Cardinality(S) \in Nat
    BY <2>1, <2>2, FS_CardinalityType
  <2>6. Cardinality(C) = Cardinality(running) + Cardinality(queued)
    <3> DEFINE p == Cardinality(running)
               q == Cardinality(queued)
    <3>1. p \in Nat /\ q \in Nat /\ Cardinality(running \cup queued) = p + q - 0
      BY <2>3, <2>4, <2>5
    <3> HIDE DEF p, q
    <3>2. Cardinality(running \cup queued) = p + q
      BY <3>1
    <3> QED
      BY <1>2, <3>2 DEF p, q
  <2> QED
    BY <2>1, <2>2, <2>5, <2>6
<1>5. /\ \A x \in running : Ahead(running, f, x) \in 0 .. Cardinality(running) - 1
      /\ \A x, y \in running : Ahead(running, f, x) = Ahead(running, f, y) => x = y
      /\ \A x \in queued : Ahead(queued, f, x) \in 0 .. Cardinality(queued) - 1
      /\ \A x, y \in queued : Ahead(queued, f, x) = Ahead(queued, f, y) => x = y
  <2>1. running \in SUBSET Runs /\ queued \in SUBSET Runs
    BY <1>2
  <2>2. /\ \A x, y \in running : f[x] = f[y] => x = y
        /\ \A x, y \in queued : f[x] = f[y] => x = y
    BY <1>2, <1>3a
  <2> HIDE DEF running, queued, f
  <2>3. /\ \A x \in running : Ahead(running, f, x) \in 0 .. Cardinality(running) - 1
        /\ \A x, y \in running : Ahead(running, f, x) = Ahead(running, f, y) => x = y
    BY <1>1, <1>4, <2>1, <2>2, PlaceInLine
  <2>4. /\ \A x \in queued : Ahead(queued, f, x) \in 0 .. Cardinality(queued) - 1
        /\ \A x, y \in queued : Ahead(queued, f, x) = Ahead(queued, f, y) => x = y
    BY <1>1, <1>4, <2>1, <2>2, PlaceInLine
  <2> QED
    BY <2>3, <2>4
<1>6. over \in Int
  BY <1>1, <1>4
<1>7. Cardinality(S) <= Cardinality(C)
  <2> HIDE DEF S
  <2> QED
    BY <1>2, <1>4, FS_Subset
<1>8. CASE ~(over > 0)
  <2> HIDE DEF S
  <2> QED
    BY <1>1, <1>4, <1>6, <1>7, <1>8
<1>9. CASE over > 0 /\ req[r].strategy = "cancelNewest"
  <2> DEFINE new == CHOOSE x \in C : \A y \in C : f[y] <= f[x]
  <2>1. Victims(db, r) = {new}
    BY <1>3, <1>9
  <2>2. C # {}
    <3> HIDE DEF running, queued, S
    <3> QED
      BY <1>1, <1>4, <1>9, FS_EmptySet
  <2>3. \E x \in C : \A y \in C : f[y] <= f[x]
    <3> HIDE DEF f, running, queued, S
    <3> QED
      BY <1>1, <1>2, <1>4, <2>2, LastInLine
  <2>4. new \in C
    BY <2>3
  <2> HIDE DEF new
  <2>5. Cardinality(C \ {new}) = Cardinality(C) - 1 /\ IsFiniteSet(C \ {new})
    BY <1>4, <2>4, FS_RemoveElement
  <2>6. S \subseteq C \ {new}
    BY <2>1
  <2> HIDE DEF S
  <2>7. Cardinality(S) <= Cardinality(C) - 1
    BY <2>5, <2>6, FS_Subset
  <2> QED
    BY <1>1, <1>4, <1>9, <1>3a, <2>7
<1>10. CASE over > 0 /\ req[r].strategy = "cancelInProgress"
  <2>1. Victims(db, r) = {x \in running : Ahead(running, f, x) < over} \cup
                         {x \in queued : Cardinality(running) + Ahead(queued, f, x) < over}
    BY <1>3, <1>10
  <2> DEFINE rank == [x \in S |-> IF x \in running THEN Ahead(running, f, x)
                                  ELSE Cardinality(running) + Ahead(queued, f, x)]
  <2>2. \A x \in S : \/ x \in running /\ x \notin queued /\ ~(Ahead(running, f, x) < over)
                     \/ x \in queued /\ x \notin running /\ ~(Cardinality(running) + Ahead(queued, f, x) < over)
    BY <1>2, <2>1
  <2>3. \A x \in S : /\ rank[x] = IF x \in running THEN Ahead(running, f, x)
                                  ELSE Cardinality(running) + Ahead(queued, f, x)
    OBVIOUS
  <2> HIDE DEF running, queued, f
  <2>4. ASSUME NEW x \in S PROVE rank[x] \in over .. Cardinality(C) - 1
    <3> HIDE DEF rank, S
    <3>1. CASE x \in running
      BY <1>4, <1>5, <1>6, <2>2, <2>3, <3>1
    <3>2. CASE x \in queued
      <4> DEFINE p == Ahead(queued, f, x)
      <4>1. p \in 0 .. Cardinality(queued) - 1 /\ ~(Cardinality(running) + p < over)
            /\ rank[x] = Cardinality(running) + p
        BY <1>5, <2>2, <2>3, <3>2
      <4> HIDE DEF p, over
      <4> QED
        BY <1>4, <1>6, <4>1
    <3> QED
      BY <2>2, <3>1, <3>2
  <2>5. rank \in [S -> over .. Cardinality(C) - 1]
    BY <2>4
  <2>6. ASSUME NEW x \in S, NEW y \in S, rank[x] = rank[y] PROVE x = y
    <3> HIDE DEF rank, S
    <3>1. CASE x \in running /\ y \in running
      BY <1>5, <2>3, <2>6, <3>1
    <3>2. CASE x \notin running /\ y \notin running
      <4>1. x \in queued /\ y \in queued
        BY <2>2, <3>2
      <4>2. Ahead(queued, f, x) \in Int /\ Ahead(queued, f, y) \in Int
        BY <1>5, <4>1
      <4>3. Ahead(queued, f, x) = Ahead(queued, f, y)
        BY <1>4, <2>3, <2>6, <3>2, <4>2
      <4> QED
        BY <1>5, <4>1, <4>3
    <3>3. CASE x \in running /\ y \notin running
      <4>1. y \in queued
        BY <2>2, <3>3
      <4>2. rank[x] < Cardinality(running) /\ rank[y] >= Cardinality(running)
        BY <1>4, <1>5, <2>3, <3>3, <4>1
      <4>3. rank[x] \in Int /\ rank[y] \in Int
        <5> HIDE DEF over
        <5>1. rank[x] \in over .. Cardinality(C) - 1 /\ rank[y] \in over .. Cardinality(C) - 1
          BY <2>4
        <5> QED
          BY <5>1
      <4> QED
        BY <1>4, <2>6, <4>2, <4>3
    <3>4. CASE x \notin running /\ y \in running
      <4>1. x \in queued
        BY <2>2, <3>4
      <4>2. rank[y] < Cardinality(running) /\ rank[x] >= Cardinality(running)
        BY <1>4, <1>5, <2>3, <3>4, <4>1
      <4>3. rank[x] \in Int /\ rank[y] \in Int
        <5> HIDE DEF over
        <5>1. rank[x] \in over .. Cardinality(C) - 1 /\ rank[y] \in over .. Cardinality(C) - 1
          BY <2>4
        <5> QED
          BY <5>1
      <4> QED
        BY <1>4, <2>6, <4>2, <4>3
    <3> QED
      BY <3>1, <3>2, <3>3, <3>4
  <2>7. over <= (Cardinality(C) - 1) + 1 /\ Cardinality(C) - 1 \in Int
    BY <1>1, <1>4
  <2> HIDE DEF rank, S
  <2>8. Cardinality(S) <= (Cardinality(C) - 1) - over + 1
    <3> DEFINE b == Cardinality(C) - 1
    <3> HIDE DEF b, over
    <3>1. Cardinality(S) <= b - over + 1
      BY <1>6, <2>5, <2>6, <2>7, CountByRank DEF b
    <3> QED
      BY <3>1 DEF b
  <2> QED
    BY <1>1, <1>4, <2>8
<1>11. CASE over > 0 /\ req[r].strategy = "exceptNewest"
  <2>1. Victims(db, r) = {x \in queued : Ahead(queued, f, x) < Cardinality(queued) - n}
    BY <1>3, <1>11
  <2> DEFINE rank == [x \in S |-> Ahead(queued, f, x)]
             a == Cardinality(queued) - n
             b == Cardinality(queued) - 1
  <2>2. ASSUME NEW x \in S PROVE x \in queued /\ ~(Ahead(queued, f, x) < Cardinality(queued) - n)
    BY <1>11, <2>1 DEF Counted
  <2> HIDE DEF running, queued, f, S
  <2>3. rank \in [S -> a .. b]
    BY <1>1, <1>4, <1>5, <2>2
  <2>4. \A x, y \in S : rank[x] = rank[y] => x = y
    BY <1>5, <2>2
  <2>5. a \in Int /\ b \in Int /\ a <= b + 1
    BY <1>1, <1>4
  <2>6. Cardinality(S) <= b - a + 1
    <3> HIDE DEF rank, a, b
    <3> QED
      BY <2>3, <2>4, <2>5, CountByRank
  <2> QED
    BY <1>1, <1>4, <2>6
<1>12. CASE over > 0 /\ req[r].strategy = "exceptOldest"
  <2>1. Victims(db, r) = {x \in queued : Ahead(queued, f, x) >= n}
    BY <1>3, <1>12
  <2> DEFINE rank == [x \in S |-> Ahead(queued, f, x)]
             b == n - 1
  <2>2. ASSUME NEW x \in S PROVE x \in queued /\ ~(Ahead(queued, f, x) >= n)
    BY <1>12, <2>1 DEF Counted
  <2> HIDE DEF running, queued, f, S
  <2>3. rank \in [S -> 0 .. b]
    BY <1>1, <1>4, <1>5, <2>2
  <2>4. \A x, y \in S : rank[x] = rank[y] => x = y
    BY <1>5, <2>2
  <2>5. 0 \in Int /\ b \in Int /\ 0 <= b + 1
    BY <1>1
  <2>6. Cardinality(S) <= b - 0 + 1
    <3> HIDE DEF rank, b
    <3> QED
      BY <2>3, <2>4, <2>5, CountByRank
  <2> QED
    BY <1>1, <1>4, <2>6
<1> QED
  BY <1>1, <1>8, <1>9, <1>10, <1>11, <1>12 DEF Strategies

Declared == \A r \in Runs : req[r].strategy # "hold" /\ req[r].key # None => req[r].limit > 0

\* Fewer live and fewer queued runs leave every group its room.
LEMMA RoomyShrinks ==
    ASSUME IsFiniteSet(Runs), req \in [Runs -> Request], NEW st, NEW st2, Roomy(st),
           \A x \in Runs : req[x].key # None =>
               /\ st2[x] \in Live => st[x] \in Live
               /\ st2[x] = "QUEUED" => st[x] = "QUEUED"
    PROVE  Roomy(st2)
<1> SUFFICES ASSUME NEW r \in Runs, Uniform(r)
             PROVE  Cardinality({x \in Group(r) : st2[x] \in Counted(r)}) <= req[r].limit
  BY DEF Roomy
<1> DEFINE A == {x \in Group(r) : st[x] \in Counted(r)}
           B == {x \in Group(r) : st2[x] \in Counted(r)}
<1>1. \A x \in Group(r) : x \in Runs /\ req[x].key # None
  BY DEF Group, Uniform
<1>2. B \subseteq A /\ A \subseteq Runs
  BY <1>1 DEF Counted
<1>3. Cardinality(A) <= req[r].limit
  BY DEF Roomy
<1> HIDE DEF A, B
<1>4. IsFiniteSet(A)
  BY <1>2, FS_Subset
<1>5. Cardinality(B) <= Cardinality(A) /\ Cardinality(A) \in Nat /\ Cardinality(B) \in Nat
  BY <1>2, <1>4, FS_Subset, FS_CardinalityType
<1>6. req[r].limit \in Nat
  BY DEF Request
<1> QED
  BY <1>3, <1>5, <1>6 DEF B

\* One turn leaves every group its room: this is where the strategies strike.
LEMMA RoomyStep ==
    ASSUME req \in [Runs -> Request], IsFiniteSet(Runs), Declared, NEW db \in Views, NEW r \in Runs,
           Numbers(db.run, db.seq, db.next), db.run[r] = "NEW", Roomy(db.run)
    PROVE  Roomy(CreateRun(db, r).run)
<1> DEFINE d == CreateRun(db, r)
<1>1. /\ d \in Views
      /\ \/ db.plan.error /\ d = db
         \/ ~db.plan.error /\ d = Drawn(db, r)
         \/ /\ d.plan.error /\ d.run = db.run /\ d.seq = db.seq /\ d.next = db.next
            /\ d.plan.insert = db.plan.insert
            /\ d.plan.cancel = db.plan.cancel /\ d.plan.replace = db.plan.replace
         \/ ~db.plan.error /\ Inserts(db, r, d)
  BY Turn
<1>2. Drawn(db, r).run = db.run
  BY DrawnView
<1> HIDE DEF d
<1>3. CASE d = db \/ d = Drawn(db, r) \/ d.run = db.run
  BY <1>2, <1>3 DEF d
<1>4. CASE Inserts(db, r, d)
  <2> DEFINE m == Middle(db, r)
             H == Held(db, r)
             V == Struck(db, r)
  <2>1. d.run = [x \in Runs |-> IF x \in V THEN "CANCELLED" ELSE IF x = r THEN "QUEUED"
                               ELSE IF x \in H THEN "CANCELLED" ELSE db.run[x]]
    BY <1>4 DEF Inserts
  <2>2. /\ m \in Views /\ m.seq = Drawn(db, r).seq /\ m.next = Drawn(db, r).next
        /\ m.run = [x \in Runs |-> IF x = r THEN "QUEUED" ELSE IF x \in H THEN "CANCELLED" ELSE db.run[x]]
    BY MiddleView
  <2>3. V = IF Strategic(r) THEN Victims(m, r) ELSE {}
    BY DEF Struck
  <2> HIDE DEF m, H, V
  <2>4. \A x \in Runs : x # r =>
            /\ d.run[x] \in Live => db.run[x] \in Live
            /\ d.run[x] = "QUEUED" => db.run[x] = "QUEUED"
    BY <2>1 DEF Live
  <2> SUFFICES ASSUME NEW g \in Runs, Uniform(g)
               PROVE  Cardinality({x \in Group(g) : d.run[x] \in Counted(g)}) <= req[g].limit
    BY DEF Roomy, d
  <2> DEFINE A == {x \in Group(g) : db.run[x] \in Counted(g)}
             B == {x \in Group(g) : d.run[x] \in Counted(g)}
  <2>5. A \subseteq Runs /\ B \subseteq Runs
    BY DEF Group
  <2>6. Cardinality(A) <= req[g].limit /\ req[g].limit \in Nat
    BY DEF Roomy, Request
  <2>7. \A x \in B : x # r => x \in A
    <3> SUFFICES ASSUME NEW x \in B, x # r PROVE x \in A
      OBVIOUS
    <3>1. x \in Group(g) /\ d.run[x] \in Counted(g) /\ x \in Runs
      BY <2>5
    <3> HIDE DEF A, B
    <3>2. Counted(g) = Live \/ Counted(g) = {"QUEUED"}
      BY DEF Counted
    <3>3. db.run[x] \in Counted(g)
      BY <2>4, <3>1, <3>2
    <3> QED
      BY <3>1, <3>3 DEF A
  <2>8. r \in B => r \in Group(g)
    OBVIOUS
  <2>9. IsFiniteSet(A) /\ IsFiniteSet(B) /\ Cardinality(A) \in Nat /\ Cardinality(B) \in Nat
    <3> HIDE DEF A, B
    <3> QED
      BY <2>5, FS_Subset, FS_CardinalityType
  <2>10. CASE r \notin Group(g)
    <3>1. B \subseteq A
      BY <2>7, <2>8, <2>10
    <3> HIDE DEF A, B
    <3>2. Cardinality(B) <= Cardinality(A)
      BY <2>9, <3>1, FS_Subset
    <3> QED
      BY <2>6, <2>9, <3>2 DEF B
  <2>11. CASE r \in Group(g)
    <3>1. /\ req[r].key = req[g].key /\ req[g].key # None /\ req[r].strategy = req[g].strategy
          /\ req[r].limit = req[g].limit /\ req[r].strategy # "hold"
      BY <2>11 DEF Uniform, Group
    <3>2. Strategic(r) /\ Keyed(r)
      BY <3>1 DEF Strategic, Keyed, Declared
    <3> DEFINE C == Cands(m, r)
    <3>3. C = {x \in Runs : m.run[x] \in Live /\ req[x].key = req[r].key}
      BY DEF Cands, LiveRuns
    <3>4. \A x, y \in C : m.seq[x] = m.seq[y] => x = y
      <4>1. /\ Drawn(db, r).next = db.next + 1 /\ Drawn(db, r).seq = [db.seq EXCEPT ![r] = db.next + 1]
        BY <3>2, DrawnView
      <4>2. /\ db.seq \in [Runs -> Nat] /\ db.next \in Nat /\ m.seq \in [Runs -> Nat] /\ m.next \in Nat
        BY <2>2 DEF Views
      <4>3. \A x \in Runs : m.run[x] # "NEW" => x = r \/ db.run[x] # "NEW"
        <5>1. \A x \in H : db.run[x] # "NEW"
          BY DEF H, Held, LiveRunByUnique, LiveRuns, Live
        <5> QED
          BY <2>2, <5>1
      <4>4. Grows(db.run, db.seq, db.next, r, m.run, m.seq, m.next)
        BY <2>2, <4>1, <4>2, <4>3 DEF Grows
      <4>5. Numbers(m.run, m.seq, m.next)
        BY <4>4, NumbersGrow
      <4>6. \A x \in C : x \in Runs /\ m.run[x] # "NEW" /\ Keyed(x)
        BY <3>1, <3>3 DEF Live, Keyed
      <4> HIDE DEF C
      <4> QED
        BY <4>5, <4>6 DEF Numbers
    <3>5. Cardinality(C) <= req[r].limit + 1 \/ req[r].strategy # "cancelNewest"
      <4> SUFFICES ASSUME req[r].strategy = "cancelNewest" PROVE Cardinality(C) <= req[r].limit + 1
        OBVIOUS
      <4>1. \A x \in C : x = r \/ x \in A
        BY <2>2, <3>1, <3>3 DEF Group, Counted, Live
      <4> HIDE DEF C, A
      <4>2. C \subseteq A \cup {r}
        BY <4>1
      <4>3. IsFiniteSet(A \cup {r}) /\ Cardinality(A \cup {r}) <= Cardinality(A) + 1
            /\ Cardinality(A \cup {r}) \in Nat
        <5>1. IsFiniteSet(A \cup {r}) /\ Cardinality(A \cup {r})
                 = IF r \in A THEN Cardinality(A) ELSE Cardinality(A) + 1
          BY <2>9, FS_AddElement
        <5> QED
          BY <2>9, <5>1
      <4>4. Cardinality(C) <= Cardinality(A \cup {r}) /\ Cardinality(C) \in Nat
        BY <4>2, <4>3, FS_Subset, FS_CardinalityType
      <4> QED
        BY <2>6, <2>9, <3>1, <4>3, <4>4
    <3>6. Cardinality({x \in C \ Victims(m, r) : m.run[x] \in Counted(r)}) <= req[r].limit
      BY <2>2, <3>2, <3>4, <3>5, VictimsLeaveRoom
    <3>7. B = {x \in C \ Victims(m, r) : m.run[x] \in Counted(r)}
      <4>1. Counted(r) = Counted(g) /\ Counted(g) \subseteq Live /\ "CANCELLED" \notin Counted(g)
        BY <3>1 DEF Counted, Live
      <4>2. V = Victims(m, r)
        BY <2>3, <3>2
      <4>3. \A x \in Runs : d.run[x] = IF x \in V THEN "CANCELLED" ELSE m.run[x]
        BY <2>1, <2>2
      <4>4. Group(g) = {x \in Runs : req[x].key = req[r].key}
        BY <3>1 DEF Group
      <4> QED
        BY <3>3, <4>1, <4>2, <4>3, <4>4
    <3> QED
      BY <3>1, <3>6, <3>7
  <2> QED
    BY <2>10, <2>11
<1> QED
  BY <1>1, <1>3, <1>4

\* What a transaction decides from a table in order.
BaseView == [run |-> run, seq |-> seq, next |-> counter, plan |-> NoPlan]

\* By induction along the batch, the whole of createRunsUniqueTx.
LEMMA ResolutionOk ==
    ASSUME Typed, IsFiniteSet(Runs), Numbered, OneEach(run), NEW b \in Seq(Runs),
           \A i \in 1 .. Len(b) : run[b[i]] = "NEW",
           \A i, j \in 1 .. Len(b) : b[i] = b[j] => i = j
    PROVE  /\ Resolution(b) \in Views /\ ViewOk(Resolution(b), b, Len(b))
           /\ Declared /\ Roomy(run) => Roomy(Resolution(b).run)
<1>1. /\ req \in [Runs -> Request] /\ run \in [Runs -> Statuses] /\ counter \in Nat
      /\ seq \in [Runs -> Nat] /\ Len(b) \in Nat
  BY DEF Typed
<1>2. BaseView \in Views
  BY <1>1 DEF BaseView, Views, NoPlan, Plans
<1>3. ViewOk(BaseView, b, 0)
  <2>1. 1 .. 0 = {}
    OBVIOUS
  <2>2. Named(b, 0) = {} /\ KeyedIn(b, 0) = {}
    BY <2>1 DEF Named, KeyedIn
  <2>3. Cardinality(KeyedIn(b, 0)) = 0
    BY <2>2, FS_EmptySet
  <2>4. Planned(NoPlan) = run
    BY <1>1 DEF Planned, NoPlan
  <2>5. Grounded(NoPlan, Named(b, 0))
    BY DEF Grounded, NoPlan
  <2>6. /\ BaseView.run = run /\ BaseView.seq = seq /\ BaseView.next = counter /\ BaseView.plan = NoPlan
        /\ NoPlan.insert = {}
    BY DEF BaseView, NoPlan
  <2> QED
    BY <1>1, <2>3, <2>4, <2>5, <2>6 DEF ViewOk, Numbered
<1>4. PICK h \in [0 .. Len(b) -> Views] :
               /\ h[0] = BaseView /\ h[Len(b)] = FoldLeft(CreateRun, BaseView, b)
               /\ \A k \in 1 .. Len(b) : h[k] = CreateRun(h[k - 1], b[k])
  BY <1>1, <1>2, CreateTrace
<1>5. FoldLeft(CreateRun, BaseView, b) = Resolution(b)
  BY DEF Resolution, BaseView
<1> DEFINE P(k) == ViewOk(h[k], b, k) /\ (Declared /\ Roomy(run) => Roomy(h[k].run))
           S == {k \in Nat : k <= Len(b) => P(k)}
<1>6. 0 \in S
  BY <1>3, <1>4 DEF BaseView
<1>7. ASSUME NEW k \in Nat, k \in S PROVE k + 1 \in S
  <2> SUFFICES ASSUME k + 1 <= Len(b) PROVE P(k + 1)
    OBVIOUS
  <2>1. k + 1 \in 1 .. Len(b) /\ (k + 1) - 1 = k /\ k \in 0 .. Len(b)
    BY <1>1
  <2>2. P(k)
    BY <1>7, <2>1
  <2>3. h[k] \in Views /\ h[k + 1] = CreateRun(h[k], b[k + 1]) /\ b[k + 1] \in Runs
    BY <1>4, <2>1
  <2> HIDE DEF P
  <2>4. ViewOk(h[k], b, (k + 1) - 1)
    BY <2>1, <2>2 DEF P
  <2>5. ViewOk(CreateRun(h[k], b[k + 1]), b, k + 1)
    BY <2>1, <2>3, <2>4, ViewStep
  <2>6. Declared /\ Roomy(h[k].run) => Roomy(CreateRun(h[k], b[k + 1]).run)
    <3>1. /\ Grounded(h[k].plan, Named(b, k)) /\ h[k].run = Planned(h[k].plan)
          /\ Numbers(h[k].run, h[k].seq, h[k].next)
      BY <2>1, <2>4 DEF ViewOk
    <3>2. run[b[k + 1]] = "NEW" /\ b[k + 1] \notin Named(b, k)
      <4>1. \A i \in 1 .. k : i \in 1 .. Len(b) /\ i # k + 1
        BY <2>1
      <4> QED
        BY <2>1, <4>1 DEF Named
    <3>3. h[k].run[b[k + 1]] = "NEW"
      BY <2>3, <3>1, <3>2 DEF Grounded, Planned
    <3> QED
      BY <1>1, <2>3, <3>1, <3>3, RoomyStep
  <2> QED
    BY <2>2, <2>3, <2>5, <2>6 DEF P
<1>8. Nat \subseteq S
  <2> HIDE DEF S
  <2> QED
    BY <1>6, <1>7, NatSet
<1>9. P(Len(b))
  <2> HIDE DEF P
  <2> QED
    BY <1>1, <1>8
<1>10. h[Len(b)] \in Views /\ h[Len(b)] = Resolution(b)
  <2>1. Len(b) \in 0 .. Len(b)
    BY <1>1
  <2> QED
    BY <1>4, <1>5, <2>1
<1> QED
  BY <1>9, <1>10

-----------------------------------------------------------------------------
(* The claim.                                                              *)

\* A guarded UPDATE keeps the limits of the keys.
LEMMA KeysStep ==
    ASSUME req \in [Runs -> Request], IsFiniteSet(Runs), NEW st \in [Runs -> Statuses], NEW r \in Runs,
           KeysOk(st), Gates(st, r)
    PROVE  KeysOk([st EXCEPT ![r] = "RUNNING"])
<1> DEFINE held == {x \in Runs : st[x] = "RUNNING"}
           held2 == {x \in Runs : [st EXCEPT ![r] = "RUNNING"][x] = "RUNNING"}
<1>1. held2 = held \cup {r} /\ held \in SUBSET Runs
  OBVIOUS
<1>2. ASSUME NEW S \in SUBSET held2, r \in S, NEW T \in SUBSET held, \A x \in S : x # r => x \in T,
             NEW n \in Nat, Cardinality(T) < n
      PROVE  Cardinality(S) <= n
  <2> HIDE DEF held, held2
  <2>1. IsFiniteSet(T)
    BY <1>1, FS_Subset
  <2>2. IsFiniteSet(T \cup {r}) /\ Cardinality(T \cup {r}) <= Cardinality(T) + 1
        /\ Cardinality(T \cup {r}) \in Nat /\ Cardinality(T) \in Nat
    <3>1. /\ IsFiniteSet(T \cup {r})
          /\ Cardinality(T \cup {r}) = IF r \in T THEN Cardinality(T) ELSE Cardinality(T) + 1
          /\ Cardinality(T) \in Nat
      BY <2>1, FS_AddElement, FS_CardinalityType
    <3> QED
      BY <3>1
  <2>3. S \subseteq T \cup {r}
    BY <1>2
  <2>4. Cardinality(S) <= Cardinality(T \cup {r}) /\ Cardinality(S) \in Nat
    BY <2>2, <2>3, FS_Subset, FS_CardinalityType
  <2> QED
    BY <1>2, <2>2, <2>4
<1>3. ASSUME NEW S \in SUBSET held2, NEW k \in STRING, S # {}, \A x \in S : req[x].key = k
      PROVE  \E x \in S : Cardinality(S) <= KeyLimit(x)
  <2>1. CASE r \notin S
    <3>1. S \in SUBSET held
      BY <1>1, <2>1
    <3> QED
      BY <1>3, <3>1 DEF KeysOk
  <2>2. CASE r \in S
    <3> DEFINE T == {x \in Runs : st[x] = "RUNNING" /\ req[x].key = req[r].key}
    <3>1. Cardinality(T) < KeyLimit(r)
      BY <1>3, <2>2, AdmissionAssumption DEF Gates, KeyGate
    <3>2. KeyLimit(r) \in Nat
      BY DEF KeyLimit, Request
    <3>3. T \in SUBSET held /\ \A x \in S : x # r => x \in T
      BY <1>1, <1>3, <2>2
    <3> HIDE DEF T, held, held2
    <3>4. Cardinality(S) <= KeyLimit(r)
      BY <1>2, <2>2, <3>1, <3>2, <3>3
    <3> QED
      BY <2>2, <3>4
  <2> QED
    BY <2>1, <2>2
<1>4. ASSUME NEW S \in SUBSET held2, NEW k \in STRING, S # {},
             \A x \in S : \E j \in req[x].extra : j[1] = k
      PROVE  \E x \in S : \E j \in req[x].extra : j[1] = k /\ Cardinality(S) <= j[2]
  <2>1. CASE r \notin S
    <3>1. S \in SUBSET held
      BY <1>1, <2>1
    <3> QED
      BY <1>4, <3>1 DEF KeysOk
  <2>2. CASE r \in S
    <3>1. PICK j \in req[r].extra : j[1] = k
      BY <1>4, <2>2
    <3> DEFINE T == {x \in Runs : st[x] = "RUNNING" /\ \E i \in req[x].extra : i[1] = j[1]}
    <3>2. Cardinality(T) < j[2]
      BY DEF Gates, KeysGate
    <3>3. j[2] \in Nat
      BY DEF Request
    <3>4. T \in SUBSET held /\ \A x \in S : x # r => x \in T
      BY <1>1, <1>4, <2>2, <3>1
    <3> HIDE DEF T, held, held2
    <3>5. Cardinality(S) <= j[2]
      BY <1>2, <2>2, <3>2, <3>3, <3>4
    <3> QED
      BY <2>2, <3>1, <3>5
  <2> QED
    BY <2>1, <2>2
<1> QED
  BY <1>3, <1>4 DEF KeysOk

\* A guarded UPDATE keeps the order of the sequences.
LEMMA SequenceStep ==
    ASSUME NEW st \in [Runs -> Statuses], NEW r \in Runs, st[r] \in {"QUEUED", "RUNNING"},
           SeqOk(st), Gates(st, r)
    PROVE  SeqOk([st EXCEPT ![r] = "RUNNING"])
<1> DEFINE st2 == [st EXCEPT ![r] = "RUNNING"]
<1> SUFFICES ASSUME NEW a \in Runs, NEW x \in Runs, st2[a] = "RUNNING", x # a, run[x] # "NEW",
                    req[x].seqKey # None, req[x].seqKey = req[a].seqKey, seq[x] < seq[a]
             PROVE  st2[x] \notin {"QUEUED", "RUNNING"}
  BY DEF SeqOk
<1>1. CASE a = r
  BY <1>1 DEF Gates, SequenceGate
<1>2. CASE a # r
  <2>1. st[x] \notin {"QUEUED", "RUNNING"}
    BY <1>2 DEF SeqOk
  <2> QED
    BY <2>1
<1> QED
  BY <1>1, <1>2

\* What one claim transaction does to the steps.
LEMMA ClaimFacts ==
    ASSUME Typed, IsFiniteSet(Runs), NEW q \in Queues, NEW o \in Orders(q)
    PROVE  LET after   == FoldLeft(ClaimStep, step, o)
               claimed == {r \in Runs : after[r] # step[r]}
           IN /\ after \in [Runs -> Statuses]
              /\ \A r \in claimed : after[r] = "RUNNING" /\ step[r] = "QUEUED" /\ req[r].queue = q
              /\ IsFiniteSet(claimed) /\ Cardinality(claimed) \in Nat
              /\ ClaimLimit(q) \in Int => Cardinality(claimed) <= ClaimLimit(q)
              /\ KeysOk(step) => KeysOk(after)
              /\ SeqOk(step) => SeqOk(after)
<1> DEFINE after == FoldLeft(ClaimStep, step, o)
           claimed == {r \in Runs : after[r] # step[r]}
<1>1. req \in [Runs -> Request] /\ step \in [Runs -> Statuses]
  BY DEF Typed
<1>2. PICK s \in SUBSET Candidates(q) : o \in SetToSeqs(s)
  BY DEF Orders, SetToAllKPermutations
<1>3. IsFiniteSet(Candidates(q)) /\ Candidates(q) \in SUBSET Runs /\ s \in SUBSET Runs
  <2>1. Candidates(q) \in SUBSET Runs
    BY DEF Candidates
  <2> QED
    BY <2>1, FS_Subset
<1>4. Cardinality(s) \in Nat /\ Cardinality(Candidates(q)) \in Nat
  BY <1>3, FS_Subset, FS_CardinalityType
<1>5. o \in [1 .. Cardinality(s) -> s]
  BY <1>2 DEF SetToSeqs
<1>6. o \in Seq(Runs) /\ Len(o) = Cardinality(s) /\ Len(o) \in Nat
  BY <1>3, <1>4, <1>5
<1>7. \A i \in 1 .. Len(o) : o[i] \in Runs /\ step[o[i]] = "QUEUED" /\ req[o[i]].queue = q
  BY <1>5, <1>6 DEF Candidates
<1>8. ClaimLimit(q) \in Int => Len(o) <= ClaimLimit(q)
  <2> SUFFICES ASSUME ClaimLimit(q) \in Int PROVE Len(o) <= ClaimLimit(q)
    OBVIOUS
  <2> DEFINE a == ClaimLimit(q)
             b == Cardinality(Candidates(q))
  <2>1. Len(o) = Min({a, b})
    BY DEF Orders
  <2>2. a \in Int /\ b \in Int
    BY <1>4
  <2> HIDE DEF a, b
  <2>3. \E x \in {a, b} : \A y \in {a, b} : x <= y
    <3>1. CASE a <= b
      BY <2>2, <3>1
    <3>2. CASE b <= a
      BY <2>2, <3>2
    <3> QED
      BY <2>2, <3>1, <3>2
  <2>4. Min({a, b}) <= a
    BY <2>3 DEF Min
  <2> QED
    BY <2>1, <2>4 DEF a
<1>9. PICK h \in [0 .. Len(o) -> [Runs -> Statuses]] :
          /\ h[0] = step /\ h[Len(o)] = after
          /\ \A k \in 1 .. Len(o) : h[k] = ClaimStep(h[k - 1], o[k])
  BY <1>1, <1>6, ClaimTrace
<1> DEFINE Same(k) == \A r \in Runs : h[k][r] = step[r] \/ (h[k][r] = "RUNNING" /\ \E i \in 1 .. Len(o) : o[i] = r)
           P(k) == Same(k) /\ (KeysOk(step) => KeysOk(h[k])) /\ (SeqOk(step) => SeqOk(h[k]))
           S == {k \in Nat : k <= Len(o) => P(k)}
<1>10. 0 \in S
  BY <1>9
<1>11. ASSUME NEW k \in Nat, k \in S PROVE k + 1 \in S
  <2> SUFFICES ASSUME k + 1 <= Len(o) PROVE P(k + 1)
    OBVIOUS
  <2> DEFINE r == o[k + 1]
  <2>1. k + 1 \in 1 .. Len(o) /\ (k + 1) - 1 = k /\ k \in 0 .. Len(o) /\ k <= Len(o)
    BY <1>6
  <2>2. P(k)
    BY <1>11, <2>1
  <2>3. /\ h[k] \in [Runs -> Statuses] /\ h[k + 1] = ClaimStep(h[k], r) /\ r \in Runs
        /\ step[r] = "QUEUED" /\ \E i \in 1 .. Len(o) : o[i] = r
    BY <1>7, <1>9, <2>1
  <2> HIDE DEF after, claimed, r
  <2>4. CASE ~Gates(h[k], r)
    <3>1. h[k + 1] = h[k]
      BY <2>3, <2>4 DEF ClaimStep
    <3> QED
      BY <2>2, <3>1
  <2>5. CASE Gates(h[k], r)
    <3>1. h[k + 1] = [h[k] EXCEPT ![r] = "RUNNING"]
      BY <2>3, <2>5 DEF ClaimStep
    <3>2. Same(k + 1)
      BY <2>2, <2>3, <3>1
    <3>3. h[k][r] \in {"QUEUED", "RUNNING"}
      BY <2>2, <2>3
    <3>4. KeysOk(step) => KeysOk(h[k + 1])
      <4> SUFFICES ASSUME KeysOk(step) PROVE KeysOk([h[k] EXCEPT ![r] = "RUNNING"])
        BY <3>1
      <4> DEFINE st == h[k]
      <4>1. st \in [Runs -> Statuses] /\ KeysOk(st) /\ Gates(st, r) /\ r \in Runs
        BY <2>2, <2>3, <2>5
      <4> HIDE DEF st, P, Same, S
      <4>2. KeysOk([st EXCEPT ![r] = "RUNNING"])
        BY <1>1, <4>1, KeysStep
      <4> QED
        BY <4>2 DEF st
    <3>5. SeqOk(step) => SeqOk(h[k + 1])
      BY <2>2, <2>3, <2>5, <3>1, <3>3, SequenceStep
    <3> QED
      BY <3>2, <3>4, <3>5
  <2> QED
    BY <2>4, <2>5
<1>12. P(Len(o))
  <2>1. Nat \subseteq S
    <3> HIDE DEF S
    <3> QED
      BY <1>10, <1>11, NatSet
  <2> HIDE DEF P
  <2> QED
    BY <1>6, <2>1
<1>13. after \in [Runs -> Statuses]
  <2>1. Len(o) \in 0 .. Len(o)
    BY <1>6
  <2> HIDE DEF after
  <2> QED
    BY <1>9, <2>1
<1>14. \A r \in claimed : after[r] = "RUNNING" /\ \E i \in 1 .. Len(o) : o[i] = r
  <2> HIDE DEF after
  <2> QED
    BY <1>9, <1>12
<1>15. \A r \in claimed : step[r] = "QUEUED" /\ req[r].queue = q
  BY <1>7, <1>14
<1>16. IsFiniteSet(claimed) /\ Cardinality(claimed) \in Nat /\ Cardinality(claimed) <= Len(o)
  <2> DEFINE rank == [r \in claimed |-> CHOOSE i \in 1 .. Len(o) : o[i] = r]
             a == 1
             b == Len(o)
  <2> HIDE DEF claimed, after
  <2>1. \A r \in claimed : rank[r] \in 1 .. Len(o) /\ o[rank[r]] = r
    BY <1>14
  <2>2. rank \in [claimed -> a .. b] /\ \A x, y \in claimed : rank[x] = rank[y] => x = y
    BY <2>1
  <2>3. a \in Int /\ b \in Int /\ a <= b + 1 /\ b - a + 1 = Len(o)
    BY <1>6
  <2>4. rank \in Injection(claimed, a .. b)
    BY <2>2 DEF Injection, IsInjective
  <2> HIDE DEF rank
  <2>5. IsFiniteSet(a .. b) /\ Cardinality(a .. b) = Len(o)
    BY <1>6, FS_Interval
  <2> HIDE DEF a, b
  <2>6. IsFiniteSet(claimed) /\ Cardinality(claimed) <= Cardinality(a .. b)
    BY <2>4, <2>5, FS_Injection
  <2>7. Cardinality(claimed) \in Nat
    BY <2>6, FS_CardinalityType
  <2> QED
    BY <2>5, <2>6, <2>7
<1>17. ClaimLimit(q) \in Int => Cardinality(claimed) <= ClaimLimit(q)
  <2> HIDE DEF claimed
  <2> QED
    BY <1>6, <1>8, <1>16
<1>18. (KeysOk(step) => KeysOk(after)) /\ (SeqOk(step) => SeqOk(after))
  <2> HIDE DEF after
  <2> QED
    BY <1>9, <1>12
<1> HIDE DEF P, S
<1> QED
  BY <1>13, <1>14, <1>15, <1>16, <1>17, <1>18

-----------------------------------------------------------------------------
(* The invariant that holds whatever is asked for.                         *)

Base == Typed /\ Fresh /\ Opened /\ Numbered /\ OneEach(run) /\ Pending

\* Nothing is enqueued at first.
LEMMA BaseInit == Init => Base
<1> SUFFICES ASSUME Init PROVE Base
  OBVIOUS
<1>1. PICK sc \in Scenarios : req = sc.req /\ rate = sc.rate
  BY DEF Init
<1>2. sc \in [req : [Runs -> Request], rate : [Queues -> Nat]]
  BY <1>1, AdmissionAssumption
<1>3. [req |-> req, rate |-> rate] = sc
  BY <1>1, <1>2
<1>4. NoTx \in Txs
  BY DEF NoTx, NoPlan, Txs, Plans
<1>5. Typed
  <2>1. Window \in Nat
    BY AdmissionAssumption
  <2> QED
    BY <1>1, <1>2, <1>3, <1>4, <2>1 DEF Init, Typed, Statuses
<1>6. \A c \in Clients : tx[c].pc = "idle" /\ DOMAIN tx[c].batch = {}
  BY DEF Init, NoTx
<1>7. Opened
  BY <1>6 DEF Opened
<1>8. Pending
  BY <1>6 DEF Pending, PendingOk
<1> QED
  BY <1>5, <1>7, <1>8 DEF Base, Fresh, Numbered, Numbers, OneEach, Init, Live

\* What a transaction reads and decides.
LEMMA BeginFacts ==
    ASSUME Base, IsFiniteSet(Runs), NEW c \in Clients, NEW b \in Batches, BeginEnqueue(c, b)
    PROVE  /\ b \in Seq(Runs) /\ Len(b) \in Nat /\ DOMAIN b = 1 .. Len(b)
           /\ \A i \in 1 .. Len(b) : run[b[i]] = "NEW"
           /\ \A i, j \in 1 .. Len(b) : b[i] = b[j] => i = j
           /\ Resolution(b) \in Views /\ ViewOk(Resolution(b), b, Len(b))
           /\ Declared /\ Roomy(run) => Roomy(Resolution(b).run)
           /\ tx' = [tx EXCEPT ![c] = [pc |-> "write", batch |-> b, tries |-> tx[c].tries + 1,
                                       plan |-> Resolution(b).plan, seq |-> Resolution(b).seq]]
           /\ CounterFree(c, b)
           /\ UNCHANGED <<fixed, table, attempts, age, executing, paused, starts>>
<1>1. b \in Seq(Runs) /\ IsInjective(b)
  BY AdmissionAssumption
<1>2. Len(b) \in Nat /\ DOMAIN b = 1 .. Len(b)
  BY <1>1
<1>3. \A i \in 1 .. Len(b) : run[b[i]] = "NEW"
  BY <1>2 DEF BeginEnqueue, Base, Opened
<1>4. \A i, j \in 1 .. Len(b) : b[i] = b[j] => i = j
  BY <1>1, <1>2 DEF IsInjective
<1>5. /\ Resolution(b) \in Views /\ ViewOk(Resolution(b), b, Len(b))
      /\ Declared /\ Roomy(run) => Roomy(Resolution(b).run)
  BY <1>1, <1>3, <1>4, ResolutionOk DEF Base
<1>6. /\ tx' = [tx EXCEPT ![c] = [pc |-> "write", batch |-> b, tries |-> tx[c].tries + 1,
                                  plan |-> Resolution(b).plan, seq |-> Resolution(b).seq]]
      /\ CounterFree(c, b)
      /\ UNCHANGED <<fixed, table, attempts, age, executing, paused, starts>>
  BY DEF BeginEnqueue
<1> QED
  BY <1>1, <1>2, <1>3, <1>4, <1>5, <1>6

\* A transaction that reads and plans.
LEMMA BaseBegin ==
    ASSUME Base, IsFiniteSet(Runs), NEW c \in Clients, NEW b \in Batches, BeginEnqueue(c, b)
    PROVE  Base'
<1> DEFINE db == Resolution(b)
           n == Len(b)
<1>1. /\ b \in Seq(Runs) /\ n \in Nat /\ DOMAIN b = 1 .. n
      /\ \A i \in 1 .. n : run[b[i]] = "NEW"
      /\ \A i, j \in 1 .. n : b[i] = b[j] => i = j
      /\ db \in Views /\ ViewOk(db, b, n)
      /\ tx' = [tx EXCEPT ![c] = [pc |-> "write", batch |-> b, tries |-> tx[c].tries + 1,
                                  plan |-> db.plan, seq |-> db.seq]]
      /\ CounterFree(c, b)
      /\ UNCHANGED <<fixed, table, attempts, age, executing, paused, starts>>
  BY BeginFacts
<1>2. UNCHANGED <<req, rate, run, step, seq, counter, attempts, age, executing, paused, starts>>
  BY <1>1 DEF fixed, table
<1>3. db.plan \in Plans /\ db.seq \in [Runs -> Nat] /\ db.next \in Nat
  BY <1>1 DEF Views
<1>4. tx \in [Clients -> Txs]
  BY DEF Base, Typed
<1> HIDE DEF db, n
<1>5. /\ tx' \in [Clients -> Txs]
      /\ \A d \in Clients : d # c => tx'[d] = tx[d]
      /\ tx'[c].pc = "write" /\ tx'[c].batch = b /\ tx'[c].plan = db.plan /\ tx'[c].seq = db.seq
  <2>1. tx[c].tries + 1 \in Nat
    BY <1>4 DEF Txs
  <2> DEFINE t == [pc |-> "write", batch |-> b, tries |-> tx[c].tries + 1, plan |-> db.plan, seq |-> db.seq]
  <2>2. t \in Txs
    BY <1>1, <1>3, <2>1 DEF Txs
  <2>3. t.pc = "write" /\ t.batch = b /\ t.plan = db.plan /\ t.seq = db.seq
    OBVIOUS
  <2>4. tx' = [tx EXCEPT ![c] = t]
    BY <1>1
  <2> HIDE DEF t
  <2> QED
    BY <1>4, <2>2, <2>3, <2>4
<1>6. Typed'
  BY <1>2, <1>5 DEF Base, Typed
<1>7. (Fresh /\ Numbered /\ OneEach(run))'
  BY <1>2 DEF Base, Fresh, Numbered, Numbers, OneEach, Keyed
<1>8. Opened'
  <2>1. \A d \in Clients : tx'[d].pc = "write" => tx'[d].seq \in [Runs -> Nat]
    BY <1>3, <1>5 DEF Base, Opened
  <2>2. \A d \in Clients : \A i \in DOMAIN tx'[d].batch :
            /\ run[tx'[d].batch[i]] = "NEW"
            /\ \A j \in DOMAIN tx'[d].batch : tx'[d].batch[i] = tx'[d].batch[j] => i = j
    BY <1>1, <1>5 DEF Base, Opened
  <2>3. ASSUME NEW d \in Clients, d # c
        PROVE  /\ \A i \in DOMAIN b, j \in DOMAIN tx[d].batch : b[i] # tx[d].batch[j]
               /\ tx[d].pc = "write" =>
                      ~\E i \in DOMAIN b, j \in DOMAIN tx[d].batch : Keyed(b[i]) /\ Keyed(tx[d].batch[j])
    <3>1. tx[d].batch \in Seq(Runs)
      BY <1>4 DEF Txs
    <3>2. \A i \in DOMAIN b, j \in DOMAIN tx[d].batch : b[i] # tx[d].batch[j]
      BY <2>3, <3>1 DEF BeginEnqueue, Range, Base, Opened
    <3> QED
      BY <1>1, <2>3, <3>2 DEF CounterFree
  <2>4. \A x \in Runs : Keyed(x)' = Keyed(x)
    BY <1>2 DEF Keyed
  <2>5. ASSUME NEW d \in Clients, NEW e \in Clients, d # e
        PROVE  /\ \A i \in DOMAIN tx'[d].batch, j \in DOMAIN tx'[e].batch : tx'[d].batch[i] # tx'[e].batch[j]
               /\ tx'[d].pc = "write" /\ tx'[e].pc = "write" =>
                    ~\E i \in DOMAIN tx'[d].batch, j \in DOMAIN tx'[e].batch :
                         Keyed(tx'[d].batch[i]) /\ Keyed(tx'[e].batch[j])
    <3>1. CASE d = c
      BY <1>5, <2>3, <2>5, <3>1
    <3>2. CASE e = c
      BY <1>5, <2>3, <2>5, <3>2
    <3>3. CASE d # c /\ e # c
      BY <1>5, <2>5, <3>3 DEF Base, Opened
    <3> QED
      BY <3>1, <3>2, <3>3
  <2> QED
    BY <1>2, <2>1, <2>2, <2>5 DEF Opened, Keyed
<1>9. PendingOk(c)'
  <2>0. PICK p \in Plans, num \in [Runs -> Nat] : p = db.plan /\ num = db.seq
    BY <1>3
  <2>1. ~p.error =>
           /\ Grounded(p, Named(b, n)) /\ db.run = Planned(p)
           /\ Numbers(db.run, num, db.next)
           /\ \A x \in p.insert : Keyed(x) => counter < num[x]
           /\ db.next = counter + Cardinality(KeyedIn(b, n))
           /\ OneEach(db.run)
    BY <1>1, <2>0 DEF ViewOk
  <2>2. Range(b) = Named(b, n) /\ KeyedAt(b) = KeyedIn(b, n)
    BY <1>1 DEF Range, Named, KeyedAt, KeyedIn
  <2>3. ASSUME ~p.error, NEW x \in p.insert
        PROVE  /\ x \in Runs /\ db.run[x] # "NEW"
               /\ x \notin p.cancel \cup p.replace => db.run[x] \in Live
    <3>1. x \in Runs /\ db.run = Planned(p)
      BY <2>1, <2>3 DEF Plans
    <3>2. Planned(p)[x] = IF x \in p.cancel \cup p.replace THEN "CANCELLED" ELSE "QUEUED"
      BY <3>1 DEF Planned
    <3> QED
      BY <3>1, <3>2 DEF Live
  <2>4. ASSUME ~p.error, NEW x \in p.insert, Keyed(x)
        PROVE  /\ counter < num[x] /\ num[x] <= counter + Cardinality(KeyedAt(b))
               /\ \A y \in p.insert : Keyed(y) /\ y # x => num[x] # num[y]
    <3>1. \A y \in p.insert : y \in Runs /\ db.run[y] # "NEW"
      BY <2>3, <2>4
    <3> QED
      BY <2>1, <2>2, <2>4, <3>1 DEF Numbers
  <2>5. ASSUME ~p.error, NEW x \in p.insert, NEW y \in p.insert,
               x # y, req[x].unique # None, req[x].unique = req[y].unique
        PROVE  x \in p.cancel \cup p.replace \/ y \in p.cancel \cup p.replace
    <3>1. x \in Runs /\ y \in Runs
      BY DEF Plans
    <3> QED
      BY <2>1, <2>3, <2>5, <3>1 DEF OneEach
  <2>6. ~p.error => Grounded(p, Range(b))
    BY <2>1, <2>2
  <2> HIDE DEF Base
  <2>7. tx'[c].plan = p /\ tx'[c].seq = num /\ tx'[c].batch = b
    BY <1>5, <2>0
  <2>8. ~p.error => Grounded(p, Range(b))'
    BY <1>2, <2>6 DEF Grounded, Strategic
  <2>9. KeyedAt(b)' = KeyedAt(b)
    BY <1>2 DEF KeyedAt, Keyed
  <2>10. \A x \in Runs : Keyed(x)' <=> Keyed(x)
    BY <1>2 DEF Keyed
  <2>11. p.insert \subseteq Runs
    BY DEF Plans
  <2> SUFFICES ASSUME ~p.error
               PROVE  /\ Grounded(p, Range(b))'
                      /\ \A x \in p.insert : Keyed(x)' =>
                             /\ counter' < num[x] /\ num[x] <= counter' + Cardinality(KeyedAt(b)')
                             /\ \A y \in p.insert : Keyed(y)' /\ y # x => num[x] # num[y]
                      /\ \A x, y \in p.insert : x # y /\ req'[x].unique # None /\ req'[x].unique = req'[y].unique
                            => x \in p.cancel \cup p.replace \/ y \in p.cancel \cup p.replace
    BY <2>7 DEF PendingOk
  <2> QED
    BY <1>2, <2>4, <2>5, <2>8, <2>9, <2>10, <2>11
<1>10. ASSUME NEW d \in Clients, d # c PROVE PendingOk(d)'
  <2>1. PendingOk(d)
    BY DEF Base, Pending
  <2>2. tx'[d] = tx[d]
    BY <1>5, <1>10
  <2> QED
    BY <1>2, <2>1, <2>2 DEF PendingOk, Grounded, Strategic, Keyed, KeyedAt
<1> QED
  BY <1>6, <1>7, <1>8, <1>9, <1>10 DEF Base, Pending


\* An action that ends runs and steps, or none, disturbs no plan.
LEMMA BaseCalm ==
    ASSUME Base, Typed', UNCHANGED <<req, rate, seq, counter, tx>>,
           \A r \in Runs : /\ run'[r] = "NEW" <=> run[r] = "NEW"
                           /\ run'[r] \in Live => run[r] \in Live
                           /\ step'[r] = "NEW" <=> run'[r] = "NEW",
           \A r \in executing' : run'[r] # "NEW"
    PROVE  Base'
<1>1. Fresh'
  BY DEF Fresh
<1>2. tx \in [Clients -> Txs]
  BY DEF Base, Typed
<1>3. \A c \in Clients : \A i \in DOMAIN tx[c].batch : tx[c].batch[i] \in Runs
  <2> SUFFICES ASSUME NEW c \in Clients PROVE \A i \in DOMAIN tx[c].batch : tx[c].batch[i] \in Runs
    OBVIOUS
  <2>1. tx[c].batch \in Seq(Runs)
    BY <1>2 DEF Txs
  <2> QED
    BY <2>1
<1>4. Opened'
  BY <1>3 DEF Base, Opened, Keyed
<1>5. Numbered' /\ OneEach(run)'
  BY DEF Base, Numbered, Numbers, OneEach, Keyed
<1>6. Pending'
  <2> SUFFICES ASSUME NEW c \in Clients PROVE PendingOk(c)'
    BY DEF Pending
  <2>1. PendingOk(c)
    BY DEF Base, Pending
  <2>2. tx[c].plan \in Plans
    BY <1>2 DEF Txs
  <2>3. \A S : Grounded(tx[c].plan, S) => Grounded(tx[c].plan, S)'
    BY <2>2 DEF Grounded, Strategic, Plans
  <2>4. Grounded(tx[c].plan, Range(tx[c].batch)) => Grounded(tx[c].plan, Range(tx[c].batch))'
    BY <2>3
  <2> QED
    BY <2>1, <2>4 DEF PendingOk, Keyed, KeyedAt
<1> QED
  BY <1>1, <1>4, <1>5, <1>6 DEF Base

\* What a committed plan does to the tables.
Commits(c) ==
    LET p == tx[c].plan
        b == tx[c].batch
    IN /\ p \in Plans /\ b \in Seq(Runs) /\ tx[c].seq \in [Runs -> Nat] /\ ~p.error /\ ~Collides(p)
       /\ tx[c].pc = "write" /\ tx' = [tx EXCEPT ![c] = NoTx]
       /\ Grounded(p, Range(b)) /\ \A x \in Range(b) : run[x] = "NEW"
       /\ run' \in [Runs -> Statuses] /\ step' \in [Runs -> Statuses]
       /\ seq' = [x \in Runs |-> IF x \in p.insert THEN tx[c].seq[x] ELSE seq[x]]
       /\ counter' = counter + Cardinality(KeyedAt(b)) /\ Cardinality(KeyedAt(b)) \in Nat
       /\ \A x \in Runs :
             /\ run'[x] = "NEW" <=> run[x] = "NEW" /\ x \notin p.insert
             /\ step'[x] = "NEW" <=> run'[x] = "NEW"
             /\ run'[x] \in Live => x \notin p.cancel \cup p.replace
             /\ run'[x] \in Live => run'[x] = IF x \in p.insert THEN "QUEUED" ELSE run[x]
             /\ x \notin p.insert /\ step'[x] # step[x] =>
                   /\ step[x] # "NEW"
                   /\ step'[x] = "CANCELLED" \/ (step'[x] = "DELETED" /\ x \in p.cancel /\ req[x].ephemeral)
                   /\ step[x] = "QUEUED" \/ (x \in p.cancel /\ req[x].ephemeral) \/ x \in p.replace
             /\ x \in p.insert => step[x] = "NEW" /\ step'[x] \in {"QUEUED", "CANCELLED", "DELETED"}
             /\ x \in p.insert /\ step'[x] = "DELETED" => req[x].ephemeral

\* A transaction that writes nothing ends, or begins again with the same batch.
Rolls(c) ==
    /\ tx' = [tx EXCEPT ![c] = NoTx] \/ tx' = [tx EXCEPT ![c] = [@ EXCEPT !.pc = "again"]]
    /\ UNCHANGED <<run, step, seq, counter>>

\* A commit writes its plan or, on an error or a collision, nothing.
LEMMA CommitFacts ==
    ASSUME Base, NEW c \in Clients, CommitEnqueue(c)
    PROVE  /\ Commits(c) \/ Rolls(c)
           /\ UNCHANGED <<req, rate, attempts, age, executing, paused, starts>>
<1> DEFINE p == tx[c].plan
           b == tx[c].batch
           new  == p.insert
           gone == {x \in p.cancel : req[x].ephemeral}
           dead == (p.cancel \ gone) \cup p.replace
<1>1. UNCHANGED <<req, rate, attempts, age, executing, paused, starts>> /\ tx[c].pc = "write"
  BY DEF CommitEnqueue, fixed
<1>2. CASE p.error
  <2>1. tx' = [tx EXCEPT ![c] = NoTx] /\ UNCHANGED table
    BY <1>2, Zenon DEF CommitEnqueue
  <2> QED
    BY <1>1, <2>1 DEF Rolls, table
<1>3. CASE ~p.error /\ Collides(p)
  <2>1. /\ tx' = [tx EXCEPT ![c] = IF @.tries < MaxTries THEN [@ EXCEPT !.pc = "again"] ELSE NoTx]
        /\ UNCHANGED table
    BY <1>3, Zenon DEF CommitEnqueue
  <2> QED
    BY <1>1, <2>1 DEF Rolls, table
<1>4. CASE ~p.error /\ ~Collides(p)
  <2>1. tx[c] \in Txs /\ run \in [Runs -> Statuses] /\ step \in [Runs -> Statuses]
    BY DEF Base, Typed
  <2>2. p \in Plans /\ b \in Seq(Runs) /\ tx[c].seq \in [Runs -> Nat]
    BY <1>1, <2>1 DEF Txs, Base, Opened
  <2>3. Grounded(p, Range(b)) /\ \A x \in Range(b) : run[x] = "NEW"
    <3>1. Grounded(p, Range(b))
      BY <1>1, <1>4 DEF Base, Pending, PendingOk
    <3> QED
      BY <2>2, <3>1 DEF Base, Opened, Range
  <2>4. Cardinality(KeyedAt(b)) \in Nat
    <3>1. KeyedAt(b) \subseteq 1 .. Len(b) /\ Len(b) \in Nat
      BY <2>2 DEF KeyedAt
    <3>2. IsFiniteSet(1 .. Len(b))
      BY <3>1, FS_Interval
    <3> QED
      BY <3>1, <3>2, FS_Subset, FS_CardinalityType
  <2>5. /\ run'  = [x \in Runs |-> IF x \in gone THEN "DELETED"
                                   ELSE IF x \in dead /\ (x \in new \/ run[x] # "DELETED") THEN "CANCELLED"
                                   ELSE IF x \in new THEN "QUEUED" ELSE run[x]]
        /\ step' = [x \in Runs |->
              IF x \in gone THEN "DELETED"
              ELSE IF x \in new THEN IF x \in dead THEN "CANCELLED" ELSE "QUEUED"
              ELSE IF \/ x \in p.replace /\ step[x] \in {"QUEUED", "RUNNING"}
                      \/ x \in p.cancel /\ step[x] = "QUEUED"
                   THEN "CANCELLED" ELSE step[x]]
        /\ seq' = [x \in Runs |-> IF x \in new THEN tx[c].seq[x] ELSE seq[x]]
        /\ counter' = counter + Cardinality(KeyedAt(b))
        /\ tx' = [tx EXCEPT ![c] = NoTx]
    BY <1>4 DEF CommitEnqueue, KeyedAt
  <2>6. run' \in [Runs -> Statuses] /\ step' \in [Runs -> Statuses]
    BY <2>1, <2>5 DEF Statuses
  <2>7. ASSUME NEW x \in Runs
        PROVE  /\ run'[x] = "NEW" <=> run[x] = "NEW" /\ x \notin new
               /\ step'[x] = "NEW" <=> run'[x] = "NEW"
               /\ run'[x] \in Live => x \notin p.cancel \cup p.replace
               /\ run'[x] \in Live => run'[x] = IF x \in new THEN "QUEUED" ELSE run[x]
               /\ x \notin new /\ step'[x] # step[x] =>
                     /\ step[x] # "NEW"
                     /\ step'[x] = "CANCELLED" \/ (step'[x] = "DELETED" /\ x \in p.cancel /\ req[x].ephemeral)
                     /\ step[x] = "QUEUED" \/ (x \in p.cancel /\ req[x].ephemeral) \/ x \in p.replace
               /\ x \in new => step[x] = "NEW" /\ step'[x] \in {"QUEUED", "CANCELLED", "DELETED"}
               /\ x \in new /\ step'[x] = "DELETED" => req[x].ephemeral
    <3>1. step[x] = "NEW" <=> run[x] = "NEW"
      BY DEF Base, Fresh
    <3>2. /\ x \in new => run[x] = "NEW"
          /\ x \in p.cancel \cup p.replace => run[x] # "NEW" \/ x \in new
      BY <2>3 DEF Grounded
    <3>3. /\ run'[x] = IF x \in gone THEN "DELETED"
                       ELSE IF x \in dead /\ (x \in new \/ run[x] # "DELETED") THEN "CANCELLED"
                       ELSE IF x \in new THEN "QUEUED" ELSE run[x]
          /\ step'[x] = IF x \in gone THEN "DELETED"
                        ELSE IF x \in new THEN IF x \in dead THEN "CANCELLED" ELSE "QUEUED"
                        ELSE IF \/ x \in p.replace /\ step[x] \in {"QUEUED", "RUNNING"}
                                \/ x \in p.cancel /\ step[x] = "QUEUED"
                             THEN "CANCELLED" ELSE step[x]
      BY <2>5
    <3>4. /\ x \in gone <=> x \in p.cancel /\ req[x].ephemeral
          /\ x \in p.cancel \cup p.replace <=> x \in gone \/ x \in dead
          /\ x \in dead <=> (x \in p.cancel /\ x \notin gone) \/ x \in p.replace
      OBVIOUS
    <3> HIDE DEF gone, dead, new, p
    <3> QED
      BY <3>1, <3>2, <3>3, <3>4 DEF Live
  <2> HIDE DEF gone, dead
  <2> QED
    BY <1>1, <1>4, <2>2, <2>3, <2>4, <2>5, <2>6, <2>7 DEF Commits
<1> QED
  BY <1>1, <1>2, <1>3, <1>4


\* A transaction that rolls back.
LEMMA BaseRoll ==
    ASSUME Base, NEW c \in Clients, Rolls(c),
           UNCHANGED <<req, rate, attempts, age, executing, paused, starts>>
    PROVE  Base'
<1>1. tx \in [Clients -> Txs] /\ tx[c] \in Txs
  BY DEF Base, Typed
<1>2. PICK t \in Txs : /\ tx' = [tx EXCEPT ![c] = t] /\ t.pc # "write"
                       /\ t.batch = <<>> \/ t.batch = tx[c].batch
  <2>1. CASE tx' = [tx EXCEPT ![c] = NoTx]
    <3>1. NoTx \in Txs /\ NoTx.pc # "write" /\ NoTx.batch = <<>>
      BY DEF NoTx, NoPlan, Txs, Plans
    <3> QED
      BY <2>1, <3>1
  <2>2. CASE tx' = [tx EXCEPT ![c] = [@ EXCEPT !.pc = "again"]]
    <3> DEFINE t == [tx[c] EXCEPT !.pc = "again"]
    <3>1. t \in Txs /\ t.pc = "again" /\ t.batch = tx[c].batch
      BY <1>1 DEF Txs
    <3>2. tx' = [tx EXCEPT ![c] = t]
      BY <2>2
    <3> HIDE DEF t
    <3> QED
      BY <3>1, <3>2
  <2> QED
    BY <2>1, <2>2 DEF Rolls
<1>3. /\ tx' \in [Clients -> Txs]
      /\ tx'[c] = t /\ \A d \in Clients : d # c => tx'[d] = tx[d]
  BY <1>1, <1>2
<1>4. UNCHANGED <<run, step, seq, counter>>
  BY DEF Rolls
<1>5. Typed'
  BY <1>3, <1>4 DEF Base, Typed
<1>6. Fresh' /\ Numbered' /\ OneEach(run)'
  BY <1>4 DEF Base, Fresh, Numbered, Numbers, OneEach, Keyed
<1>7. Opened'
  <2>1. \A x : Keyed(x)' <=> Keyed(x)
    BY DEF Keyed
  <2>2. DOMAIN t.batch = {} \/ t.batch = tx[c].batch
    BY <1>2
  <2>3. \A d \in Clients : tx'[d].pc = "write" => tx'[d].seq \in [Runs -> Nat]
    BY <1>2, <1>3 DEF Base, Opened
  <2>4. \A d \in Clients : \A i \in DOMAIN tx'[d].batch :
           /\ run'[tx'[d].batch[i]] = "NEW"
           /\ \A j \in DOMAIN tx'[d].batch : tx'[d].batch[i] = tx'[d].batch[j] => i = j
    <3> SUFFICES ASSUME NEW d \in Clients, NEW i \in DOMAIN tx'[d].batch
                 PROVE  /\ run[tx'[d].batch[i]] = "NEW"
                        /\ \A j \in DOMAIN tx'[d].batch : tx'[d].batch[i] = tx'[d].batch[j] => i = j
      BY <1>4
    <3>1. tx'[d].batch = tx[d].batch
      BY <1>3, <2>2
    <3> QED
      BY <3>1 DEF Base, Opened
  <2>5. ASSUME NEW d \in Clients, NEW e \in Clients, d # e
        PROVE  /\ \A i \in DOMAIN tx'[d].batch, j \in DOMAIN tx'[e].batch : tx'[d].batch[i] # tx'[e].batch[j]
               /\ tx'[d].pc = "write" /\ tx'[e].pc = "write" =>
                    ~\E i \in DOMAIN tx'[d].batch, j \in DOMAIN tx'[e].batch :
                         Keyed(tx'[d].batch[i]) /\ Keyed(tx'[e].batch[j])
    <3>1. CASE d = c
      BY <1>2, <1>3, <2>2, <2>5, <3>1 DEF Base, Opened
    <3>2. CASE e = c
      BY <1>2, <1>3, <2>2, <2>5, <3>2 DEF Base, Opened
    <3>3. CASE d # c /\ e # c
      BY <1>3, <2>5, <3>3 DEF Base, Opened
    <3> QED
      BY <3>1, <3>2, <3>3
  <2> QED
    BY <2>1, <2>3, <2>4, <2>5 DEF Opened
<1>8. ASSUME NEW d \in Clients PROVE PendingOk(d)'
  <2>1. CASE d = c
    BY <1>2, <1>3, <2>1 DEF PendingOk
  <2>2. CASE d # c
    <3>1. tx'[d] = tx[d] /\ PendingOk(d)
      BY <1>3, <2>2 DEF Base, Pending
    <3> QED
      BY <1>4, <3>1 DEF PendingOk, Grounded, Strategic, Keyed, KeyedAt
  <2> QED
    BY <2>1, <2>2
<1> QED
  BY <1>5, <1>6, <1>7, <1>8 DEF Base, Pending

\* A plan carried out on a table that others have changed since it was read.
LEMMA BaseCommit ==
    ASSUME Base, NEW c \in Clients, Commits(c),
           UNCHANGED <<req, rate, attempts, age, executing, paused, starts>>
    PROVE  Base'
<1> DEFINE p == tx[c].plan
           b == tx[c].batch
           k == Cardinality(KeyedAt(b))
<1>0. /\ p \in Plans /\ b \in Seq(Runs) /\ tx[c].seq \in [Runs -> Nat] /\ ~p.error /\ ~Collides(p)
      /\ tx[c].pc = "write" /\ tx' = [tx EXCEPT ![c] = NoTx]
      /\ Grounded(p, Range(b)) /\ \A x \in Range(b) : run[x] = "NEW"
      /\ run' \in [Runs -> Statuses] /\ step' \in [Runs -> Statuses]
      /\ seq' = [x \in Runs |-> IF x \in p.insert THEN tx[c].seq[x] ELSE seq[x]]
      /\ counter' = counter + k /\ k \in Nat
  BY DEF Commits
<1>1. \A x \in Runs :
        /\ run'[x] = "NEW" <=> run[x] = "NEW" /\ x \notin p.insert
        /\ step'[x] = "NEW" <=> run'[x] = "NEW"
        /\ run'[x] \in Live => x \notin p.cancel \cup p.replace
        /\ run'[x] \in Live => run'[x] = IF x \in p.insert THEN "QUEUED" ELSE run[x]
  BY DEF Commits
<1>2. p.insert \subseteq Range(b) /\ p.insert \subseteq Runs
  BY <1>0 DEF Grounded, Plans
<1>3. tx \in [Clients -> Txs] /\ counter \in Nat /\ seq \in [Runs -> Nat]
  BY DEF Base, Typed
<1>4. /\ tx' \in [Clients -> Txs] /\ \A d \in Clients : d # c => tx'[d] = tx[d]
      /\ tx'[c].pc = "idle" /\ DOMAIN tx'[c].batch = {}
  <2>1. NoTx \in Txs /\ NoTx.pc = "idle" /\ DOMAIN NoTx.batch = {}
    BY DEF NoTx, NoPlan, Txs, Plans
  <2> QED
    BY <1>0, <1>3, <2>1
<1>5. PendingOk(c) /\ \A x : Keyed(x)' <=> Keyed(x)
  BY DEF Base, Pending, Keyed
<1> HIDE DEF p, b, k
<1>6. /\ \A x \in p.insert : Keyed(x) =>
             /\ counter < tx[c].seq[x] /\ tx[c].seq[x] <= counter + k
             /\ \A y \in p.insert : Keyed(y) /\ y # x => tx[c].seq[x] # tx[c].seq[y]
      /\ \A x, y \in p.insert : x # y /\ req[x].unique # None /\ req[x].unique = req[y].unique
            => x \in p.cancel \cup p.replace \/ y \in p.cancel \cup p.replace
  BY <1>0, <1>5 DEF PendingOk, p, b, k
<1>7. Typed'
  <2>1. seq' \in [Runs -> Nat] /\ counter' \in Nat
    BY <1>0, <1>3
  <2> QED
    BY <1>0, <1>4, <2>1 DEF Base, Typed
<1>8. Fresh'
  BY <1>0, <1>1, <1>2 DEF Base, Fresh, Typed
<1>9. Opened'
  <2>1. ASSUME NEW d \in Clients, d # c, NEW i \in DOMAIN tx[d].batch PROVE run'[tx[d].batch[i]] = "NEW"
    <3>1. tx[d].batch[i] \in Runs /\ run[tx[d].batch[i]] = "NEW"
      <4>1. tx[d].batch \in Seq(Runs)
        BY <1>3 DEF Txs
      <4> QED
        BY <2>1, <4>1 DEF Base, Opened
    <3>2. tx[d].batch[i] \notin Range(b)
      BY <2>1 DEF Base, Opened, Range, b
    <3> QED
      BY <1>1, <1>2, <3>1, <3>2
  <2>2. \A d \in Clients : tx'[d].pc = "write" => tx'[d].seq \in [Runs -> Nat]
    BY <1>4 DEF Base, Opened
  <2>3. \A d \in Clients : \A i \in DOMAIN tx'[d].batch :
           /\ run'[tx'[d].batch[i]] = "NEW"
           /\ \A j \in DOMAIN tx'[d].batch : tx'[d].batch[i] = tx'[d].batch[j] => i = j
    BY <1>4, <2>1 DEF Base, Opened
  <2>4. \A d, e \in Clients : d # e =>
           /\ \A i \in DOMAIN tx'[d].batch, j \in DOMAIN tx'[e].batch : tx'[d].batch[i] # tx'[e].batch[j]
           /\ tx'[d].pc = "write" /\ tx'[e].pc = "write" =>
                ~\E i \in DOMAIN tx'[d].batch, j \in DOMAIN tx'[e].batch :
                     Keyed(tx'[d].batch[i]) /\ Keyed(tx'[e].batch[j])
    BY <1>4 DEF Base, Opened
  <2> QED
    BY <1>5, <2>2, <2>3, <2>4 DEF Opened
<1>10. Numbered'
  <2>1. ASSUME NEW x \in Runs, run'[x] # "NEW", Keyed(x)
        PROVE  /\ seq'[x] \in Nat
               /\ x \in p.insert => seq'[x] = tx[c].seq[x] /\ counter < seq'[x] /\ seq'[x] <= counter'
               /\ x \notin p.insert => run[x] # "NEW" /\ seq'[x] = seq[x] /\ seq'[x] <= counter
    BY <1>0, <1>1, <1>3, <1>6, <2>1 DEF Base, Numbered, Numbers
  <2>2. ASSUME NEW x \in Runs, NEW y \in Runs, x # y, run'[x] # "NEW", run'[y] # "NEW", Keyed(x), Keyed(y)
        PROVE  seq'[x] # seq'[y]
    <3>1. CASE x \in p.insert /\ y \in p.insert
      BY <1>6, <2>1, <2>2, <3>1
    <3>2. CASE x \notin p.insert /\ y \notin p.insert
      BY <2>1, <2>2, <3>2 DEF Base, Numbered, Numbers
    <3>3. CASE ~(x \in p.insert <=> y \in p.insert)
      BY <1>3, <2>1, <2>2, <3>3
    <3> QED
      BY <3>1, <3>2, <3>3
  <2>3. \A x \in Runs : run'[x] # "NEW" /\ Keyed(x) => seq'[x] <= counter'
    BY <1>0, <1>3, <2>1
  <2> QED
    BY <1>5, <2>2, <2>3 DEF Numbered, Numbers
<1>11. OneEach(run)'
  <2> SUFFICES ASSUME NEW r \in Runs, NEW x \in Runs, r # x, req[r].unique # None,
                      req[x].unique = req[r].unique, run'[r] \in Live, run'[x] \in Live
               PROVE  FALSE
    BY DEF OneEach
  <2>1. CASE r \in p.insert /\ x \in p.insert
    BY <1>1, <1>6, <2>1
  <2>2. CASE r \notin p.insert /\ x \notin p.insert
    BY <1>1, <2>2 DEF Base, OneEach
  <2>3. CASE r \in p.insert /\ x \notin p.insert
    BY <1>0, <1>1, <2>3 DEF Collides
  <2>4. CASE r \notin p.insert /\ x \in p.insert
    BY <1>0, <1>1, <2>4 DEF Collides
  <2> QED
    BY <2>1, <2>2, <2>3, <2>4
<1>12. ASSUME NEW d \in Clients PROVE PendingOk(d)'
  <2>1. CASE d = c
    BY <1>4, <2>1 DEF PendingOk
  <2>2. CASE d # c /\ tx[d].pc = "write" /\ ~tx[d].plan.error
    <3>1. tx'[d] = tx[d] /\ PendingOk(d)
      BY <1>4, <2>2 DEF Base, Pending
    <3> DEFINE q == tx[d].plan
               e == tx[d].batch
    <3>2. Grounded(q, Range(e)) /\ q \in Plans
      BY <1>3, <2>2, <3>1 DEF PendingOk, Txs
    <3>3. Grounded(q, Range(e))'
      <4>1. q' = q /\ Range(e)' = Range(e)
        BY <3>1
      <4>2. \A x \in Runs : run[x] # "NEW" => run'[x] # "NEW"
        BY <1>1
      <4>3. \A x \in Runs : Strategic(x)' <=> Strategic(x)
        BY DEF Strategic
      <4>4. q.cancel \cup q.replace \subseteq Runs
        BY <3>2 DEF Plans
      <4> HIDE DEF q, e
      <4> QED
        BY <3>2, <4>1, <4>2, <4>3, <4>4 DEF Grounded
    <3>4. ASSUME NEW x \in q.insert, Keyed(x)
          PROVE  counter' = counter
      <4>1. PICK j \in DOMAIN e : e[j] = x
        BY <3>2 DEF Grounded, Range
      <4>2. \A i \in DOMAIN b : ~Keyed(b[i])
        BY <1>0, <2>2, <3>4, <4>1 DEF Base, Opened, b
      <4>3. KeyedAt(b) = {}
        BY <4>2 DEF KeyedAt
      <4> QED
        BY <1>0, <1>3, <4>3, FS_EmptySet DEF k
    <3>5. KeyedAt(tx[d].batch)' = KeyedAt(tx[d].batch)
      BY <1>5, <3>1 DEF KeyedAt
    <3> QED
      BY <1>5, <3>1, <3>3, <3>4, <3>5 DEF PendingOk
  <2>3. CASE d # c /\ ~(tx[d].pc = "write" /\ ~tx[d].plan.error)
    BY <1>4, <2>3 DEF PendingOk
  <2> QED
    BY <2>1, <2>2, <2>3
<1> QED
  BY <1>7, <1>8, <1>9, <1>10, <1>11, <1>12 DEF Base, Pending


\* What a claim, the end of a body and a tick do, for the rest of the proofs.
ClaimMade(q, claimed) ==
    /\ claimed \in SUBSET Runs /\ IsFiniteSet(claimed) /\ Cardinality(claimed) \in Nat
    /\ ClaimLimit(q) \in Int => Cardinality(claimed) <= ClaimLimit(q)
    /\ \A r \in claimed : step[r] = "QUEUED" /\ step'[r] = "RUNNING" /\ req[r].queue = q
    /\ \A r \in Runs \ claimed : step'[r] = step[r]
    /\ step' \in [Runs -> Statuses]
    /\ KeysOk(step) => KeysOk(step')
    /\ SeqOk(step) => SeqOk(step')
    /\ run' = [r \in Runs |-> IF r \in claimed /\ run[r] = "QUEUED" THEN "RUNNING" ELSE run[r]]
    /\ attempts'  = [r \in Runs |-> IF r \in claimed THEN attempts[r] + 1 ELSE attempts[r]]
    /\ age'       = [r \in Runs |-> IF r \in claimed /\ rate[q] > 0 THEN 0 ELSE age[r]]
    /\ executing' = executing \cup claimed
    /\ starts'    = [starts EXCEPT ![q][0] = IF rate[q] > 0 THEN @ + Cardinality(claimed) ELSE @]
    /\ UNCHANGED <<req, rate, seq, counter, tx, paused>>

\* Every claim is one of these.
LEMMA ClaimEffect ==
    ASSUME Typed, IsFiniteSet(Runs), NEW q \in Queues, NEW o \in Orders(q), Claim(q, o)
    PROVE  \E claimed : ClaimMade(q, claimed)
<1> DEFINE after == FoldLeft(ClaimStep, step, o)
           claimed == {r \in Runs : after[r] # step[r]}
<1>1. /\ after \in [Runs -> Statuses]
      /\ \A r \in claimed : after[r] = "RUNNING" /\ step[r] = "QUEUED" /\ req[r].queue = q
      /\ IsFiniteSet(claimed) /\ Cardinality(claimed) \in Nat
      /\ ClaimLimit(q) \in Int => Cardinality(claimed) <= ClaimLimit(q)
      /\ KeysOk(step) => KeysOk(after)
      /\ SeqOk(step) => SeqOk(after)
  BY ClaimFacts
<1>2. /\ step' = after
      /\ run' = [r \in Runs |-> IF r \in claimed /\ run[r] = "QUEUED" THEN "RUNNING" ELSE run[r]]
      /\ attempts'  = [r \in Runs |-> IF r \in claimed THEN attempts[r] + 1 ELSE attempts[r]]
      /\ age'       = [r \in Runs |-> IF r \in claimed /\ rate[q] > 0 THEN 0 ELSE age[r]]
      /\ executing' = executing \cup claimed
      /\ starts'    = [starts EXCEPT ![q][0] = IF rate[q] > 0 THEN @ + Cardinality(claimed) ELSE @]
      /\ UNCHANGED <<req, rate, seq, counter, tx, paused>>
  BY DEF Claim, fixed
<1>3. \A r \in Runs \ claimed : after[r] = step[r]
  OBVIOUS
<1>4. claimed \in SUBSET Runs
  OBVIOUS
<1> HIDE DEF after, claimed
<1>5. ClaimMade(q, claimed)
  BY <1>1, <1>2, <1>3, <1>4 DEF ClaimMade
<1> QED
  BY <1>5

Ended(r) ==
    /\ r \in executing /\ executing' = executing \ {r}
    /\ run' \in [Runs -> Statuses] /\ step' \in [Runs -> Statuses]
    /\ \A x \in Runs \ {r} : run'[x] = run[x] /\ step'[x] = step[x]
    /\ run'[r] = run[r] \/ (run[r] \in Live /\ run'[r] \in {"SUCCEEDED", "FAILED", "DELETED"})
    /\ step'[r] \notin {"NEW", "RUNNING"}
    /\ step'[r] = "QUEUED" => attempts[r] < req[r].max
    /\ step'[r] = "DELETED" /\ step[r] # "DELETED" => req[r].ephemeral
    /\ UNCHANGED <<req, rate, seq, counter, attempts, age, tx, paused, starts>>

\* Every end of a body is one of these.
LEMMA FinishFacts ==
    ASSUME Base, NEW r \in Runs, Finish(r)
    PROVE  Ended(r)
<1>1. /\ r \in executing /\ executing' = executing \ {r}
      /\ UNCHANGED <<req, rate, seq, counter, attempts, age, tx, paused, starts>>
  BY DEF Finish, fixed
<1>2. /\ run \in [Runs -> Statuses] /\ step \in [Runs -> Statuses]
      /\ run[r] # "NEW" /\ step[r] # "NEW" /\ attempts \in [Runs -> Nat]
  BY <1>1 DEF Base, Typed, Fresh
<1>3. CASE FinishLate(r)
  BY <1>1, <1>2, <1>3 DEF FinishLate, Ended, Statuses
<1>4. ASSUME NEW out \in {"SUCCEEDED", "FAILED"}, run[r] \in Live, Settle(r, out) PROVE Ended(r)
  <2>1. \E o \in {"DELETED", out} : /\ run' = [run EXCEPT ![r] = o] /\ step' = [step EXCEPT ![r] = o]
                                    /\ o = "DELETED" => req[r].ephemeral
    BY <1>4 DEF Settle
  <2> QED
    BY <1>1, <1>2, <1>4, <2>1 DEF Ended, Statuses
<1>5. CASE Retry(r)
  BY <1>1, <1>2, <1>5 DEF Retry, Ended, Statuses
<1> QED
  BY <1>3, <1>4, <1>5 DEF Finish

Ticked ==
    /\ age'    = [r \in Runs |-> IF age[r] <= Window THEN age[r] + 1 ELSE age[r]]
    /\ starts' = [q \in Queues |-> [a \in 0..Window |-> IF a = 0 THEN 0 ELSE starts[q][a - 1]]]
    /\ UNCHANGED <<req, rate, run, step, seq, counter, attempts, tx, executing, paused>>

\* Every tick is one of these.
LEMMA TickFacts == Tick => Ticked
BY DEF Tick, Ticked, fixed, table

\* A pause or a resume of a queue touches nothing else.
LEMMA PauseFacts ==
    ASSUME Typed, NEW q \in Queues, PauseQueue(q) \/ ResumeQueue(q)
    PROVE  /\ UNCHANGED <<req, rate, run, step, seq, counter, attempts, age, tx, executing, starts>>
           /\ paused' \in SUBSET Queues
BY DEF Typed, PauseQueue, ResumeQueue, fixed, table

\* A claim.
LEMMA BaseClaim ==
    ASSUME Base, NEW q \in Queues, NEW claimed, ClaimMade(q, claimed)
    PROVE  Base'
<1>1. run' \in [Runs -> Statuses] /\ attempts' \in [Runs -> Nat] /\ age' \in [Runs -> 0 .. Window + 1]
  <2>1. Window \in Nat
    BY AdmissionAssumption
  <2>2. 0 \in 0 .. Window + 1
    BY <2>1
  <2> QED
    BY <2>2 DEF Base, Typed, ClaimMade, Statuses
<1>2. starts' \in [Queues -> [0 .. Window -> Nat]]
  <2>1. starts \in [Queues -> [0 .. Window -> Nat]] /\ Cardinality(claimed) \in Nat
    BY DEF Base, Typed, ClaimMade
  <2>2. 0 \in 0 .. Window
    BY AdmissionAssumption
  <2> DEFINE v == IF rate[q] > 0 THEN starts[q][0] + Cardinality(claimed) ELSE starts[q][0]
  <2>3. v \in Nat
    <3>1. starts[q] \in [0 .. Window -> Nat]
      BY <2>1
    <3>2. starts[q][0] \in Nat /\ (starts[q][0] + Cardinality(claimed)) \in Nat
      BY <2>1, <2>2, <3>1
    <3> QED
      BY <3>2
  <2>4. starts' = [starts EXCEPT ![q][0] = v]
    BY DEF ClaimMade
  <2> HIDE DEF v
  <2> QED
    BY <2>1, <2>2, <2>3, <2>4
<1>3. Typed'
  BY <1>1, <1>2 DEF Base, Typed, ClaimMade
<1>4. \A r \in Runs : /\ run'[r] = "NEW" <=> run[r] = "NEW"
                      /\ run'[r] \in Live => run[r] \in Live
                      /\ step'[r] = "NEW" <=> step[r] = "NEW"
  BY DEF Base, Typed, ClaimMade, Live
<1>5. \A r \in executing' : run'[r] # "NEW"
  <2>1. \A r \in executing' : r \in Runs /\ (r \in executing \/ step[r] = "QUEUED")
    BY DEF Base, Typed, ClaimMade
  <2> QED
    BY <1>4, <2>1 DEF Base, Fresh
<1> QED
  BY <1>3, <1>4, <1>5, BaseCalm DEF Base, Fresh, ClaimMade

\* The end of a body.
LEMMA BaseFinish ==
    ASSUME Base, NEW r \in Runs, Ended(r)
    PROVE  Base'
<1>1. Typed'
  BY DEF Base, Typed, Ended
<1>2. \A x \in Runs : /\ run'[x] = "NEW" <=> run[x] = "NEW"
                      /\ run'[x] \in Live => run[x] \in Live
                      /\ step'[x] = "NEW" <=> run'[x] = "NEW"
  BY DEF Base, Fresh, Ended, Live
<1>3. \A x \in executing' : run'[x] # "NEW"
  BY <1>2 DEF Base, Typed, Fresh, Ended
<1> QED
  BY <1>1, <1>2, <1>3, BaseCalm DEF Ended

\* The passing of time.
LEMMA BaseTick ==
    ASSUME Base, Ticked
    PROVE  Base'
<1>1. age' \in [Runs -> 0 .. Window + 1]
  <2>1. Window \in Nat /\ age \in [Runs -> 0 .. Window + 1]
    BY AdmissionAssumption DEF Base, Typed
  <2>2. \A x \in 0 .. Window + 1 : (IF x <= Window THEN x + 1 ELSE x) \in 0 .. Window + 1
    BY <2>1
  <2> QED
    BY <2>1, <2>2 DEF Ticked
<1>2. starts' \in [Queues -> [0 .. Window -> Nat]]
  <2>1. Window \in Nat /\ starts \in [Queues -> [0 .. Window -> Nat]]
    BY AdmissionAssumption DEF Base, Typed
  <2>2. \A q \in Queues : \A a \in 0 .. Window : (IF a = 0 THEN 0 ELSE starts[q][a - 1]) \in Nat
    <3>1. \A a \in 0 .. Window : a # 0 => a - 1 \in 0 .. Window
      BY <2>1
    <3> QED
      BY <2>1, <3>1
  <2> QED
    BY <2>2 DEF Ticked
<1>3. Typed'
  BY <1>1, <1>2 DEF Base, Typed, Ticked
<1> QED
  BY <1>3, BaseCalm DEF Base, Fresh, Ticked

\* Base is inductive.
LEMMA BaseStep ==
    ASSUME Base, IsFiniteSet(Runs), [Next]_vars
    PROVE  Base'
<1>1. ASSUME NEW c \in Clients, NEW b \in Batches, BeginEnqueue(c, b) PROVE Base'
  BY <1>1, BaseBegin
<1>2. ASSUME NEW c \in Clients, CommitEnqueue(c) PROVE Base'
  BY <1>2, CommitFacts, BaseCommit, BaseRoll
<1>3. ASSUME NEW q \in Queues, NEW o \in Orders(q), Claim(q, o) PROVE Base'
  BY <1>3, ClaimEffect, BaseClaim DEF Base
<1>4. ASSUME NEW q \in Queues, PauseQueue(q) \/ ResumeQueue(q) PROVE Base'
  <2>1. /\ UNCHANGED <<req, rate, run, step, seq, counter, attempts, age, tx, executing, starts>>
        /\ paused' \in SUBSET Queues
    BY <1>4, PauseFacts DEF Base
  <2>2. Typed'
    BY <2>1 DEF Base, Typed
  <2> QED
    BY <2>1, <2>2, BaseCalm DEF Base, Fresh
<1>5. ASSUME NEW r \in Runs, Finish(r) PROVE Base'
  BY <1>5, FinishFacts, BaseFinish
<1>6. CASE Tick
  BY <1>6, TickFacts, BaseTick
<1>7. CASE UNCHANGED vars
  <2>1. UNCHANGED <<req, rate, run, step, seq, counter, attempts, age, tx, executing, paused, starts>>
    BY <1>7 DEF vars, fixed, table
  <2>2. Typed'
    BY <2>1 DEF Base, Typed
  <2> QED
    BY <2>1, <2>2, BaseCalm DEF Base, Fresh
<1> QED
  BY <1>1, <1>2, <1>3, <1>4, <1>5, <1>6, <1>7 DEF Next


-----------------------------------------------------------------------------
(* EnqueuePromises, where every strategy declares its limit.               *)

Room == Roomy(run) /\ RoomyPending

Calmer(st, st2) ==
    \A x \in Runs : req[x].key # None => /\ st2[x] \in Live => st[x] \in Live
                                         /\ st2[x] = "QUEUED" => st[x] = "QUEUED"

\* The hypothesis, for the requests of this behaviour.
LEMMA DeclaredBy == DeclaresLimits /\ Typed => Declared
<1> SUFFICES ASSUME DeclaresLimits, Typed PROVE Declared
  OBVIOUS
<1> DEFINE sc == [req |-> req, rate |-> rate]
<1>1. sc \in Scenarios /\ sc.req = req
  BY DEF Typed
<1> HIDE DEF sc
<1>2. \A r \in Runs : sc.req[r].strategy # "hold" /\ sc.req[r].key # None => sc.req[r].limit > 0
  BY <1>1 DEF DeclaresLimits
<1> QED
  BY <1>1, <1>2 DEF Declared

\* No group has a run at first.
LEMMA RoomInit == Init /\ Typed => Room
<1> SUFFICES ASSUME Init, Typed PROVE Room
  OBVIOUS
<1>1. \A c \in Clients : tx[c].pc = "idle"
  BY DEF Init, NoTx
<1>2. ASSUME NEW r \in Runs PROVE Cardinality({x \in Group(r) : run[x] \in Counted(r)}) <= req[r].limit
  <2>1. {x \in Group(r) : run[x] \in Counted(r)} = {}
    BY DEF Init, Counted, Live, Group
  <2>2. req[r].limit \in Nat
    BY DEF Typed, Request
  <2> QED
    BY <2>1, <2>2, FS_EmptySet
<1> QED
  BY <1>1, <1>2 DEF Room, Roomy, RoomyPending

\* Roomy looks at the requests, which never change.
LEMMA RoomyPrime ==
    ASSUME req' = req, NEW st
    PROVE  Roomy(st)' <=> Roomy(st')
BY DEF Roomy, Uniform, Group, Counted, Live

\* An action that only ends or starts runs leaves every group its room.
LEMMA RoomCalm ==
    ASSUME Typed, IsFiniteSet(Runs), Room, req' = req, Calmer(run, run'),
           \A c \in Clients : tx'[c].pc = "write" => tx'[c] = tx[c]
    PROVE  Room'
<1>1. Roomy(run)'
  <2>1. Roomy(run')
    BY RoomyShrinks DEF Typed, Room, Calmer
  <2> QED
    BY <2>1 DEF Roomy, Uniform, Group, Counted, Live
<1>2. ASSUME NEW c \in Clients, tx'[c].pc = "write", ~tx'[c].plan.error, KeyedAt(tx[c].batch)' # {}
      PROVE  Roomy(Planned(tx[c].plan))'
  <2>1. PICK p : p = tx[c].plan
    OBVIOUS
  <2>2. tx'[c] = tx[c] /\ KeyedAt(tx[c].batch)' = KeyedAt(tx[c].batch)
    BY <1>2 DEF KeyedAt, Keyed
  <2>3. Roomy(Planned(p))
    BY <1>2, <2>1, <2>2 DEF Room, RoomyPending
  <2> DEFINE st == Planned(p)
             st2 == [x \in Runs |-> IF x \in p.cancel \cup p.replace THEN "CANCELLED"
                                    ELSE IF x \in p.insert THEN "QUEUED" ELSE run'[x]]
  <2>4. \A x \in Runs : req[x].key # None => /\ st2[x] \in Live => st[x] \in Live
                                             /\ st2[x] = "QUEUED" => st[x] = "QUEUED"
    BY DEF Calmer, Planned
  <2> HIDE DEF st, st2
  <2>5. Roomy(st2)
    BY <2>3, <2>4, RoomyShrinks DEF Typed, st
  <2>6. Planned(tx[c].plan)' = st2
    BY <2>1, <2>2 DEF Planned, st2
  <2> QED
    BY <2>5, <2>6 DEF Roomy, Uniform, Group, Counted, Live
<1> QED
  BY <1>1, <1>2 DEF Room, RoomyPending

\* What is planned leaves every group its room.
LEMMA RoomBegin ==
    ASSUME Base, IsFiniteSet(Runs), Declared, Room, NEW c \in Clients, NEW b \in Batches, BeginEnqueue(c, b)
    PROVE  Room'
<1> DEFINE db == Resolution(b)
           n == Len(b)
<1>1. /\ db \in Views /\ ViewOk(db, b, n)
      /\ Roomy(db.run)
      /\ tx' = [tx EXCEPT ![c] = [pc |-> "write", batch |-> b, tries |-> tx[c].tries + 1,
                                  plan |-> db.plan, seq |-> db.seq]]
      /\ UNCHANGED <<fixed, table>>
  BY BeginFacts DEF Room
<1>2. PICK p : p = db.plan
  OBVIOUS
<1>3. Roomy(Planned(p))
  BY <1>1, <1>2 DEF ViewOk
<1>4. req' = req /\ run' = run
  BY <1>1 DEF fixed, table
<1>5. tx \in [Clients -> Txs]
  BY DEF Base, Typed
<1>6. tx'[c].plan = p /\ \A d \in Clients : d # c => tx'[d] = tx[d]
  BY <1>1, <1>2, <1>5
<1> HIDE DEF db, n
<1>7. Roomy(Planned(p))'
  BY <1>3, <1>4 DEF Roomy, Planned, Uniform, Group, Counted, Live
<1>8. ASSUME NEW d \in Clients, tx'[d].pc = "write", ~tx'[d].plan.error, KeyedAt(tx[d].batch)' # {}
      PROVE  Roomy(Planned(tx[d].plan))'
  <2>1. CASE d = c
    <3>1. Planned(tx[d].plan)' = Planned(p)'
      BY <1>6, <2>1 DEF Planned
    <3> QED
      BY <1>7, <3>1 DEF Roomy
  <2>2. CASE d # c
    <3>1. tx'[d] = tx[d]
      BY <1>6, <2>2
    <3>2. KeyedAt(tx[d].batch)' = KeyedAt(tx[d].batch)
      BY <1>4, <3>1 DEF KeyedAt, Keyed
    <3>3. Roomy(Planned(tx[d].plan))
      BY <1>8, <3>1, <3>2 DEF Room, RoomyPending
    <3>4. Planned(tx[d].plan)' = Planned(tx[d].plan)
      BY <1>4, <3>1 DEF Planned
    <3> QED
      BY <1>4, <3>3, <3>4 DEF Roomy, Uniform, Group, Counted
  <2> QED
    BY <2>1, <2>2
<1>9. Roomy(run)'
  BY <1>4 DEF Room, Roomy, Uniform, Group, Counted, Live
<1> QED
  BY <1>8, <1>9 DEF Room, RoomyPending

\* What is written does so too: the lock kept out every other plan with keys.
LEMMA RoomCommit ==
    ASSUME Base, IsFiniteSet(Runs), Room, NEW c \in Clients, Commits(c), req' = req
    PROVE  Room'
<1> DEFINE p == tx[c].plan
           b == tx[c].batch
<1>1. /\ p \in Plans /\ b \in Seq(Runs) /\ ~p.error /\ tx[c].pc = "write" /\ tx' = [tx EXCEPT ![c] = NoTx]
      /\ Grounded(p, Range(b))
  BY DEF Commits
<1>2. \A x \in Runs : /\ run'[x] \in Live => x \notin p.cancel \cup p.replace
                      /\ run'[x] \in Live => run'[x] = IF x \in p.insert THEN "QUEUED" ELSE run[x]
  BY DEF Commits
<1>3. \A d \in Clients : tx'[d].pc = "write" => tx'[d] = tx[d] /\ d # c
  BY <1>1 DEF NoTx, Base, Typed
<1>4. CASE KeyedAt(b) = {}
  <2>1. \A x \in p.insert : ~Keyed(x)
    BY <1>1, <1>4 DEF Grounded, Range, KeyedAt
  <2>2. Calmer(run, run')
    BY <1>2, <2>1 DEF Calmer, Keyed, Live
  <2> QED
    BY <1>3, <2>2, RoomCalm DEF Base
<1>5. CASE KeyedAt(b) # {}
  <2>1. Roomy(Planned(p))
    BY <1>1, <1>5 DEF Room, RoomyPending
  <2>2. \A x \in Runs : run'[x] \in Live => Planned(p)[x] = run'[x]
    BY <1>2 DEF Planned
  <2>3. Roomy(run')
    BY <2>1, <2>2, RoomyShrinks DEF Base, Typed, Live
  <2>4. Roomy(run)'
    BY <2>3 DEF Roomy, Uniform, Group, Counted, Live
  <2>5. ASSUME NEW d \in Clients, tx'[d].pc = "write" PROVE KeyedAt(tx[d].batch)' = {}
    <3>1. tx'[d] = tx[d] /\ d # c
      BY <1>3, <2>5
    <3>2. PICK i \in DOMAIN b : Keyed(b[i])
      BY <1>5 DEF KeyedAt
    <3>3. \A j \in DOMAIN tx[d].batch : ~Keyed(tx[d].batch[j])
      BY <1>1, <2>5, <3>1, <3>2 DEF Base, Opened
    <3> QED
      BY <3>1, <3>3 DEF KeyedAt, Keyed
  <2> QED
    BY <2>4, <2>5 DEF Room, RoomyPending
<1> QED
  BY <1>4, <1>5

\* Room is inductive.
LEMMA RoomStep ==
    ASSUME Base, IsFiniteSet(Runs), Declared, Room, [Next]_vars
    PROVE  Room'
<1>1. ASSUME NEW c \in Clients, NEW b \in Batches, BeginEnqueue(c, b) PROVE Room'
  BY <1>1, RoomBegin
<1>2. ASSUME NEW c \in Clients, CommitEnqueue(c) PROVE Room'
  <2>1. (Commits(c) \/ Rolls(c)) /\ req' = req
    BY <1>2, CommitFacts
  <2>2. CASE Rolls(c)
    <3>1. \A d \in Clients : tx'[d].pc = "write" => tx'[d] = tx[d]
      BY <2>2 DEF Rolls, NoTx, Base, Typed, Txs
    <3>2. Calmer(run, run')
      BY <2>2 DEF Rolls, Calmer
    <3> QED
      BY <2>1, <3>1, <3>2, RoomCalm DEF Base
  <2> QED
    BY <2>1, <2>2, RoomCommit
<1>3. ASSUME NEW q \in Queues, NEW o \in Orders(q), Claim(q, o) PROVE Room'
  <2>1. PICK claimed : ClaimMade(q, claimed)
    BY <1>3, ClaimEffect DEF Base
  <2>2. Calmer(run, run') /\ req' = req /\ tx' = tx
    BY <2>1 DEF ClaimMade, Calmer, Live
  <2> QED
    BY <2>2, RoomCalm DEF Base
<1>4. ASSUME NEW q \in Queues, PauseQueue(q) \/ ResumeQueue(q) PROVE Room'
  <2>1. req' = req /\ run' = run /\ tx' = tx
    BY <1>4, PauseFacts DEF Base
  <2> QED
    BY <2>1, RoomCalm DEF Base, Calmer
<1>5. ASSUME NEW r \in Runs, Finish(r) PROVE Room'
  <2>1. Ended(r)
    BY <1>5, FinishFacts
  <2>2. Calmer(run, run') /\ req' = req /\ tx' = tx
    BY <2>1 DEF Ended, Calmer, Live
  <2> QED
    BY <2>2, RoomCalm DEF Base
<1>6. CASE Tick
  <2>1. req' = req /\ run' = run /\ tx' = tx
    BY <1>6, TickFacts DEF Ticked
  <2> QED
    BY <2>1, RoomCalm DEF Base, Calmer
<1>7. CASE UNCHANGED vars
  <2>1. req' = req /\ run' = run /\ tx' = tx
    BY <1>7 DEF vars, fixed, table
  <2> QED
    BY <2>1, RoomCalm DEF Base, Calmer
<1> QED
  BY <1>1, <1>2, <1>3, <1>4, <1>5, <1>6, <1>7 DEF Next

\* Whatever enqueues race, a unique key is held by one live run and a cancel
\* strategy leaves no more than its limit, provided the limit is declared (a
\* strategy without one is never applied).
THEOREM PromisesKept ==
    ASSUME IsFiniteSet(Runs), DeclaresLimits
    PROVE  Spec => []EnqueuePromises
<1>1. Init => Base /\ Room
  BY BaseInit, RoomInit DEF Base
<1>2. Base /\ Room /\ [Next]_vars => (Base /\ Room)'
  BY BaseStep, RoomStep, DeclaredBy DEF Base
<1>3. Base /\ Room => EnqueuePromises
  <2> SUFFICES ASSUME Base, Room PROVE EnqueuePromises
    OBVIOUS
  <2>1. OneEach(run) /\ Declared /\ Roomy(run)
    BY DeclaredBy DEF Base, Room
  <2>2. ASSUME NEW r \in Runs, req[r].strategy # "hold", req[r].key # None,
               \A x \in Runs : req[x].key = req[r].key =>
                   req[x].strategy = req[r].strategy /\ req[x].limit = req[r].limit
        PROVE  Cardinality({x \in Group(r) : run[x] \in Counted(r)}) <= KeyLimit(r)
    <3>1. Uniform(r)
      BY <2>2 DEF Uniform, Group
    <3>2. req[r].limit > 0 /\ req[r].limit \in Nat
      BY <2>1, <2>2 DEF Declared, Base, Typed, Request
    <3> QED
      BY <2>1, <3>1, <3>2 DEF Roomy, KeyLimit
  <2>3. ASSUME NEW r \in Runs, req[r].strategy # "hold", req[r].key # None,
               \A x \in Runs : req[x].key = req[r].key =>
                   req[x].strategy = req[r].strategy /\ req[x].limit = req[r].limit
        PROVE  LET mates == {x \in Runs : req[x].key = req[r].key /\ run[x] \in Live}
               IN IF req[r].strategy \in {"cancelNewest", "cancelInProgress"}
                  THEN Cardinality(mates) <= KeyLimit(r)
                  ELSE Cardinality({x \in mates : run[x] = "QUEUED"}) <= KeyLimit(r)
    <3> DEFINE mates == {x \in Runs : req[x].key = req[r].key /\ run[x] \in Live}
    <3>1. CASE req[r].strategy \in {"cancelNewest", "cancelInProgress"}
      <4>1. mates = {x \in Group(r) : run[x] \in Counted(r)}
        BY <3>1 DEF Group, Counted
      <4> QED
        BY <2>2, <2>3, <3>1, <4>1
    <3>2. CASE req[r].strategy \notin {"cancelNewest", "cancelInProgress"}
      <4>1. {x \in mates : run[x] = "QUEUED"} = {x \in Group(r) : run[x] \in Counted(r)}
        BY <3>2 DEF Group, Counted, Live
      <4> QED
        BY <2>2, <2>3, <3>2, <4>1
    <3> QED
      BY <3>1, <3>2
  <2> QED
    BY <2>1, <2>3 DEF EnqueuePromises, OneEach
<1> QED
  BY <1>1, <1>2, <1>3, PTL DEF Spec


-----------------------------------------------------------------------------
(* QueueLimitsRespected, where a run of a queue with a rate starts once.   *)

\* Two parts of a finite set that do not meet.
LEMMA DisjointCount ==
    ASSUME NEW A, NEW B, IsFiniteSet(A), IsFiniteSet(B), A \cap B = {}
    PROVE  /\ IsFiniteSet(A \cup B) /\ Cardinality(A) \in Nat /\ Cardinality(B) \in Nat
           /\ Cardinality(A \cup B) = Cardinality(A) + Cardinality(B)
<1>1. /\ IsFiniteSet(A \cup B)
      /\ Cardinality(A \cup B) = Cardinality(A) + Cardinality(B) - Cardinality(A \cap B)
  BY FS_Union
<1>2. Cardinality(A \cap B) = 0
  BY FS_EmptySet
<1>3. Cardinality(A) \in Nat /\ Cardinality(B) \in Nat
  BY FS_CardinalityType
<1> QED
  BY <1>1, <1>2, <1>3

\* The fold of +, written out.
Total(n, g) ==
    LET it == CHOOSE it : it = [T \in SUBSET (0 .. n) |->
                  IF T = {} THEN 0 ELSE LET x == CHOOSE x \in T : TRUE IN g[x] + it[T \ {x}]]
    IN it[0 .. n]

\* g counts the members of R by what f gives them.
Counts(n, R, f, g) ==
    /\ n \in Nat /\ IsFiniteSet(R) /\ g \in [0 .. n -> Nat]
    /\ \A a \in 0 .. n : g[a] = Cardinality({r \in R : f[r] = a})
Members(n, R, f) == {r \in R : f[r] \in 0 .. n}

\* The sum of the sizes of the groups of a set is its size.
LEMMA SumOfGroups ==
    ASSUME NEW n, NEW R, NEW f, NEW g, Counts(n, R, f, g)
    PROVE  Total(n, g) = Cardinality(Members(n, R, f))
<1>0. /\ n \in Nat /\ IsFiniteSet(R) /\ g \in [0 .. n -> Nat]
      /\ \A a \in 0 .. n : g[a] = Cardinality({r \in R : f[r] = a})
  BY DEF Counts
<1> DEFINE D == 0 .. n
           W(T) == {r \in R : f[r] \in T}
           pick(T) == CHOOSE x \in T : TRUE
           Rec(it) == it = [T \in SUBSET D |-> IF T = {} THEN 0 ELSE g[pick(T)] + it[T \ {pick(T)}]]
           it == CHOOSE it : Rec(it)
<1>1. Total(n, g) = it[D]
  BY DEF Total
<1>2. \A T : IsFiniteSet(W(T)) /\ Cardinality(W(T)) \in Nat
  <2> SUFFICES ASSUME NEW T PROVE IsFiniteSet(W(T)) /\ Cardinality(W(T)) \in Nat
    OBVIOUS
  <2>1. W(T) \subseteq R
    OBVIOUS
  <2> HIDE DEF W
  <2> QED
    BY <1>0, <2>1, FS_Subset, FS_CardinalityType
<1>3. ASSUME NEW T \in SUBSET D, T # {}
      PROVE  /\ pick(T) \in T /\ T \ {pick(T)} \in SUBSET D /\ g[pick(T)] \in Nat
             /\ Cardinality(W(T)) = g[pick(T)] + Cardinality(W(T \ {pick(T)}))
  <2>1. pick(T) \in T /\ pick(T) \in D
    BY <1>3
  <2> DEFINE x == pick(T)
  <2> HIDE DEF pick, it, D
  <2>2. g[x] = Cardinality(W({x})) /\ g[x] \in Nat
    <3>1. W({x}) = {r \in R : f[r] = x}
      OBVIOUS
    <3> QED
      BY <1>0, <2>1, <3>1 DEF D
  <2>3. W(T) = W({x}) \cup W(T \ {x}) /\ W({x}) \cap W(T \ {x}) = {}
    BY <2>1
  <2> HIDE DEF W
  <2>4. Cardinality(W(T)) = Cardinality(W({x})) + Cardinality(W(T \ {x}))
    BY <1>2, <2>3, DisjointCount
  <2> QED
    BY <2>1, <2>2, <2>4
<1>4. W({}) = {} /\ Cardinality(W({})) = 0
  BY FS_EmptySet
<1> HIDE DEF pick, W
<1>5. Rec(it)
  <2> DEFINE h == [T \in SUBSET D |-> Cardinality(W(T))]
  <2> HIDE DEF it
  <2>1. ASSUME NEW T \in SUBSET D
        PROVE  h[T] = IF T = {} THEN 0 ELSE g[pick(T)] + h[T \ {pick(T)}]
    BY <1>3, <1>4
  <2>2. h = [T \in SUBSET D |-> h[T]]
    OBVIOUS
  <2> HIDE DEF h, D
  <2>3. Rec(h)
    BY <2>1, <2>2
  <2> HIDE DEF Rec
  <2>4. Rec(CHOOSE i : Rec(i))
    BY <2>3
  <2> QED
    BY <2>4 DEF it
<1> HIDE DEF it
<1>6. \A T \in SUBSET D : it[T] = IF T = {} THEN 0 ELSE g[pick(T)] + it[T \ {pick(T)}]
  <2> HIDE DEF D
  <2> QED
    BY <1>5
<1> DEFINE bad == {Cardinality(T) : T \in {U \in SUBSET D : it[U] # Cardinality(W(U))}}
<1> HIDE DEF Rec
<1>7. \A T \in SUBSET D : IsFiniteSet(T) /\ Cardinality(T) \in Nat
  <2>1. IsFiniteSet(D)
    BY <1>0, FS_Interval
  <2> HIDE DEF D
  <2> QED
    BY <2>1, FS_Subset, FS_CardinalityType
<1> HIDE DEF D
<1>8. bad = {}
  <2> SUFFICES ASSUME bad # {} PROVE FALSE
    OBVIOUS
  <2>1. bad \subseteq Nat
    BY <1>7
  <2>2. IsWellFoundedOn(OpToRel(<, Nat), Nat)
    BY NatLessThanWellFounded
  <2>3. PICK m \in bad : \A y \in bad : ~(<<y, m>> \in OpToRel(<, Nat))
    <3> HIDE DEF bad
    <3> QED
      BY <2>1, <2>2, WFMin
  <2>4. PICK T \in SUBSET D : m = Cardinality(T) /\ it[T] # Cardinality(W(T))
    OBVIOUS
  <2>5. T # {}
    BY <1>4, <1>6, <2>4
  <2> DEFINE U == T \ {pick(T)}
  <2>6. /\ pick(T) \in T /\ U \in SUBSET D
        /\ Cardinality(W(T)) = g[pick(T)] + Cardinality(W(U))
        /\ it[T] = g[pick(T)] + it[U]
    BY <1>3, <1>6, <2>5
  <2>7. Cardinality(U) \in Nat /\ Cardinality(U) < m /\ m \in Nat
    <3>1. Cardinality(U) = Cardinality(T) - 1 /\ Cardinality(T) \in Nat
      BY <1>7, <2>6, FS_RemoveElement
    <3>2. Cardinality(U) \in Nat
      BY <1>7, <2>6
    <3> QED
      BY <2>4, <3>1, <3>2
  <2>8. Cardinality(U) \notin bad
    BY <2>3, <2>7 DEF OpToRel
  <2>9. it[U] = Cardinality(W(U))
    <3> HIDE DEF U
    <3> QED
      BY <2>6, <2>8
  <2> QED
    BY <2>4, <2>6, <2>9
<1>9. it[D] = Cardinality(W(D))
  <2>1. D \in SUBSET D
    OBVIOUS
  <2>2. Cardinality(D) \notin bad
    BY <1>8
  <2> QED
    BY <2>1, <2>2
<1>10. W(D) = Members(n, R, f)
  BY DEF W, D, Members
<1> QED
  BY <1>1, <1>9, <1>10


\* The slots are inductive: a claim takes no more than are free.
LEMMA SlotsStep ==
    ASSUME Base, IsFiniteSet(Runs), SlotsOk, [Next]_vars
    PROVE  SlotsOk'
<1>0. /\ executing \in SUBSET Runs /\ rate \in [Queues -> Nat] /\ Slots \in [Queues -> Nat]
      /\ \A q \in Queues : IsFiniteSet(InQueue(q)) /\ Cardinality(InQueue(q)) \in Nat
  <2>1. executing \in SUBSET Runs /\ rate \in [Queues -> Nat] /\ Slots \in [Queues -> Nat]
    BY AdmissionAssumption DEF Base, Typed
  <2>2. \A q \in Queues : InQueue(q) \subseteq Runs
    BY <2>1 DEF InQueue
  <2> QED
    BY <2>1, <2>2, FS_Subset, FS_CardinalityType
<1>1. ASSUME executing' \subseteq executing, req' = req PROVE SlotsOk'
  <2> SUFFICES ASSUME NEW q \in Queues PROVE Cardinality(InQueue(q)') <= Slots[q]
    BY DEF SlotsOk
  <2>1. InQueue(q)' \subseteq InQueue(q)
    BY <1>1 DEF InQueue
  <2>2. Cardinality(InQueue(q)') <= Cardinality(InQueue(q)) /\ Cardinality(InQueue(q)') \in Nat
    BY <1>0, <2>1, FS_Subset, FS_CardinalityType
  <2>3. Cardinality(InQueue(q)) <= Slots[q]
    BY DEF SlotsOk
  <2> QED
    BY <1>0, <2>2, <2>3
<1>2. ASSUME NEW q \in Queues, NEW o \in Orders(q), Claim(q, o) PROVE SlotsOk'
  <2>1. PICK claimed : ClaimMade(q, claimed)
    BY <1>2, ClaimEffect DEF Base
  <2>2. /\ IsFiniteSet(claimed) /\ Cardinality(claimed) \in Nat /\ claimed \in SUBSET Runs
        /\ ClaimLimit(q) \in Int => Cardinality(claimed) <= ClaimLimit(q)
        /\ executing' = executing \cup claimed /\ req' = req
        /\ \A r \in claimed : req[r].queue = q
    BY <2>1 DEF ClaimMade
  <2>3. Cardinality(claimed) <= Slots[q] - Cardinality(InQueue(q))
    <3>1. Cardinality(Started(q)) \in Nat
      <4>1. Started(q) \subseteq Runs
        BY DEF Started
      <4> QED
        BY <4>1, FS_Subset, FS_CardinalityType
    <3> DEFINE free == Slots[q] - Cardinality(InQueue(q))
               left == rate[q] - Cardinality(Started(q))
    <3>2. ClaimLimit(q) = IF rate[q] > 0 /\ left < free THEN left ELSE free
      BY DEF ClaimLimit, InQueue
    <3>3. free \in Int /\ left \in Int
      BY <1>0, <3>1
    <3> HIDE DEF free, left
    <3>4. ClaimLimit(q) \in Int /\ ClaimLimit(q) <= free
      BY <3>2, <3>3
    <3> QED
      BY <2>2, <3>3, <3>4 DEF free
  <2> SUFFICES ASSUME NEW p \in Queues PROVE Cardinality(InQueue(p)') <= Slots[p]
    BY DEF SlotsOk
  <2>4. CASE p = q
    <3>1. InQueue(q)' = InQueue(q) \cup claimed
      BY <1>0, <2>2 DEF InQueue
    <3>2. /\ Cardinality(InQueue(q) \cup claimed)
                = Cardinality(InQueue(q)) + Cardinality(claimed) - Cardinality(InQueue(q) \cap claimed)
          /\ Cardinality(InQueue(q) \cap claimed) \in Nat
      <4>1. IsFiniteSet(InQueue(q)) /\ IsFiniteSet(InQueue(q) \cap claimed)
        BY <1>0, <2>2, FS_Subset
      <4> QED
        BY <2>2, <4>1, FS_Union, FS_CardinalityType
    <3> QED
      BY <1>0, <2>2, <2>3, <2>4, <3>1, <3>2
  <2>5. CASE p # q
    <3>1. InQueue(p)' = InQueue(p)
      BY <1>0, <2>2, <2>5 DEF InQueue
    <3> QED
      BY <3>1 DEF SlotsOk
  <2> QED
    BY <2>4, <2>5
<1>3. ASSUME NEW c \in Clients, NEW b \in Batches, BeginEnqueue(c, b) PROVE SlotsOk'
  BY <1>1, <1>3 DEF BeginEnqueue, fixed
<1>4. ASSUME NEW c \in Clients, CommitEnqueue(c) PROVE SlotsOk'
  BY <1>1, <1>4, CommitFacts
<1>5. ASSUME NEW q \in Queues, PauseQueue(q) \/ ResumeQueue(q) PROVE SlotsOk'
  BY <1>1, <1>5, PauseFacts DEF Base
<1>6. ASSUME NEW r \in Runs, Finish(r) PROVE SlotsOk'
  BY <1>1, <1>6, FinishFacts DEF Ended
<1>7. CASE Tick
  BY <1>1, <1>7, TickFacts DEF Ticked
<1>8. CASE UNCHANGED vars
  BY <1>1, <1>8 DEF vars, fixed
<1> QED
  BY <1>2, <1>3, <1>4, <1>5, <1>6, <1>7, <1>8 DEF Next

\* What RateOk says of a run, and of a queue.
RunRate(r) ==
    rate[req[r].queue] > 0 =>
        /\ step[r] # "DELETED"
        /\ step[r] \in {"NEW", "QUEUED"} => age[r] = Window + 1 /\ attempts[r] = 0
        /\ r \in executing => attempts[r] >= 1

QueueRate(q) ==
    rate[q] > 0 => /\ Cardinality(Started(q)) <= rate[q]
                   /\ \A a \in 0 .. Window : starts[q][a] = Cardinality(Aged(q, a))

Once == \A r \in Runs : rate[req[r].queue] > 0 => req[r].max <= 1 /\ ~req[r].ephemeral

\* The hypothesis, for the requests of this behaviour.
LEMMA OnceBy == StartsOnce /\ Typed => Once
<1> SUFFICES ASSUME StartsOnce, Typed PROVE Once
  OBVIOUS
<1> DEFINE sc == [req |-> req, rate |-> rate]
<1>1. sc \in Scenarios /\ sc.req = req /\ sc.rate = rate
  BY DEF Typed
<1> HIDE DEF sc
<1>2. \A r \in Runs : sc.rate[sc.req[r].queue] > 0 => sc.req[r].max <= 1 /\ ~sc.req[r].ephemeral
  BY <1>1 DEF StartsOnce
<1> QED
  BY <1>1, <1>2 DEF Once

\* A run of a queue with a rate waits with no start, and executes with one.
LEMMA RunRateStep ==
    ASSUME Base, IsFiniteSet(Runs), Once, \A r \in Runs : RunRate(r), [Next]_vars
    PROVE  \A r \in Runs : RunRate(r)'
<1>0. /\ Window \in Nat /\ attempts \in [Runs -> Nat] /\ age \in [Runs -> 0 .. Window + 1]
      /\ step \in [Runs -> Statuses] /\ req \in [Runs -> Request]
  BY AdmissionAssumption DEF Base, Typed
<1>1. ASSUME UNCHANGED <<req, rate, step, attempts, age, executing>>
      PROVE  \A r \in Runs : RunRate(r)'
  BY <1>1 DEF RunRate
<1>2. ASSUME NEW c \in Clients, NEW b \in Batches, BeginEnqueue(c, b) PROVE \A r \in Runs : RunRate(r)'
  BY <1>1, <1>2 DEF BeginEnqueue, fixed, table
<1>3. ASSUME NEW c \in Clients, CommitEnqueue(c) PROVE \A r \in Runs : RunRate(r)'
  <2>1. (Commits(c) \/ Rolls(c)) /\ UNCHANGED <<req, rate, attempts, age, executing, paused, starts>>
    BY <1>3, CommitFacts
  <2>2. CASE Rolls(c)
    BY <1>1, <2>1, <2>2 DEF Rolls
  <2>3. CASE Commits(c)
    <3> SUFFICES ASSUME NEW r \in Runs, rate[req[r].queue] > 0
                 PROVE  /\ step'[r] # "DELETED"
                        /\ step'[r] \in {"NEW", "QUEUED"} => step[r] \in {"NEW", "QUEUED"}
      BY <2>1 DEF RunRate
    <3>1. ~req[r].ephemeral /\ step[r] # "DELETED"
      BY DEF Once, RunRate
    <3> DEFINE p == tx[c].plan
    <3>2. /\ r \notin p.insert /\ step'[r] # step[r] =>
                step'[r] = "CANCELLED" \/ (step'[r] = "DELETED" /\ r \in p.cancel /\ req[r].ephemeral)
          /\ r \in p.insert => step[r] = "NEW" /\ step'[r] \in {"QUEUED", "CANCELLED", "DELETED"}
          /\ r \in p.insert /\ step'[r] = "DELETED" => req[r].ephemeral
      BY <2>3 DEF Commits
    <3> HIDE DEF p
    <3> QED
      BY <3>1, <3>2
  <2> QED
    BY <2>1, <2>2, <2>3
<1>4. ASSUME NEW q \in Queues, NEW o \in Orders(q), Claim(q, o) PROVE \A r \in Runs : RunRate(r)'
  <2>1. PICK claimed : ClaimMade(q, claimed)
    BY <1>4, ClaimEffect DEF Base
  <2> SUFFICES ASSUME NEW r \in Runs, rate[req[r].queue] > 0
               PROVE  /\ step'[r] # "DELETED"
                      /\ step'[r] \in {"NEW", "QUEUED"} => age'[r] = Window + 1 /\ attempts'[r] = 0
                      /\ r \in executing' => attempts'[r] >= 1
    BY <2>1 DEF RunRate, ClaimMade
  <2>2. CASE r \in claimed
    BY <1>0, <2>1, <2>2 DEF ClaimMade
  <2>3. CASE r \notin claimed
    BY <2>1, <2>3 DEF ClaimMade, RunRate
  <2> QED
    BY <2>2, <2>3
<1>5. ASSUME NEW q \in Queues, PauseQueue(q) \/ ResumeQueue(q) PROVE \A r \in Runs : RunRate(r)'
  BY <1>1, <1>5, PauseFacts DEF Base
<1>6. ASSUME NEW x \in Runs, Finish(x) PROVE \A r \in Runs : RunRate(r)'
  <2>1. Ended(x)
    BY <1>6, FinishFacts
  <2> SUFFICES ASSUME NEW r \in Runs, rate[req[r].queue] > 0
               PROVE  /\ step'[r] # "DELETED"
                      /\ step'[r] \in {"NEW", "QUEUED"} => step[r] \in {"NEW", "QUEUED"}
                      /\ r \in executing' => r \in executing
    BY <2>1 DEF RunRate, Ended
  <2>2. CASE r = x
    <3>1. /\ step'[r] \notin {"NEW", "RUNNING"} /\ r \in executing /\ executing' = executing \ {r}
          /\ step'[r] = "QUEUED" => attempts[r] < req[r].max
          /\ step'[r] = "DELETED" /\ step[r] # "DELETED" => req[r].ephemeral
      BY <2>1, <2>2 DEF Ended
    <3>2. req[r].max <= 1 /\ ~req[r].ephemeral /\ req[r].max \in Nat
      BY <1>0 DEF Once, Request
    <3>3. attempts[r] >= 1 /\ attempts[r] \in Nat /\ step[r] # "DELETED"
      BY <1>0, <3>1 DEF RunRate
    <3>4. step'[r] # "QUEUED"
      BY <3>1, <3>2, <3>3
    <3> QED
      BY <3>1, <3>2, <3>3, <3>4
  <2>3. CASE r # x
    BY <2>1, <2>3 DEF Ended, RunRate
  <2> QED
    BY <2>2, <2>3
<1>7. CASE Tick
  BY <1>0, <1>7, TickFacts DEF Ticked, RunRate
<1>8. CASE UNCHANGED vars
  BY <1>1, <1>8 DEF vars, fixed, table
<1> QED
  BY <1>2, <1>3, <1>4, <1>5, <1>6, <1>7, <1>8 DEF Next


Recent(q) == {r \in Runs : req[r].queue = q /\ age[r] <= Window}

\* On a queue with a rate every start still has its row.
LEMMA StartedRecent ==
    ASSUME NEW q \in Queues, \A r \in Runs : RunRate(r), rate[q] > 0
    PROVE  Started(q) = Recent(q)
BY DEF Started, Recent, RunRate

\* A claim takes no more than the window has left.
LEMMA QueueRateClaim ==
    ASSUME Base, IsFiniteSet(Runs), \A r \in Runs : RunRate(r),
           NEW q \in Queues, NEW claimed, ClaimMade(q, claimed), rate[q] > 0, QueueRate(q)
    PROVE  /\ Cardinality(Recent(q)') <= rate[q]
           /\ \A a \in 0 .. Window : starts'[q][a] = Cardinality(Aged(q, a)')
<1>1. /\ claimed \in SUBSET Runs /\ IsFiniteSet(claimed) /\ Cardinality(claimed) \in Nat
      /\ ClaimLimit(q) \in Int => Cardinality(claimed) <= ClaimLimit(q)
      /\ \A r \in claimed : step[r] = "QUEUED" /\ req[r].queue = q
      /\ age' = [r \in Runs |-> IF r \in claimed THEN 0 ELSE age[r]]
      /\ starts' = [starts EXCEPT ![q][0] = @ + Cardinality(claimed)]
      /\ req' = req
  BY DEF ClaimMade
<1>2. /\ Window \in Nat /\ rate[q] \in Nat /\ Slots[q] \in Nat /\ age \in [Runs -> 0 .. Window + 1]
      /\ starts \in [Queues -> [0 .. Window -> Nat]] /\ 0 \in 0 .. Window
  <2>1. Window \in Nat /\ rate \in [Queues -> Nat] /\ Slots \in [Queues -> Nat]
    BY AdmissionAssumption DEF Base, Typed
  <2> QED
    BY <2>1 DEF Base, Typed
<1>3. \A r \in claimed : age[r] = Window + 1
  BY <1>1 DEF RunRate
<1>4. /\ IsFiniteSet(Recent(q)) /\ Cardinality(Recent(q)) \in Nat
      /\ \A a : IsFiniteSet(Aged(q, a)) /\ Cardinality(Aged(q, a)) \in Nat
      /\ Cardinality({r \in executing : req[r].queue = q}) \in Nat
  <2>1. /\ Recent(q) \subseteq Runs /\ \A a : Aged(q, a) \subseteq Runs
        /\ {r \in executing : req[r].queue = q} \subseteq Runs
    BY DEF Recent, Aged, Base, Typed
  <2> QED
    BY <2>1, FS_Subset, FS_CardinalityType
<1>5. Cardinality(claimed) + Cardinality(Recent(q)) <= rate[q]
  <2> DEFINE free == Slots[q] - Cardinality({r \in executing : req[r].queue = q})
             left == rate[q] - Cardinality(Recent(q))
  <2>1. ClaimLimit(q) = IF left < free THEN left ELSE free
    BY StartedRecent DEF ClaimLimit
  <2>2. left \in Int /\ free \in Int
    BY <1>2, <1>4
  <2> HIDE DEF left, free
  <2>3. ClaimLimit(q) \in Int /\ ClaimLimit(q) <= left
    BY <2>1, <2>2
  <2>4. Cardinality(claimed) <= left
    BY <1>1, <2>2, <2>3
  <2> QED
    BY <1>1, <1>2, <1>4, <2>4 DEF left
<1>6. Cardinality(Recent(q)') <= rate[q]
  <2>1. Recent(q)' = Recent(q) \cup claimed
    BY <1>1, <1>2 DEF Recent
  <2>2. Recent(q) \cap claimed = {}
    BY <1>2, <1>3 DEF Recent
  <2>3. Cardinality(Recent(q) \cup claimed) = Cardinality(Recent(q)) + Cardinality(claimed)
    BY <1>1, <1>4, <2>2, DisjointCount
  <2> QED
    BY <1>1, <1>4, <1>5, <2>1, <2>3
<1>7. starts'[q][0] = Cardinality(Aged(q, 0)')
  <2>1. Aged(q, 0)' = Aged(q, 0) \cup claimed
    BY <1>1, <1>2 DEF Aged
  <2>2. Aged(q, 0) \cap claimed = {}
    BY <1>2, <1>3 DEF Aged
  <2>3. Cardinality(Aged(q, 0) \cup claimed) = Cardinality(Aged(q, 0)) + Cardinality(claimed)
    BY <1>1, <1>4, <2>2, DisjointCount
  <2>4. starts[q][0] = Cardinality(Aged(q, 0))
    BY <1>2 DEF QueueRate
  <2>5. starts'[q][0] = starts[q][0] + Cardinality(claimed)
    <3>1. starts[q] \in [0 .. Window -> Nat]
      BY <1>2
    <3> QED
      BY <1>1, <1>2, <3>1
  <2> QED
    BY <2>1, <2>3, <2>4, <2>5
<1>8. ASSUME NEW a \in 0 .. Window, a # 0 PROVE starts'[q][a] = Cardinality(Aged(q, a)')
  <2>1. Aged(q, a)' = Aged(q, a)
    BY <1>1, <1>2, <1>3, <1>8 DEF Aged
  <2>2. starts'[q][a] = starts[q][a]
    BY <1>1, <1>2, <1>8
  <2> QED
    BY <2>1, <2>2 DEF QueueRate
<1> QED
  BY <1>6, <1>7, <1>8

\* A tick shifts the window and the history alike.
LEMMA QueueRateTick ==
    ASSUME Base, IsFiniteSet(Runs), \A r \in Runs : RunRate(r),
           NEW q \in Queues, Ticked, rate[q] > 0, QueueRate(q)
    PROVE  /\ Cardinality(Recent(q)') <= rate[q]
           /\ \A a \in 0 .. Window : starts'[q][a] = Cardinality(Aged(q, a)')
<1>1. /\ Window \in Nat /\ rate[q] \in Nat /\ age \in [Runs -> 0 .. Window + 1]
  <2>1. Window \in Nat /\ rate \in [Queues -> Nat]
    BY AdmissionAssumption DEF Base, Typed
  <2> QED
    BY <2>1 DEF Base, Typed
<1>2. \A r \in Runs : age'[r] = IF age[r] <= Window THEN age[r] + 1 ELSE age[r]
  BY DEF Ticked
<1>3. req' = req /\ \A a \in 0 .. Window : starts'[q][a] = IF a = 0 THEN 0 ELSE starts[q][a - 1]
  BY DEF Ticked
<1>4. Cardinality(Recent(q)') <= rate[q]
  <2>1. Recent(q)' \subseteq Recent(q) /\ Recent(q) \subseteq Runs
    BY <1>1, <1>2, <1>3 DEF Recent
  <2>2. /\ Cardinality(Recent(q)') <= Cardinality(Recent(q)) /\ Cardinality(Recent(q)') \in Nat
        /\ Cardinality(Recent(q)) \in Nat
    BY <2>1, FS_Subset, FS_CardinalityType
  <2>3. Cardinality(Recent(q)) <= rate[q]
    BY StartedRecent DEF QueueRate
  <2> QED
    BY <1>1, <2>2, <2>3
<1>5. ASSUME NEW a \in 0 .. Window PROVE starts'[q][a] = Cardinality(Aged(q, a)')
  <2>1. CASE a = 0
    <3>1. Aged(q, a)' = {}
      BY <1>1, <1>2, <1>3, <2>1 DEF Aged
    <3> QED
      BY <1>3, <2>1, <3>1, FS_EmptySet
  <2>2. CASE a # 0
    <3>1. a - 1 \in 0 .. Window
      BY <1>1, <2>2
    <3>2. \A r \in Runs : age'[r] = a <=> age[r] = a - 1
      BY <1>1, <1>2, <2>2
    <3>3. Aged(q, a)' = Aged(q, a - 1)
      BY <1>3, <3>2 DEF Aged
    <3> QED
      BY <1>3, <2>2, <3>1, <3>3 DEF QueueRate
  <2> QED
    BY <2>1, <2>2
<1> QED
  BY <1>4, <1>5

\* The window is inductive.
LEMMA QueueRateStep ==
    ASSUME Base, IsFiniteSet(Runs), \A r \in Runs : RunRate(r), \A r \in Runs : RunRate(r)',
           \A q \in Queues : QueueRate(q), [Next]_vars
    PROVE  \A q \in Queues : QueueRate(q)'
<1>1. ASSUME req' = req, rate' = rate,
             \A q \in Queues : rate[q] > 0 =>
                 /\ Cardinality(Recent(q)') <= rate[q]
                 /\ \A a \in 0 .. Window : starts'[q][a] = Cardinality(Aged(q, a)')
      PROVE  \A q \in Queues : QueueRate(q)'
  <2> SUFFICES ASSUME NEW q \in Queues, rate[q] > 0
               PROVE  /\ Cardinality(Started(q)') <= rate[q]
                      /\ \A a \in 0 .. Window : starts'[q][a] = Cardinality(Aged(q, a)')
    BY <1>1 DEF QueueRate
  <2>1. Started(q)' = Recent(q)'
    BY <1>1 DEF RunRate, Started, Recent
  <2> QED
    BY <1>1, <2>1
<1>2. ASSUME UNCHANGED <<req, rate, age, starts>> PROVE \A q \in Queues : QueueRate(q)'
  <2>1. ASSUME NEW q \in Queues, rate[q] > 0
        PROVE  /\ Cardinality(Recent(q)') <= rate[q]
               /\ \A a \in 0 .. Window : starts'[q][a] = Cardinality(Aged(q, a)')
    <3>1. Recent(q)' = Recent(q) /\ \A a : Aged(q, a)' = Aged(q, a)
      BY <1>2 DEF Recent, Aged
    <3>2. Started(q) = Recent(q)
      BY <2>1, StartedRecent
    <3> QED
      BY <1>2, <2>1, <3>1, <3>2 DEF QueueRate
  <2> QED
    BY <1>1, <1>2, <2>1
<1>3. ASSUME NEW q \in Queues, NEW o \in Orders(q), Claim(q, o) PROVE \A p \in Queues : QueueRate(p)'
  <2>1. PICK claimed : ClaimMade(q, claimed)
    BY <1>3, ClaimEffect DEF Base
  <2>2. UNCHANGED <<req, rate>>
    BY <2>1 DEF ClaimMade
  <2>3. ASSUME NEW p \in Queues, rate[p] > 0
        PROVE  /\ Cardinality(Recent(p)') <= rate[p]
               /\ \A a \in 0 .. Window : starts'[p][a] = Cardinality(Aged(p, a)')
    <3>1. CASE p = q
      BY <2>1, <2>3, <3>1, QueueRateClaim
    <3>2. CASE p # q
      <4>1. \A r \in Runs : req[r].queue = p => age'[r] = age[r]
        BY <2>1, <3>2 DEF ClaimMade
      <4>2. Recent(p)' = Recent(p) /\ \A a : Aged(p, a)' = Aged(p, a)
        BY <2>2, <4>1 DEF Recent, Aged
      <4>3. starts'[p] = starts[p]
        BY <2>1, <3>2 DEF ClaimMade, Base, Typed
      <4>4. Started(p) = Recent(p)
        BY <2>3, StartedRecent
      <4> QED
        BY <2>3, <4>2, <4>3, <4>4 DEF QueueRate
    <3> QED
      BY <3>1, <3>2
  <2> QED
    BY <1>1, <2>2, <2>3
<1>4. CASE Tick
  <2>1. Ticked
    BY <1>4, TickFacts
  <2>2. UNCHANGED <<req, rate>>
    BY <2>1 DEF Ticked
  <2> QED
    BY <1>1, <2>1, <2>2, QueueRateTick
<1>5. ASSUME NEW c \in Clients, NEW b \in Batches, BeginEnqueue(c, b) PROVE \A q \in Queues : QueueRate(q)'
  BY <1>2, <1>5 DEF BeginEnqueue, fixed
<1>6. ASSUME NEW c \in Clients, CommitEnqueue(c) PROVE \A q \in Queues : QueueRate(q)'
  BY <1>2, <1>6, CommitFacts
<1>7. ASSUME NEW q \in Queues, PauseQueue(q) \/ ResumeQueue(q) PROVE \A p \in Queues : QueueRate(p)'
  BY <1>2, <1>7, PauseFacts DEF Base
<1>8. ASSUME NEW r \in Runs, Finish(r) PROVE \A q \in Queues : QueueRate(q)'
  BY <1>2, <1>8, FinishFacts DEF Ended
<1>9. CASE UNCHANGED vars
  BY <1>2, <1>9 DEF vars, fixed
<1> QED
  BY <1>3, <1>4, <1>5, <1>6, <1>7, <1>8, <1>9 DEF Next

Queueing == SlotsOk /\ (\A r \in Runs : RunRate(r)) /\ (\A q \in Queues : QueueRate(q))

\* No queue has started anything at first.
LEMMA QueueingInit == Init /\ Typed => Queueing
<1> SUFFICES ASSUME Init, Typed PROVE Queueing
  OBVIOUS
<1>0. Window \in Nat /\ Slots \in [Queues -> Nat] /\ rate \in [Queues -> Nat]
  BY AdmissionAssumption DEF Typed
<1>1. \A q \in Queues : /\ InQueue(q) = {} /\ Started(q) = {}
                        /\ \A a \in 0 .. Window : Aged(q, a) = {} /\ starts[q][a] = 0
  BY <1>0 DEF Init, InQueue, Started, Aged
<1>2. Cardinality({}) = 0
  BY FS_EmptySet
<1>3. SlotsOk
  BY <1>0, <1>1, <1>2 DEF SlotsOk
<1>4. ASSUME NEW q \in Queues PROVE QueueRate(q)
  <2>1. /\ Cardinality(Started(q)) = 0 /\ rate[q] \in Nat
        /\ \A a \in 0 .. Window : starts[q][a] = Cardinality(Aged(q, a))
    BY <1>0, <1>1, <1>2
  <2> QED
    BY <2>1 DEF QueueRate
<1> QED
  BY <1>3, <1>4 DEF Queueing, RunRate, Init

\* No queue runs more bodies than it has slots or starts more of them in a
\* window than its rate, provided no run of a queue with a rate starts twice
\* (a retry moves claimed_at) or loses its row (an ephemeral run).
THEOREM QueueLimitsKept ==
    ASSUME IsFiniteSet(Runs), StartsOnce
    PROVE  Spec => []QueueLimitsRespected
<1>1. Init => Base /\ Queueing
  BY BaseInit, QueueingInit DEF Base
<1>2. Base /\ Queueing /\ [Next]_vars => (Base /\ Queueing)'
  BY BaseStep, SlotsStep, OnceBy, RunRateStep, QueueRateStep DEF Base, Queueing
<1>3. Base /\ Queueing => QueueLimitsRespected
  <2> SUFFICES ASSUME Base, Queueing, NEW q \in Queues
               PROVE  /\ Cardinality({r \in executing : req[r].queue = q}) <= Slots[q]
                      /\ rate[q] > 0 => FoldFunction(+, 0, starts[q]) <= rate[q]
    BY DEF QueueLimitsRespected
  <2>1. Cardinality({r \in executing : req[r].queue = q}) <= Slots[q]
    BY DEF Queueing, SlotsOk, InQueue
  <2>2. ASSUME rate[q] > 0 PROVE FoldFunction(+, 0, starts[q]) <= rate[q]
    <3> DEFINE R == {r \in Runs : req[r].queue = q}
               g == starts[q]
    <3>1. IsFiniteSet(R)
      <4>1. R \subseteq Runs
        OBVIOUS
      <4> QED
        BY <4>1, FS_Subset
    <3>2. Window \in Nat /\ g \in [0 .. Window -> Nat] /\ age \in [Runs -> 0 .. Window + 1]
      BY AdmissionAssumption DEF Base, Typed
    <3>3. \A a \in 0 .. Window : g[a] = Cardinality({r \in R : age[r] = a})
      <4>1. \A a \in 0 .. Window : Aged(q, a) = {r \in R : age[r] = a}
        BY DEF Aged
      <4> QED
        BY <2>2, <4>1 DEF Queueing, QueueRate
    <3>4. Members(Window, R, age) = Started(q)
      <4>1. Members(Window, R, age) = Recent(q)
        BY <3>2 DEF Recent, Members
      <4> QED
        BY <2>2, <4>1, StartedRecent DEF Queueing
    <3>5. FoldFunction(+, 0, g) = Total(Window, g)
      BY <3>2 DEF FoldFunction, FoldFunctionOnSet, MapThenFoldSet, Total
    <3> HIDE DEF R, g
    <3>6. Counts(Window, R, age, g)
      BY <3>1, <3>2, <3>3 DEF Counts
    <3>7. Total(Window, g) <= rate[q]
      BY <2>2, <3>4, <3>6, SumOfGroups DEF Queueing, QueueRate
    <3> QED
      BY <3>5, <3>7 DEF g
  <2> QED
    BY <2>1, <2>2
<1> QED
  BY <1>1, <1>2, <1>3, PTL DEF Spec


-----------------------------------------------------------------------------
(* KeyLimitsRespected and SequenceOrder, where no enqueue ends the step of *)
(* a body that runs under a key or in a sequence.                          *)

Keeping == KeysOk(step) /\ SeqOk(step) /\ HeldWhileExecuting

Kept ==
    \A r, x \in Runs :
        /\ req[r].conflict = "replace" /\ req[r].unique # None /\ req[x].unique = req[r].unique => ~Gated(x)
        /\ Strategic(r) /\ req[x].key = req[r].key => ~req[x].ephemeral

\* The hypothesis, for the requests of this behaviour.
LEMMA KeptBy == KeepsKeys /\ Typed => Kept
<1> SUFFICES ASSUME KeepsKeys, Typed PROVE Kept
  OBVIOUS
<1> DEFINE sc == [req |-> req, rate |-> rate]
<1>1. sc \in Scenarios /\ sc.req = req
  BY DEF Typed
<1> HIDE DEF sc
<1>2. \A r, x \in Runs :
        /\ sc.req[r].conflict = "replace" /\ sc.req[r].unique # None /\ sc.req[x].unique = sc.req[r].unique
           => sc.req[x].key = None /\ sc.req[x].extra = {} /\ sc.req[x].seqKey = None
        /\ sc.req[r].strategy # "hold" /\ sc.req[r].key # None /\ sc.req[x].key = sc.req[r].key
           => ~sc.req[x].ephemeral
  BY <1>1 DEF KeepsKeys
<1> QED
  BY <1>1, <1>2 DEF Kept, Gated, Strategic

\* No step is RUNNING at first.
LEMMA KeepingInit == Init => Keeping
BY DEF Init, Keeping, KeysOk, SeqOk, HeldWhileExecuting

\* Fewer RUNNING steps exceed no limit.
LEMMA KeysShrink ==
    ASSUME KeysOk(step), req' = req, \A r \in Runs : step'[r] = "RUNNING" => step[r] = "RUNNING"
    PROVE  KeysOk(step)'
<1> DEFINE held == {x \in Runs : step[x] = "RUNNING"}
           held2 == {x \in Runs : step'[x] = "RUNNING"}
<1>1. \A S : S \in SUBSET held2 => S \in SUBSET held
  OBVIOUS
<1>2. \A x : KeyLimit(x)' = KeyLimit(x)
  BY DEF KeyLimit
<1>3. ASSUME NEW S \in SUBSET held2, NEW k \in STRING, S # {}, \A x \in S : req[x].key = k
      PROVE  \E x \in S : Cardinality(S) <= KeyLimit(x)
  <2>1. S \in SUBSET held
    BY <1>1
  <2> QED
    BY <1>3, <2>1 DEF KeysOk
<1>4. ASSUME NEW S \in SUBSET held2, NEW k \in STRING, S # {},
             \A x \in S : \E j \in req[x].extra : j[1] = k
      PROVE  \E x \in S : \E j \in req[x].extra : j[1] = k /\ Cardinality(S) <= j[2]
  <2>1. S \in SUBSET held
    BY <1>1
  <2> QED
    BY <1>4, <2>1 DEF KeysOk
<1> QED
  BY <1>2, <1>3, <1>4 DEF KeysOk

\* A step that waits or runs was there before, or has a number after all others.
LEMMA SequenceCalm ==
    ASSUME Base, SeqOk(step), req' = req, seq' \in [Runs -> Nat],
           \A r \in Runs : step'[r] = "RUNNING" => step[r] = "RUNNING" /\ seq'[r] = seq[r],
           \A r \in Runs : req[r].seqKey # None /\ step'[r] \in {"QUEUED", "RUNNING"} =>
               (step[r] \in {"QUEUED", "RUNNING"} /\ seq'[r] = seq[r]) \/ counter < seq'[r]
    PROVE  SeqOk(step)'
<1> SUFFICES ASSUME NEW r \in Runs, NEW x \in Runs, step'[r] = "RUNNING", x # r, run'[x] # "NEW",
                    req[x].seqKey # None, req[x].seqKey = req[r].seqKey, seq'[x] < seq'[r],
                    step'[x] \in {"QUEUED", "RUNNING"}
             PROVE  FALSE
  BY DEF SeqOk
<1>1. step[r] = "RUNNING" /\ seq'[r] = seq[r]
  OBVIOUS
<1>2. seq \in [Runs -> Nat] /\ counter \in Nat
  BY DEF Base, Typed
<1>3. seq[r] <= counter
  BY <1>1 DEF Base, Fresh, Numbered, Numbers, Keyed
<1>4. CASE step[x] \in {"QUEUED", "RUNNING"} /\ seq'[x] = seq[x]
  <2>1. run[x] # "NEW"
    BY <1>4 DEF Base, Fresh
  <2> QED
    BY <1>1, <1>4, <2>1 DEF SeqOk
<1>5. CASE counter < seq'[x]
  BY <1>1, <1>2, <1>3, <1>5
<1> QED
  BY <1>4, <1>5

\* An action that starts no step and ends none of a body that goes on.
LEMMA KeepingCalm ==
    ASSUME Base, Keeping, UNCHANGED <<req, seq>>, executing' \subseteq executing,
           \A r \in Runs : step'[r] = "RUNNING" => step[r] = "RUNNING",
           \A r \in Runs : Gated(r) /\ step'[r] \in {"QUEUED", "RUNNING"} => step[r] \in {"QUEUED", "RUNNING"},
           \A r \in executing' : Gated(r) /\ step[r] = "RUNNING" => step'[r] = "RUNNING"
    PROVE  Keeping'
<1>1. KeysOk(step)'
  BY KeysShrink DEF Keeping
<1>2. SeqOk(step)'
  <2>1. seq' \in [Runs -> Nat]
    BY DEF Base, Typed
  <2> QED
    BY <2>1, SequenceCalm DEF Keeping, Gated
<1>3. HeldWhileExecuting'
  BY DEF Keeping, HeldWhileExecuting, Gated
<1> QED
  BY <1>1, <1>2, <1>3 DEF Keeping

\* An enqueue numbers its runs after all others and ends no gated step of a body.
LEMMA KeepingCommit ==
    ASSUME Base, Keeping, Kept, NEW c \in Clients, Commits(c), UNCHANGED <<req, executing>>
    PROVE  Keeping'
<1> DEFINE p == tx[c].plan
           b == tx[c].batch
<1>1. /\ p \in Plans /\ Grounded(p, Range(b)) /\ tx[c].pc = "write" /\ ~p.error
      /\ tx[c].seq \in [Runs -> Nat]
      /\ seq' = [x \in Runs |-> IF x \in p.insert THEN tx[c].seq[x] ELSE seq[x]]
  BY DEF Commits
<1>2. \A x \in Runs :
        /\ x \notin p.insert /\ step'[x] # step[x] =>
              /\ step'[x] = "CANCELLED" \/ (step'[x] = "DELETED" /\ x \in p.cancel /\ req[x].ephemeral)
              /\ step[x] = "QUEUED" \/ (x \in p.cancel /\ req[x].ephemeral) \/ x \in p.replace
        /\ x \in p.insert => step[x] = "NEW" /\ step'[x] \in {"QUEUED", "CANCELLED", "DELETED"}
  BY DEF Commits
<1>3. seq \in [Runs -> Nat] /\ executing \in SUBSET Runs
  BY DEF Base, Typed
<1>4. \A x \in p.insert : Keyed(x) => counter < tx[c].seq[x]
  BY <1>1 DEF Base, Pending, PendingOk
<1>5. /\ \A x \in p.cancel : ~req[x].ephemeral
      /\ \A x \in p.replace : ~Gated(x)
  BY <1>1 DEF Grounded, Kept, Plans
<1> HIDE DEF p, b
<1>6. \A x \in Runs : step'[x] = "RUNNING" => step[x] = "RUNNING" /\ x \notin p.insert
  BY <1>2
<1>7. KeysOk(step)'
  BY <1>6, KeysShrink DEF Keeping
<1>8. SeqOk(step)'
  <2>1. seq' \in [Runs -> Nat]
    BY <1>1, <1>3
  <2>2. \A r \in Runs : step'[r] = "RUNNING" => step[r] = "RUNNING" /\ seq'[r] = seq[r]
    BY <1>1, <1>6
  <2>3. ASSUME NEW r \in Runs, req[r].seqKey # None, step'[r] \in {"QUEUED", "RUNNING"}
        PROVE  (step[r] \in {"QUEUED", "RUNNING"} /\ seq'[r] = seq[r]) \/ counter < seq'[r]
    <3>1. CASE r \in p.insert
      BY <1>1, <1>4, <2>3, <3>1 DEF Keyed
    <3>2. CASE r \notin p.insert
      BY <1>1, <1>2, <2>3, <3>2
    <3> QED
      BY <3>1, <3>2
  <2> QED
    BY <2>1, <2>2, <2>3, SequenceCalm DEF Keeping
<1>9. HeldWhileExecuting'
  <2> SUFFICES ASSUME NEW r \in executing, Gated(r) PROVE step'[r] = "RUNNING"
    BY DEF HeldWhileExecuting, Gated
  <2>1. step[r] = "RUNNING" /\ r \in Runs
    BY <1>3 DEF Keeping, HeldWhileExecuting
  <2> QED
    BY <1>2, <1>5, <2>1
<1> QED
  BY <1>7, <1>8, <1>9 DEF Keeping

\* A claim.
LEMMA KeepingClaim ==
    ASSUME Base, Keeping, NEW q \in Queues, NEW claimed, ClaimMade(q, claimed)
    PROVE  Keeping'
<1>1. /\ KeysOk(step') /\ SeqOk(step') /\ req' = req /\ seq' = seq /\ executing' = executing \cup claimed
      /\ \A r \in claimed : step'[r] = "RUNNING"
      /\ \A r \in Runs \ claimed : step'[r] = step[r]
      /\ claimed \in SUBSET Runs
  BY DEF ClaimMade, Keeping
<1>2. \A r \in Runs : run'[r] = "NEW" <=> run[r] = "NEW"
  BY DEF ClaimMade
<1>3. KeysOk(step)'
  <2>1. PICK st : st = step'
    OBVIOUS
  <2>2. KeysOk(st) /\ \A x : KeyLimit(x)' = KeyLimit(x)
    BY <1>1, <2>1 DEF KeyLimit
  <2> DEFINE held == {x \in Runs : st[x] = "RUNNING"}
  <2>3. /\ \A S \in SUBSET held : \A k \in STRING :
              S # {} /\ (\A x \in S : req'[x].key = k) => \E x \in S : Cardinality(S) <= KeyLimit(x)'
        /\ \A S \in SUBSET held : \A k \in STRING :
              S # {} /\ (\A x \in S : \E j \in req'[x].extra : j[1] = k)
              => \E x \in S : \E j \in req'[x].extra : j[1] = k /\ Cardinality(S) <= j[2]
    <3> HIDE DEF ClaimMade
    <3> QED
      BY <1>1, <2>2 DEF KeysOk
  <2> HIDE DEF held
  <2>4. held = {x \in Runs : step'[x] = "RUNNING"}
    BY <2>1 DEF held
  <2> QED
    BY <2>3, <2>4 DEF KeysOk
<1>4. SeqOk(step)'
  BY <1>1, <1>2 DEF SeqOk
<1>5. HeldWhileExecuting'
  BY <1>1 DEF Keeping, HeldWhileExecuting, Gated, Base, Typed
<1> QED
  BY <1>3, <1>4, <1>5 DEF Keeping

\* The end of a body: a retry queues a step that was RUNNING.
LEMMA KeepingFinish ==
    ASSUME Base, Keeping, NEW r \in Runs, Ended(r)
    PROVE  Keeping'
<1>1. /\ r \in executing /\ executing' = executing \ {r} /\ req' = req /\ seq' = seq
      /\ step'[r] # "RUNNING" /\ \A x \in Runs \ {r} : step'[x] = step[x]
  BY DEF Ended
<1>2. executing \in SUBSET Runs
  BY DEF Base, Typed
<1>3. Gated(r) => step[r] = "RUNNING"
  BY <1>1 DEF Keeping, HeldWhileExecuting
<1>4. \A x \in Runs : step'[x] = "RUNNING" => step[x] = "RUNNING"
  BY <1>1
<1>5. \A x \in Runs : Gated(x) /\ step'[x] \in {"QUEUED", "RUNNING"} => step[x] \in {"QUEUED", "RUNNING"}
  BY <1>1, <1>3
<1>6. \A x \in executing' : Gated(x) /\ step[x] = "RUNNING" => step'[x] = "RUNNING"
  BY <1>1, <1>2
<1> QED
  BY <1>1, <1>4, <1>5, <1>6, KeepingCalm

\* Keeping is inductive.
LEMMA KeepingStep ==
    ASSUME Base, IsFiniteSet(Runs), Kept, Keeping, [Next]_vars
    PROVE  Keeping'
<1>0. executing \in SUBSET Runs
  BY DEF Base, Typed
<1>1. ASSUME UNCHANGED <<req, seq, step, executing>> PROVE Keeping'
  BY <1>0, <1>1, KeepingCalm
<1>2. ASSUME NEW c \in Clients, NEW b \in Batches, BeginEnqueue(c, b) PROVE Keeping'
  BY <1>1, <1>2 DEF BeginEnqueue, fixed, table
<1>3. ASSUME NEW c \in Clients, CommitEnqueue(c) PROVE Keeping'
  <2>1. (Commits(c) \/ Rolls(c)) /\ UNCHANGED <<req, executing>>
    BY <1>3, CommitFacts
  <2>2. CASE Rolls(c)
    BY <1>1, <2>1, <2>2 DEF Rolls
  <2> QED
    BY <2>1, <2>2, KeepingCommit
<1>4. ASSUME NEW q \in Queues, NEW o \in Orders(q), Claim(q, o) PROVE Keeping'
  BY <1>4, ClaimEffect, KeepingClaim DEF Base
<1>5. ASSUME NEW q \in Queues, PauseQueue(q) \/ ResumeQueue(q) PROVE Keeping'
  BY <1>1, <1>5, PauseFacts DEF Base
<1>6. ASSUME NEW r \in Runs, Finish(r) PROVE Keeping'
  BY <1>6, FinishFacts, KeepingFinish
<1>7. CASE Tick
  BY <1>1, <1>7, TickFacts DEF Ticked
<1>8. CASE UNCHANGED vars
  BY <1>1, <1>8 DEF vars, fixed, table
<1> QED
  BY <1>2, <1>3, <1>4, <1>5, <1>6, <1>7, <1>8 DEF Next

\* The bodies that execute under a key are among the RUNNING steps.
LEMMA KeepingLimits ==
    ASSUME Base, Keeping
    PROVE  KeyLimitsRespected
<1>0. executing \in SUBSET Runs /\ req \in [Runs -> Request]
  BY DEF Base, Typed
<1> DEFINE held == {x \in Runs : step[x] = "RUNNING"}
<1>1. \A r \in executing : Gated(r) => r \in held
  BY <1>0 DEF Keeping, HeldWhileExecuting
<1>2. ASSUME NEW r \in executing, req[r].key # None
      PROVE  \E x \in executing : /\ req[x].key = req[r].key
                                  /\ Cardinality({y \in executing : req[y].key = req[r].key}) <= KeyLimit(x)
  <2> DEFINE S == {y \in executing : req[y].key = req[r].key}
             k == req[r].key
  <2>1. k \in STRING /\ S # {} /\ \A x \in S : req[x].key = k
    BY <1>0, <1>2 DEF Request
  <2>2. S \in SUBSET held
    BY <1>1, <1>2 DEF Gated
  <2> HIDE DEF S, k
  <2>3. \E x \in S : Cardinality(S) <= KeyLimit(x)
    BY <2>1, <2>2 DEF Keeping, KeysOk
  <2> QED
    BY <2>3 DEF S
<1>3. ASSUME NEW r \in executing, NEW k \in req[r].extra
      PROVE  \E x \in Sharing(k[1]) : \E j \in req[x].extra : j[1] = k[1] /\ Cardinality(Sharing(k[1])) <= j[2]
  <2>1. k[1] \in STRING
    BY <1>0 DEF Request
  <2>2. Sharing(k[1]) # {} /\ \A x \in Sharing(k[1]) : \E j \in req[x].extra : j[1] = k[1]
    BY DEF Sharing
  <2>3. Sharing(k[1]) \in SUBSET held
    BY <1>1 DEF Sharing, Gated
  <2> QED
    BY <2>1, <2>2, <2>3 DEF Keeping, KeysOk
<1> QED
  BY <1>2, <1>3 DEF KeyLimitsRespected

\* Runs of one sequence execute one at a time, in the order of their enqueue,
\* whatever is claimed, retried and enqueued meanwhile, provided no enqueue
\* ends the step of a body that still runs.
THEOREM SequencesKept ==
    ASSUME IsFiniteSet(Runs), KeepsKeys
    PROVE  Spec => []SequenceOrder
<1>1. Init => Base /\ Keeping
  BY BaseInit, KeepingInit
<1>2. Base /\ Keeping /\ [Next]_vars => (Base /\ Keeping)'
  BY BaseStep, KeptBy, KeepingStep DEF Base
<1>3. Base /\ Keeping => SequenceOrder
  <2> SUFFICES ASSUME Base, Keeping PROVE SequenceOrder
    OBVIOUS
  <2> SUFFICES ASSUME NEW r \in executing, NEW x \in Runs \ {r}, req[x].seqKey # None,
                      req[x].seqKey = req[r].seqKey, run[x] # "NEW", seq[x] < seq[r]
               PROVE  x \notin executing /\ step[x] \notin {"QUEUED", "RUNNING"}
    BY DEF SequenceOrder
  <2>1. r \in Runs /\ step[r] = "RUNNING"
    BY DEF Base, Typed, Keeping, HeldWhileExecuting, Gated
  <2>2. step[x] \notin {"QUEUED", "RUNNING"}
    BY <2>1 DEF Keeping, SeqOk
  <2> QED
    BY <2>2 DEF Keeping, HeldWhileExecuting, Gated
<1> QED
  BY <1>1, <1>2, <1>3, PTL DEF Spec

\* No key, named key, queue or rate window is ever exceeded by the bodies that
\* execute, however many steps one claim takes at once.
THEOREM LimitsKept ==
    ASSUME IsFiniteSet(Runs), KeepsKeys, StartsOnce
    PROVE  Spec => []LimitsRespected
<1>1. Init => Base /\ Keeping
  BY BaseInit, KeepingInit
<1>2. Base /\ Keeping /\ [Next]_vars => (Base /\ Keeping)'
  BY BaseStep, KeptBy, KeepingStep DEF Base
<1>3. Base /\ Keeping => KeyLimitsRespected
  BY KeepingLimits
<1>4. Spec => []QueueLimitsRespected
  BY QueueLimitsKept
<1>5. KeyLimitsRespected /\ QueueLimitsRespected => LimitsRespected
  BY DEF LimitsRespected
<1> QED
  BY <1>1, <1>2, <1>3, <1>4, <1>5, PTL DEF Spec


============================================================================
