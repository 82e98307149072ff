------------------------------ MODULE Admission ------------------------------
(***************************************************************************)
(* What may enter and what may start: enqueue with unique keys and         *)
(* concurrency strategies, and the claim with its gates, against a         *)
(* networked database (SQLite's single writer is the case where an enqueue *)
(* commits with nothing in between).                                       *)
(*                                                                         *)
(* An enqueue transaction reads (which live run holds the key, which runs  *)
(* the strategy cancels) and then writes rows by id; under READ COMMITTED  *)
(* other transactions commit in between, so it is two actions.  A claim    *)
(* holds ClaimLock and re-checks its gates in every UPDATE: one action.    *)
(*                                                                         *)
(* Every run here has one step.  Workflows, pauses of a run, suspension    *)
(* and the executor's cancellation protocol are RunLifecycle's.  Time is   *)
(* the age of a claim in ticks, which is all the rate window looks at.     *)
(***************************************************************************)
EXTENDS Integers, FiniteSets, SequencesExt

CONSTANTS Runs,
          Scenarios,     \* the requests and queue rates to consider
          Batches,       \* the EnqueueBatch calls clients may make
          Clients,
          Queues, Slots, \* concurrency of each queue
          Window,        \* RateWindow, in ticks
          WorkerLabels,
          MaxTries,      \* createRuns' bound on unique-key races
          None

Strategies == {"hold", "cancelInProgress", "cancelNewest", "exceptNewest", "exceptOldest"}
Request == [queue : Queues, priority : Nat, labels : SUBSET WorkerLabels \cup {{None}},
            key : STRING \cup {None}, limit : Nat, strategy : Strategies,
            extra : SUBSET (STRING \X (Nat \ {0})), seqKey : STRING \cup {None},
            unique : STRING \cup {None}, conflict : {"reuse", "error", "replace"},
            ephemeral : BOOLEAN, max : Nat]

ASSUME AdmissionAssumption ==
    /\ Scenarios \subseteq [req : [Runs -> Request], rate : [Queues -> Nat]]
    /\ \A b \in Batches : b \in Seq(Runs) /\ IsInjective(b)  \* every request is a new run
    /\ Slots \in [Queues -> Nat] /\ Window \in Nat
    /\ MaxTries \in Nat \ {0}
    /\ None \notin STRING

Terminal == {"SUCCEEDED", "FAILED", "CANCELLED"}
Live     == {"QUEUED", "RUNNING"}

VARIABLES
    req,        \* what each run's request asks for
    rate,       \* RateLimit of each queue (0: none)
    run,        \* runs.status: "NEW" before the insert, "DELETED" after a delete
    step,       \* the status of the run's step
    seq,        \* runs.seq, steps.seq
    counter,    \* counters.next
    attempts,   \* steps.attempts
    age,        \* ticks since claimed_at; Window + 1 when out of every window.
                \* Only queues with a rate read it, so only theirs is kept.
    tx,         \* each client's enqueue transaction
    executing,  \* runs whose task body runs in some executor
    paused,     \* queue_pauses
    starts      \* history: starts per queue (with a rate) and age

table == <<run, step, seq, counter>>
fixed == <<req, rate>>
vars  == <<fixed, table, attempts, age, tx, executing, paused, starts>>

NoPlan == [insert |-> {}, cancel |-> {}, replace |-> {}, error |-> FALSE]
NoTx   == [pc |-> "idle", batch |-> <<>>, tries |-> 0, plan |-> NoPlan, seq |-> <<>>]

-----------------------------------------------------------------------------
(* The enqueue transaction.  db is the view the transaction reads and the  *)
(* plan of what it will write.                                             *)

LiveRuns(db)  == {x \in Runs : db.run[x] \in Live}
Keyed(r)      == req[r].key # None \/ req[r].seqKey # None
Strategic(r)  == req[r].strategy # "hold" /\ req[r].key # None /\ req[r].limit > 0

LiveRunByUnique(db, r) == {x \in LiveRuns(db) : req[x].unique = req[r].unique}

\* applyConcurrencyStrategy: the runs it cancels, once r is inserted.  The code
\* sorts by seq; a run's place in a list is the number of those ahead of it.
Victims(db, r) ==
    LET cands   == {x \in LiveRuns(db) : req[x].key = req[r].key}
        running == {x \in cands : db.run[x] = "RUNNING"}
        queued  == cands \ running
        ahead(S, x) == Cardinality({y \in S : db.seq[y] < db.seq[x]})
        over    == Cardinality(cands) - req[r].limit
    IN CASE over <= 0 -> {}
         [] over > 0 /\ req[r].strategy = "cancelNewest" ->
                {CHOOSE x \in cands : \A y \in cands : db.seq[y] <= db.seq[x]}
         [] over > 0 /\ req[r].strategy = "cancelInProgress" ->
                {x \in running : ahead(running, x) < over} \cup
                {x \in queued : Cardinality(running) + ahead(queued, x) < over}
         [] over > 0 /\ req[r].strategy = "exceptNewest" ->
                {x \in queued : ahead(queued, x) < Cardinality(queued) - req[r].limit}
         [] over > 0 /\ req[r].strategy = "exceptOldest" ->
                {x \in queued : ahead(queued, x) >= req[r].limit}

Insert(db, r) ==
    [db EXCEPT !.run[r] = "QUEUED", !.plan.insert = @ \cup {r}]

Cancel(db, S) ==
    [db EXCEPT !.run = [x \in Runs |-> IF x \in S THEN "CANCELLED" ELSE @[x]],
               !.plan.cancel = @ \cup S]

Replace(db, S) ==
    [db EXCEPT !.run = [x \in Runs |-> IF x \in S THEN "CANCELLED" ELSE @[x]],
               !.plan.replace = @ \cup S]

\* One turn of createRunsUniqueTx's loop.
CreateRun(db, r) ==
    LET held     == IF req[r].unique = None THEN {} ELSE LiveRunByUnique(db, r)
        db1      == IF Keyed(r) THEN [db EXCEPT !.seq[r] = db.next + 1, !.next = @ + 1] ELSE db
        strategy(d) == IF Strategic(r) THEN Cancel(d, Victims(d, r)) ELSE d
    IN IF db.plan.error THEN db
       ELSE CASE held # {} /\ req[r].conflict = "reuse" -> db1
              [] held # {} /\ req[r].conflict = "error" -> [db EXCEPT !.plan.error = TRUE]
              [] OTHER -> strategy(Insert(Replace(db1, held), r))

Resolution(batch) ==
    FoldLeft(CreateRun, [run |-> run, seq |-> seq, next |-> counter, plan |-> NoPlan], batch)

\* Mutant: the counter is not locked.
NoCounterLock(c, batch) == TRUE

\* allocSeq's UPDATE locks the counter row until the transaction ends.
CounterFree(c, batch) ==
    (\E i \in DOMAIN batch : Keyed(batch[i])) =>
        \A d \in Clients \ {c} : \A i \in DOMAIN tx[d].batch :
            tx[d].pc = "write" => ~Keyed(tx[d].batch[i])

\* createRuns begins a transaction: allocSeq, then every read of the batch.
BeginEnqueue(c, batch) ==
    /\ \/ tx[c].pc = "idle" /\ (\A i \in DOMAIN batch : run[batch[i]] = "NEW")
          /\ \A d \in Clients : \A i \in DOMAIN batch : batch[i] \notin Range(tx[d].batch)
       \/ tx[c].pc = "again" /\ batch = tx[c].batch
    /\ CounterFree(c, batch)
    /\ LET db == Resolution(batch)
       IN tx' = [tx EXCEPT ![c] = [pc |-> "write", batch |-> batch, tries |-> tx[c].tries + 1,
                                   plan |-> db.plan, seq |-> db.seq]]
    /\ UNCHANGED <<fixed, table, attempts, age, executing, paused, starts>>

\* The unique index: a row inserted under a key another live run holds.
Collides(plan) ==
    \E r \in plan.insert : \E x \in Runs :
        /\ run[x] \in Live /\ x \notin plan.replace \cup plan.cancel
        /\ req[r].unique # None /\ req[x].unique = req[r].unique

CommitEnqueue(c) ==
    LET plan == tx[c].plan
        new  == plan.insert
        gone == {x \in plan.cancel : req[x].ephemeral}
        dead == (plan.cancel \ gone) \cup plan.replace
    IN /\ tx[c].pc = "write"
       /\ IF plan.error THEN tx' = [tx EXCEPT ![c] = NoTx] /\ UNCHANGED table
          ELSE IF Collides(plan)
          THEN /\ tx' = [tx EXCEPT ![c] = IF @.tries < MaxTries THEN [@ EXCEPT !.pc = "again"] ELSE NoTx]
               /\ UNCHANGED table
          ELSE /\ run'  = [x \in Runs |-> IF x \in gone THEN "DELETED"
                                          ELSE IF x \in dead /\ (x \in new \/ run[x] # "DELETED") THEN "CANCELLED"
                                          ELSE IF x \in new THEN "QUEUED" ELSE run[x]]
               /\ step' = [x \in Runs |->
                     IF x \in gone THEN "DELETED"
                     ELSE IF x \in new THEN IF x \in dead THEN "CANCELLED" ELSE "QUEUED"
                     ELSE IF \/ x \in plan.replace /\ step[x] \in {"QUEUED", "RUNNING"}
                             \/ x \in plan.cancel /\ step[x] = "QUEUED"
                          THEN "CANCELLED" ELSE step[x]]
               /\ seq'     = [x \in Runs |-> IF x \in new THEN tx[c].seq[x] ELSE seq[x]]
               /\ counter' = counter + Cardinality({i \in DOMAIN tx[c].batch : Keyed(tx[c].batch[i])})
               /\ tx' = [tx EXCEPT ![c] = NoTx]
       /\ UNCHANGED <<fixed, attempts, age, executing, paused, starts>>

-----------------------------------------------------------------------------
(* The claim.  st is the step table as the statement sees it, the claims   *)
(* made earlier in the same transaction included.                          *)

\* The limit of a keyed step is at least one; a strategy takes it as declared.
KeyLimit(r) == IF req[r].limit = 0 THEN 1 ELSE req[r].limit

KeyGate(st, r) ==
    \/ req[r].key = None
    \/ Cardinality({x \in Runs : st[x] = "RUNNING" /\ req[x].key = req[r].key}) < KeyLimit(r)

KeysGate(st, r) ==
    \A k \in req[r].extra :
        Cardinality({x \in Runs : st[x] = "RUNNING" /\ \E j \in req[x].extra : j[1] = k[1]}) < k[2]

\* Mutant: only a RUNNING predecessor holds its successors back.
SequenceGateRunning(st, r) ==
    ~\E x \in Runs : /\ req[x].seqKey # None /\ req[x].seqKey = req[r].seqKey
                     /\ seq[x] < seq[r] /\ st[x] = "RUNNING"

\* Mutant: a step waits for itself.
SequenceGateSelf(st, r) ==
    ~\E x \in Runs : /\ req[x].seqKey # None /\ req[x].seqKey = req[r].seqKey
                     /\ seq[x] <= seq[r] /\ st[x] \in {"QUEUED", "RUNNING"}

SequenceGate(st, r) ==
    ~\E x \in Runs : /\ req[x].seqKey # None /\ req[x].seqKey = req[r].seqKey
                     /\ seq[x] < seq[r] /\ st[x] \in {"QUEUED", "RUNNING"}

Gates(st, r) == /\ KeyGate(st, r) /\ KeysGate(st, r) /\ SequenceGate(st, r)
                /\ req[r].queue \notin paused

\* claimCandidatesSQL: due steps that pass every gate, label gate included.
Candidates(q) == {r \in Runs : /\ step[r] = "QUEUED" /\ req[r].queue = q
                               /\ Gates(step, r) /\ req[r].labels \subseteq WorkerLabels}

\* Mutant: the gates are not repeated in the UPDATE.
ClaimUnchecked(st, r) == [st EXCEPT ![r] = "RUNNING"]

\* The guarded UPDATE of one candidate.
ClaimStep(st, r) == IF Gates(st, r) THEN [st EXCEPT ![r] = "RUNNING"] ELSE st

\* The steps whose claimed_at lies in the window, as far as they still exist.
Started(q) == {r \in Runs : req[r].queue = q /\ step[r] # "DELETED" /\ age[r] <= Window}

ClaimLimit(q) ==
    LET free == Slots[q] - Cardinality({r \in executing : req[r].queue = q})
        left == rate[q] - Cardinality(Started(q))
    IN IF rate[q] > 0 /\ left < free THEN left ELSE free

\* The candidate rows in ORDER BY priority DESC; run_at and ord break ties, so
\* any order of equals.  LIMIT cuts the list.
Orders(q) ==
    {o \in SetToAllKPermutations(Candidates(q)) :
        /\ Len(o) = Min({ClaimLimit(q), Cardinality(Candidates(q))})
        /\ \A i, j \in DOMAIN o : i < j => req[o[i]].priority >= req[o[j]].priority
        /\ \A i \in DOMAIN o : \A r \in Candidates(q) \ Range(o) : req[o[i]].priority >= req[r].priority}

\* claimQueueTx for queue q and the executors tick starts.
Claim(q, order) ==
    LET after   == FoldLeft(ClaimStep, step, order)
        claimed == {r \in Runs : after[r] # step[r]}
    IN /\ claimed # {}
       /\ step'      = after
       /\ run'       = [r \in Runs |-> IF r \in claimed /\ run[r] = "QUEUED" THEN "RUNNING" ELSE run[r]]
       /\ attempts'  = [r \in Runs |-> IF r \in claimed THEN attempts[r] + 1 ELSE attempts[r]]
       /\ age'       = [r \in Runs |-> IF r \in claimed /\ rate[q] > 0 THEN 0 ELSE age[r]]
       /\ executing' = executing \cup claimed
       /\ starts'    = [starts EXCEPT ![q][0] = IF rate[q] > 0 THEN @ + Cardinality(claimed) ELSE @]
       /\ UNCHANGED <<fixed, seq, counter, tx, paused>>

Tick == /\ \E r \in Runs : age[r] <= Window
        /\ age'    = [r \in Runs |-> IF age[r] <= Window THEN age[r] + 1 ELSE age[r]]
        /\ starts' = [q \in Queues |-> [a \in 0..Window |-> IF a = 0 THEN 0 ELSE starts[q][a - 1]]]
        /\ UNCHANGED <<fixed, table, attempts, tx, executing, paused>>

-----------------------------------------------------------------------------
(* The end of an execution (see RunLifecycle for its races), the client's  *)
(* Cancel, and the queue pause.                                            *)

Settle(r, outcome) ==
    /\ run'  = [run EXCEPT ![r] = IF req[r].ephemeral THEN "DELETED" ELSE outcome]
    /\ step' = [step EXCEPT ![r] = IF req[r].ephemeral THEN "DELETED" ELSE outcome]

\* completeStepTx or StepCancelled of a run that ended meanwhile.
FinishLate(r) == /\ run[r] \notin Live
                 /\ step' = [step EXCEPT ![r] = IF @ \in {"QUEUED", "RUNNING"} THEN "CANCELLED" ELSE @]
                 /\ UNCHANGED run

Retry(r) == /\ run[r] \in Live /\ attempts[r] < req[r].max
            /\ step' = [step EXCEPT ![r] = "QUEUED"]
            /\ UNCHANGED run

Finish(r) ==
    /\ r \in executing
    /\ executing' = executing \ {r}
    /\ \/ FinishLate(r)
       \/ run[r] \in Live /\ Settle(r, "SUCCEEDED")
       \/ Retry(r)
       \/ run[r] \in Live /\ attempts[r] >= req[r].max /\ Settle(r, "FAILED")
    /\ UNCHANGED <<fixed, seq, counter, attempts, age, tx, paused, starts>>

PauseQueue(q)  == /\ q \notin paused
                  /\ paused' = paused \cup {q}
                  /\ UNCHANGED <<fixed, table, attempts, age, tx, executing, starts>>

ResumeQueue(q) == /\ q \in paused
                  /\ paused' = paused \ {q}
                  /\ UNCHANGED <<fixed, table, attempts, age, tx, executing, starts>>

-----------------------------------------------------------------------------
Init ==
    /\ \E sc \in Scenarios : req = sc.req /\ rate = sc.rate
    /\ run = [r \in Runs |-> "NEW"] /\ step = [r \in Runs |-> "NEW"]
    /\ seq = [r \in Runs |-> 0] /\ counter = 0
    /\ attempts = [r \in Runs |-> 0]
    /\ age = [r \in Runs |-> Window + 1]
    /\ tx = [c \in Clients |-> NoTx]
    /\ executing = {} /\ paused = {}
    /\ starts = [q \in Queues |-> [a \in 0..Window |-> 0]]

Next == \/ \E c \in Clients : (\E b \in Batches : BeginEnqueue(c, b)) \/ CommitEnqueue(c)
        \/ \E q \in Queues : (\E o \in Orders(q) : Claim(q, o)) \/ PauseQueue(q) \/ ResumeQueue(q)
        \/ \E r \in Runs : Finish(r)
        \/ Tick

\* The scheduler claims what it may claim, bodies end, transactions end and
\* time passes; clients owe nothing, and a paused queue may stay paused.
Fairness == /\ \A q \in Queues : WF_vars(\E o \in Orders(q) : Claim(q, o))
            /\ \A r \in Runs : WF_vars(Finish(r))
            /\ WF_vars(Tick)
            /\ \A c \in Clients : WF_vars(CommitEnqueue(c)) /\ WF_vars(tx[c].pc = "again" /\ BeginEnqueue(c, tx[c].batch))

Spec == Init /\ [][Next]_vars /\ Fairness

-----------------------------------------------------------------------------
(* Properties.                                                             *)

Sharing(k) == {r \in executing : \E j \in req[r].extra : j[1] = k}

\* README: "At most one run per customer at a time, across every queue".  The
\* task bodies that really execute under one key are never more than its limit.
KeyLimitsRespected ==
    /\ \A r \in executing : req[r].key # None =>
          \E x \in executing : /\ req[x].key = req[r].key
                               /\ Cardinality({y \in executing : req[y].key = req[r].key}) <= KeyLimit(x)
    /\ \A r \in executing : \A k \in req[r].extra :
          \E x \in Sharing(k[1]) : \E j \in req[x].extra :
              j[1] = k[1] /\ Cardinality(Sharing(k[1])) <= j[2]

\* A queue has no more executions than slots, and no more starts in any window
\* than its rate, whatever one claim transaction takes at once.
QueueLimitsRespected ==
    \A q \in Queues :
        /\ Cardinality({r \in executing : req[r].queue = q}) <= Slots[q]
        /\ rate[q] > 0 => FoldFunction(+, 0, starts[q]) <= rate[q]

\* Every limit that a claim checks holds of what executes, also when one claim
\* takes several steps that share it: its guarded UPDATEs see one another.
LimitsRespected == KeyLimitsRespected /\ QueueLimitsRespected

\* Runs of one sequence execute one at a time and in the order of their
\* enqueue: while one executes, all that were enqueued before it have ended.
SequenceOrder ==
    \A r \in executing : \A x \in Runs \ {r} :
        req[x].seqKey # None /\ req[x].seqKey = req[r].seqKey /\ run[x] # "NEW" /\ seq[x] < seq[r]
        => x \notin executing /\ step[x] \notin {"QUEUED", "RUNNING"}

\* A unique key is held by one live run, and a cancel strategy leaves no more
\* live (or, for the two that only trim the line, queued) runs of its key than
\* the limit, whatever enqueues race.  task.go: "values <1 are treated as 1".
EnqueuePromises ==
    /\ \A r, x \in Runs : r # x /\ req[r].unique # None /\ req[x].unique = req[r].unique
                          => ~(run[r] \in Live /\ run[x] \in Live)
    /\ \A r \in Runs :
          LET mates == {x \in Runs : req[x].key = req[r].key /\ run[x] \in Live}
          IN req[r].strategy # "hold" /\ req[r].key # None /\ (\A x \in Runs : req[x].key = req[r].key =>
                                  /\ req[x].strategy = req[r].strategy
                                  /\ req[x].limit = req[r].limit)
             => IF req[r].strategy \in {"cancelNewest", "cancelInProgress"}
                THEN Cardinality(mates) <= KeyLimit(r)
                ELSE Cardinality({x \in mates : run[x] = "QUEUED"}) <= KeyLimit(r)

\* A run that ended keeps its outcome, also against an enqueue that read it as
\* live and cancels or replaces it by id.
OutcomeKept == [][\A r \in Runs : run[r] \in Terminal => run'[r] = run[r]]_run

\* Every run that some worker may execute is started or ended, unless its queue
\* is paused: no order of keys, sequences, limits and windows starves it.
Admitted == \A r \in Runs : (step[r] = "QUEUED" /\ req[r].labels \subseteq WorkerLabels)
                            ~> (step[r] # "QUEUED" \/ req[r].queue \in paused)

=============================================================================
