------------------------------- MODULE Cluster -------------------------------
(***************************************************************************)
(* Several engines over one Postgres or MySQL database (leases mode).      *)
(*                                                                         *)
(* A claim stamps the step with the engine's worker id and a lease; the    *)
(* heartbeat extends the leases of the worker's RUNNING steps; any node's  *)
(* reaper requeues a RUNNING step whose lease has run out.  Nothing fences *)
(* a worker that lost its lease: its writes carry no owner check.          *)
(*                                                                         *)
(* Every store method is one transaction.  ClaimLock serialises claims and *)
(* RunLock the writes that settle one run, so each is one atomic action.   *)
(* What an executor reads before its write is kept in its record.  Pause,  *)
(* suspension and dead letters are left to RunLifecycle.                   *)
(***************************************************************************)
EXTENDS Integers, FiniteSets

CONSTANTS Runs, Steps, RunOf, Deps,
          Ephemeral,    \* runs deleted when they finish
          Nodes,        \* the machines an engine may run on
          TTL,          \* the lease, in clock ticks
          MaxAttempts,
          StableIDs,    \* WithWorkerID: a restarted engine keeps its worker id
          Budget        \* how often each fault or client call may happen

Ops == {"stop", "restart", "cancel", "late"}

ASSUME ClusterAssumption ==
    /\ RunOf \in [Steps -> Runs]
    /\ Deps \in [Steps -> SUBSET Steps]
    /\ \A s \in Steps : \A d \in Deps[s] : RunOf[d] = RunOf[s]
    /\ Ephemeral \subseteq Runs
    /\ TTL \in Nat
    /\ MaxAttempts \in Nat \ {0}
    /\ StableIDs \in BOOLEAN
    /\ Budget \in [Ops -> Nat]

VARIABLES
    runStatus,    \* runs.status; "DELETED" once an ephemeral run is gone
    stepStatus,   \* steps.status
    attempts,     \* steps.attempts
    owner,        \* steps.worker_id
    lease,        \* ticks left of steps.lease_expires_at
    node,         \* "up", "draining" (Close waits), "swept", "down"
    incarnation,  \* how often the node's engine has been opened
    execs,        \* executor goroutines in the fleet
    budget,
    lapsed        \* history: steps whose lease ran out under a live executor

tables == <<runStatus, stepStatus, attempts, owner, lease>>
vars   == <<tables, node, incarnation, execs, budget, lapsed>>

NoLease == -2   \* lease_expires_at = 0
Expired == -1   \* 0 < lease_expires_at < now
NoOwner == <<>>

Terminal == {"SUCCEEDED", "FAILED", "CANCELLED", "INTERRUPTED"}
Active   == {"QUEUED", "RUNNING", "BLOCKED"}
Executor == [node : Nodes, step : Steps, att : Nat,
             pc : {"body", "ok", "cancel", "retry", "fail"}]

StepsOf(r) == {s \in Steps : RunOf[s] = r}
Spend(op)  == budget[op] > 0 /\ budget' = [budget EXCEPT ![op] = @ - 1]

WorkerID(n) == <<n, IF StableIDs THEN 0 ELSE incarnation[n]>>

Drop(e)    == execs' = execs \ {e}
Goto(e, p) == execs' = (execs \ {e}) \cup {[e EXCEPT !.pc = p]}

-----------------------------------------------------------------------------
(* Effects of the store's transactions.                                    *)

DeleteRun(r) == /\ runStatus'  = [runStatus EXCEPT ![r] = "DELETED"]
                /\ stepStatus' = [s \in Steps |-> IF RunOf[s] = r THEN "DELETED" ELSE stepStatus[s]]

Flip(s, from, to) ==
    stepStatus' = [stepStatus EXCEPT ![s] = IF @ \in from THEN to ELSE @]

\* The run's row and its steps after a transition: an ephemeral run that
\* becomes terminal is deleted in the transaction that ends it.
Settle(r, st, steps) ==
    IF st \in Terminal /\ r \in Ephemeral THEN DeleteRun(r)
    ELSE runStatus' = [runStatus EXCEPT ![r] = st] /\ stepStatus' = steps

Unblocked(steps, r) ==
    [t \in Steps |-> IF /\ RunOf[t] = r /\ steps[t] = "BLOCKED"
                        /\ \A d \in Deps[t] : steps[d] = "SUCCEEDED"
                     THEN "QUEUED" ELSE steps[t]]

Outcome(steps, r) ==
    IF \E t \in StepsOf(r) : steps[t] \in Active THEN "RUNNING"
    ELSE IF \E t \in StepsOf(r) : steps[t] = "FAILED" THEN "FAILED" ELSE "SUCCEEDED"

\* completeStepTx.  It asks whether the step is QUEUED or RUNNING, not whose it
\* is.  A row that is gone is an error: the transaction rolls back.
CompleteStep(s) ==
    LET r    == RunOf[s]
        done == Unblocked([stepStatus EXCEPT ![s] = "SUCCEEDED"], r)
        out  == Outcome(done, r)
    IN IF runStatus[r] = "DELETED" \/ stepStatus[s] \notin {"QUEUED", "RUNNING"}
       THEN UNCHANGED <<runStatus, stepStatus>>
       ELSE IF runStatus[r] \in Terminal
       THEN Flip(s, {"QUEUED", "RUNNING"}, "CANCELLED") /\ UNCHANGED runStatus
       ELSE Settle(r, IF out = "RUNNING" THEN runStatus[r] ELSE out, done)

\* Mutant: the siblings are cancelled by run id alone.
EverySibling(s) == StepsOf(RunOf[s]) \ {s}

ActiveSiblings(s) == {t \in StepsOf(RunOf[s]) \ {s} : stepStatus[t] \in Active}

\* FinalFailStep: the step is overwritten whatever it is, every active sibling
\* is cancelled, and a run that is not terminal fails.
FinalFailStep(s) ==
    LET r     == RunOf[s]
        steps == [t \in Steps |-> IF t = s THEN "FAILED"
                                  ELSE IF t \in ActiveSiblings(s) THEN "CANCELLED" ELSE stepStatus[t]]
    IN IF runStatus[r] = "DELETED" THEN UNCHANGED <<runStatus, stepStatus>>
       ELSE Settle(r, IF runStatus[r] \in Terminal THEN runStatus[r] ELSE "FAILED", steps)

-----------------------------------------------------------------------------
(* The scheduler and the executors of a node.                              *)

\* claimQueueTx for one candidate, and the goroutine tick starts for it.
Claim(n, s) ==
    /\ node[n] = "up"
    /\ stepStatus[s] = "QUEUED"
    /\ stepStatus' = [stepStatus EXCEPT ![s] = "RUNNING"]
    /\ attempts'   = [attempts EXCEPT ![s] = @ + 1]
    /\ owner'      = [owner EXCEPT ![s] = WorkerID(n)]
    /\ lease'      = [lease EXCEPT ![s] = TTL]
    /\ runStatus'  = [runStatus EXCEPT ![RunOf[s]] = IF @ = "QUEUED" THEN "RUNNING" ELSE @]
    /\ execs'      = execs \cup {[node |-> n, step |-> s, att |-> attempts[s] + 1, pc |-> "body"]}
    /\ UNCHANGED <<node, incarnation, budget, lapsed>>

\* The body returns without an error: the success waits in the completer.
BodyOk(e) == /\ e.pc = "body"
             /\ Goto(e, "ok")
             /\ UNCHANGED <<tables, node, incarnation, budget, lapsed>>

\* The body returns an error: what execute decides from the run's status, the
\* closing flag and the attempts it was claimed with.
BodyErr(e) ==
    /\ e.pc = "body"
    /\ IF runStatus[RunOf[e.step]] \in Terminal THEN Goto(e, "cancel")
       ELSE IF node[e.node] # "up" THEN Drop(e)
       ELSE Goto(e, IF e.att < MaxAttempts THEN "retry" ELSE "fail")
    /\ UNCHANGED <<tables, node, incarnation, budget, lapsed>>

WriteOk(e) == /\ e.pc = "ok"
              /\ CompleteStep(e.step)
              /\ Drop(e)
              /\ UNCHANGED <<attempts, owner, lease, node, incarnation, budget, lapsed>>

WriteCancel(e) == /\ e.pc = "cancel"
                  /\ Flip(e.step, {"QUEUED", "RUNNING"}, "CANCELLED")
                  /\ Drop(e)
                  /\ UNCHANGED <<runStatus, attempts, owner, lease, node, incarnation, budget, lapsed>>

\* RetryStep asks for RUNNING; the worker id and the lease stay on the row.
WriteRetry(e) == /\ e.pc = "retry"
                 /\ Flip(e.step, {"RUNNING"}, "QUEUED")
                 /\ Drop(e)
                 /\ UNCHANGED <<runStatus, attempts, owner, lease, node, incarnation, budget, lapsed>>

WriteFail(e) == /\ e.pc = "fail"
                /\ FinalFailStep(e.step)
                /\ Drop(e)
                /\ UNCHANGED <<attempts, owner, lease, node, incarnation, budget, lapsed>>

-----------------------------------------------------------------------------
(* Leases.                                                                 *)

\* One tick of the clock.  A node that is up heartbeats three times per lease;
\* "late" ticks are those a slow node misses.  Close stops the heartbeat, so
\* the leases of a draining node run out with no fault at all.
Tick ==
    LET ends == {s \in Steps : stepStatus[s] = "RUNNING" /\ lease[s] = 0}
        held == {s \in ends : \E e \in execs : e.step = s}
        slow == {s \in ends : \E n \in Nodes : node[n] = "up" /\ owner[s] = WorkerID(n)}
    IN /\ \E s \in Steps : stepStatus[s] = "RUNNING" /\ lease[s] >= 0
       /\ lease' = [s \in Steps |-> IF stepStatus[s] = "RUNNING" /\ lease[s] >= 0
                                    THEN lease[s] - 1 ELSE lease[s]]
       /\ lapsed' = lapsed \cup held
       /\ IF slow # {} THEN Spend("late") ELSE UNCHANGED budget
       /\ UNCHANGED <<runStatus, stepStatus, attempts, owner, node, incarnation, execs>>

\* Mutant: the worker_id condition is missing.
EveryRunning(n) == {s \in Steps : stepStatus[s] = "RUNNING"}

\* WHERE worker_id=? AND status='RUNNING'
RunningOf(n) == {s \in Steps : stepStatus[s] = "RUNNING" /\ owner[s] = WorkerID(n)}

\* heartbeatLoop: HeartbeatWorker extends every RUNNING step of the worker.
Heartbeat(n) ==
    /\ node[n] = "up"
    /\ \E s \in RunningOf(n) : lease[s] # TTL
    /\ lease' = [s \in Steps |-> IF s \in RunningOf(n) THEN TTL ELSE lease[s]]
    /\ UNCHANGED <<runStatus, stepStatus, attempts, owner, node, incarnation, execs, budget, lapsed>>

\* Mutant: a step is taken to be abandoned because another worker runs it.
AnyLease(s) == stepStatus[s] = "RUNNING" /\ runStatus[RunOf[s]] \notin Terminal

Expirable(s) == /\ stepStatus[s] = "RUNNING"
                /\ lease[s] = Expired
                /\ runStatus[RunOf[s]] \notin Terminal

\* reapLoop: ReapExpired requeues what ran out; the attempt stays spent.
Reap(n) ==
    LET reap == {s \in Steps : Expirable(s)}
    IN /\ node[n] = "up"
       /\ reap # {}
       /\ stepStatus' = [s \in Steps |-> IF s \in reap THEN "QUEUED" ELSE stepStatus[s]]
       /\ owner'      = [s \in Steps |-> IF s \in reap THEN NoOwner ELSE owner[s]]
       /\ lease'      = [s \in Steps |-> IF s \in reap THEN NoLease ELSE lease[s]]
       /\ UNCHANGED <<runStatus, attempts, node, incarnation, execs, budget, lapsed>>

-----------------------------------------------------------------------------
(* Client calls, shutdown, crash and restart.                              *)

\* CancelRun leaves the RUNNING steps to their executors.
CancelRun(r) ==
    /\ runStatus[r] \in {"QUEUED", "RUNNING"}
    /\ Spend("cancel")
    /\ Settle(r, "CANCELLED", [s \in Steps |-> IF RunOf[s] = r /\ stepStatus[s] \in {"QUEUED", "BLOCKED"}
                                               THEN "CANCELLED" ELSE stepStatus[s]])
    /\ UNCHANGED <<attempts, owner, lease, node, incarnation, execs, lapsed>>

\* Close: the loops (heartbeat, reaper, scheduler) are joined, then the drain.
Close(n) ==
    /\ node[n] = "up"
    /\ Spend("stop")
    /\ node' = [node EXCEPT ![n] = "draining"]
    /\ UNCHANGED <<tables, incarnation, execs, lapsed>>

\* InterruptAll(workerID), when the drain ends or its context expires: an
\* ephemeral run with one of the worker's steps RUNNING is deleted, other such
\* steps are INTERRUPTED, and so is a RUNNING run left with no active step.
InterruptAll(n) ==
    LET mine  == RunningOf(n)
        gone  == {RunOf[s] : s \in mine} \cap Ephemeral
        steps == [s \in Steps |-> IF RunOf[s] \in gone THEN "DELETED"
                                  ELSE IF s \in mine THEN "INTERRUPTED" ELSE stepStatus[s]]
        ended == {r \in {RunOf[s] : s \in mine} \ gone :
                     runStatus[r] = "RUNNING" /\ \A t \in StepsOf(r) : steps[t] \notin Active}
    IN /\ node[n] = "draining"
       /\ ~\E e \in execs : e.node = n /\ e.pc = "ok"   \* stopCompleter came first
       /\ node' = [node EXCEPT ![n] = "swept"]
       /\ stepStatus' = steps
       /\ runStatus'  = [r \in Runs |-> IF r \in gone THEN "DELETED"
                                        ELSE IF r \in ended THEN "INTERRUPTED" ELSE runStatus[r]]
       /\ owner' = [s \in Steps |-> IF s \in mine THEN NoOwner ELSE owner[s]]
       /\ lease' = [s \in Steps |-> IF s \in mine THEN NoLease ELSE lease[s]]
       /\ UNCHANGED <<attempts, incarnation, execs, budget, lapsed>>

\* The end of Close, or a crash: the process and its goroutines are gone.
Exit(n) == /\ node' = [node EXCEPT ![n] = "down"]
           /\ execs' = {e \in execs : e.node # n}
           /\ UNCHANGED <<tables, incarnation, lapsed>>

Crash(n) == node[n] # "down" /\ Spend("stop") /\ Exit(n)

Closed(n) == node[n] = "swept" /\ Exit(n) /\ UNCHANGED budget

\* Open: a new worker id unless WithWorkerID fixes it.  A lease backend runs no
\* boot recovery: what the old process left RUNNING stays so.
Restart(n) ==
    /\ node[n] = "down"
    /\ Spend("restart")
    /\ node' = [node EXCEPT ![n] = "up"]
    /\ incarnation' = [incarnation EXCEPT ![n] = @ + 1]
    /\ UNCHANGED <<tables, execs, lapsed>>

-----------------------------------------------------------------------------
Init ==
    /\ runStatus   = [r \in Runs |-> "QUEUED"]
    /\ stepStatus  = [s \in Steps |-> IF Deps[s] = {} THEN "QUEUED" ELSE "BLOCKED"]
    /\ attempts    = [s \in Steps |-> 0]
    /\ owner       = [s \in Steps |-> NoOwner]
    /\ lease       = [s \in Steps |-> NoLease]
    /\ node        = [n \in Nodes |-> "up"]
    /\ incarnation = [n \in Nodes |-> 1]
    /\ execs       = {}
    /\ budget      = Budget
    /\ lapsed      = {}

Execute(e) == BodyOk(e) \/ BodyErr(e) \/ WriteOk(e) \/ WriteCancel(e) \/ WriteRetry(e) \/ WriteFail(e)

Next == \/ \E n \in Nodes, s \in Steps : Claim(n, s)
        \/ \E e \in execs : Execute(e)
        \/ Tick
        \/ \E n \in Nodes : Heartbeat(n) \/ Reap(n) \/ Close(n) \/ InterruptAll(n)
                            \/ Closed(n) \/ Crash(n) \/ Restart(n)
        \/ \E r \in Runs : CancelRun(r)

\* Time passes, and the loops of a node that is up run.  No fairness for the
\* task bodies (a body may run for ever), for clients or for faults.
Spec == /\ Init /\ [][Next]_vars
        /\ WF_vars(Tick)
        /\ \A n \in Nodes : WF_vars(Heartbeat(n)) /\ WF_vars(Reap(n))

-----------------------------------------------------------------------------
(* Properties.                                                             *)

TypeOK ==
    /\ runStatus \in [Runs -> {"QUEUED", "RUNNING", "DELETED"} \cup Terminal]
    /\ stepStatus \in [Steps -> Active \cup Terminal \cup {"DELETED"}]
    /\ attempts \in [Steps -> Nat]
    /\ owner \in [Steps -> (Nodes \X Nat) \cup {NoOwner}]
    /\ lease \in [Steps -> NoLease..TTL]
    /\ node \in [Nodes -> {"up", "draining", "swept", "down"}]
    /\ incarnation \in [Nodes -> Nat]
    /\ execs \subseteq Executor
    /\ budget \in [Ops -> Nat]
    /\ lapsed \subseteq Steps

\* As long as no lease has run out under a live executor, a step is executed by
\* at most one goroutine of the whole fleet, however nodes crash, close,
\* restart, reap and reclaim (ReapExpired, claimQueueTx, InterruptAll).
SingleUnlessLapsed ==
    \A e, f \in execs : e.step = f.step /\ e.step \notin lapsed => e = f

\* store.go: Close interrupts "only that worker's RUNNING steps", and "a run
\* another worker is still executing is left alone".  The sweep of one node
\* changes no step that another node executes under a lease that never ran out.
PeerWorkLeftAlone ==
    [][\A n \in Nodes : node[n] = "draining" /\ node'[n] = "swept" =>
          \A e \in execs : e.node # n /\ e.step \notin lapsed
                           => stepStatus'[e.step] = stepStatus[e.step]]_vars

\* A recorded success stays: no reaper, sweep, cancel or late failure write
\* changes a SUCCEEDED step whose lease never ran out under its executor.
SuccessKept ==
    [][\A s \in Steps \ lapsed : stepStatus[s] = "SUCCEEDED"
                                 => stepStatus'[s] \in {"SUCCEEDED", "DELETED"}]_vars

\* A RUNNING step of an unfinished run that no process executes any more.
Orphan(s) == /\ stepStatus[s] = "RUNNING"
             /\ runStatus[RunOf[s]] \notin Terminal
             /\ ~\E e \in execs : e.step = s

\* README: "a crashed node's work is picked up without a human".  An orphaned
\* step does not stay orphaned while some engine is up to reap it.
CrashedWorkRecovered ==
    \A s \in Steps : Orphan(s) ~> (~Orphan(s) \/ \A n \in Nodes : node[n] # "up")

=============================================================================
