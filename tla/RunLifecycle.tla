---------------------------- MODULE RunLifecycle ----------------------------
(***************************************************************************)
(* One engine over its single-writer store (Ephemeral or File storage).    *)
(*                                                                         *)
(* The database holds the runs and steps tables.  The engine holds, under  *)
(* e.mu, the cancel functions, halt tombstones, pause marks and waiters,   *)
(* plus the completer's pending list.  Every store method is one write     *)
(* transaction on the one writer connection, so it is one atomic action;   *)
(* every critical section of e.mu is one atomic action; whatever the code  *)
(* reads in one and uses in the next is kept in the executor's record.     *)
(*                                                                         *)
(* Times (run_at, backoff, resume_at) are abstracted: a due time may have  *)
(* passed at any moment.  Inputs, outputs and error texts are left out.    *)
(***************************************************************************)
EXTENDS Integers, FiniteSets, Sequences

CONSTANTS Runs,         \* run ids
          Steps,        \* step ids
          RunOf,        \* the run a step belongs to
          Deps,         \* depends_on: the steps a step waits for
          Ephemeral,    \* runs whose history is deleted when they finish
          Unique,       \* runs of tasks with unique keys in replace mode
          DeadLetter,   \* runs whose tasks dead-letter an exhausted failure
          MaxAttempts,  \* max_attempts of every step
          Slots,        \* the queue's execution slots (its concurrency)
          BootModes,    \* the RecoverRunningOnBoot settings the file is opened with
          Budget,       \* how often each client call or fault may happen
          None          \* "no such thing"

\* Client calls and faults that a model may bound; everything else is engine work.
Ops == {"cancel", "pause", "resume", "retryDead", "dismiss", "emit", "purge",
        "suspend", "veto", "close", "timeout", "restart", "storeError"}

ASSUME StepsAssumption == /\ RunOf \in [Steps -> Runs]
                          /\ Deps \in [Steps -> SUBSET Steps]
                          /\ \A s \in Steps : \A d \in Deps[s] : RunOf[d] = RunOf[s]
ASSUME ConfigAssumption == /\ Ephemeral \subseteq Runs
                           /\ Unique \subseteq Runs
                           /\ DeadLetter \subseteq Runs
                           /\ MaxAttempts \in Nat \ {0}
                           /\ BootModes \subseteq BOOLEAN
                           /\ Budget \in [Ops -> Nat]
                           /\ None \notin Slots
ASSUME NoneAssumption == None \notin {"SUCCEEDED", "FAILED"}

Terminal == {"SUCCEEDED", "FAILED", "CANCELLED", "INTERRUPTED"}
Live     == {"QUEUED", "RUNNING", "PAUSED"}                 \* of a run
Active   == {"QUEUED", "RUNNING", "BLOCKED", "SUSPENDED"}   \* of a step

VARIABLES
    runStatus,   \* runs.status; "NEW" before the insert, "DELETED" after a delete
    dead,        \* runs with dead_lettered_at > 0
    stepStatus,  \* steps.status
    attempts,    \* steps.attempts
    waitKind,    \* what a SUSPENDED step waits for: a sleep, an event, or an
                 \* event with a deadline ("" otherwise); resume_at > 0 for the
                 \* kinds in Timed
    ex,          \* the executor goroutine in each slot
    cancels,     \* e.cancels: the slot whose context a step's cancel func ends
    haltSteps,   \* e.haltSteps
    pauseSteps,  \* e.pauseSteps
    waiters,     \* the handle of each run: "none", "open", or the status it got
    pending,     \* e.cmplPending: successes not yet recorded
    finishing,   \* recorded outcomes whose waiters the completer still owes
    calls,       \* client calls between their transaction and their e.mu part
    mode,        \* "up", then the stages of Close
    registered,  \* the application has registered its tasks in this process
    budget,      \* what is left of Budget
    fails        \* history: body errors charged to each step

database == <<runStatus, dead, stepStatus, attempts, waitKind>>
memory   == <<cancels, haltSteps, pauseSteps, waiters, pending, finishing, calls>>
vars     == <<database, ex, memory, mode, registered, budget, fails>>

Timed   == {"sleep", "deadline"}
Evented == {"wait", "deadline"}

StepsOf(r) == {s \in Steps : RunOf[s] = r}
RunningSteps(r) == {s \in StepsOf(r) : stepStatus[s] = "RUNNING"}
Idle       == [pc |-> "idle", step |-> None, att |-> 0, res |-> "", cancelled |-> FALSE, kill |-> {}]
Spend(op)  == budget[op] > 0 /\ budget' = [budget EXCEPT ![op] = @ - 1]
StoreOpen  == mode # "closed"   \* the last thing Close does is to close the database
StoreFails == IF StoreOpen THEN Spend("storeError") ELSE UNCHANGED budget

\* Where an executor may still start or be inside the task body, or still owes
\* the outcome of one: from the claim to the write that settles the step.
Holding == {"claimed", "halted", "pauseCheck", "body", "afterBody", "pauseTerminal",
            "decide", "closingCheck", "requeue", "retry", "finalFail", "direct"}
Pcs == Holding \cup {"idle", "suspended", "stepCancel", "finish", "exit"}

-----------------------------------------------------------------------------
(* The store: each operator is the effect of one transaction.              *)

\* UPDATE steps SET status=to WHERE id=s AND status IN from
UpdateStep(s, from, to) ==
    stepStatus' = [stepStatus EXCEPT ![s] = IF @ \in from THEN to ELSE @]

runTerminal(r) == runStatus[r] \in Terminal   \* false for a deleted run

deleteEphemeralRunTx(st, r) ==
    [t \in Steps |-> IF RunOf[t] = r THEN "DELETED" ELSE st[t]]

\* Mutant: the outcome is recorded but an ephemeral run is not deleted with it.
SetRunKeepsHistory(r, o, st) ==
    runStatus' = [runStatus EXCEPT ![r] = o] /\ stepStatus' = st

\* A run reaches status o by its steps, a failure or Cancel: an ephemeral one is
\* deleted in the same transaction.
SetRun(r, o, st) ==
    IF r \in Ephemeral
    THEN /\ runStatus' = [runStatus EXCEPT ![r] = "DELETED"]
         /\ stepStatus' = deleteEphemeralRunTx(st, r)
    ELSE /\ runStatus' = [runStatus EXCEPT ![r] = o]
         /\ stepStatus' = st

\* The rows of r start over: its steps queued, or blocked by their dependencies.
reopenRun(r) ==
    /\ runStatus' = [runStatus EXCEPT ![r] = "QUEUED"]
    /\ stepStatus' = [s \in Steps |->
          IF RunOf[s] # r THEN stepStatus[s]
          ELSE IF Deps[s] = {} THEN "QUEUED" ELSE "BLOCKED"]

\* liveRunByUnique: the live run, if any, that holds the key r is enqueued with.
\* Keys are the client's; that a revived run has lost its key is left open.
Holder(r) == {{}} \cup {{q} : q \in {p \in Unique : r \in Unique /\ runStatus[p] \in Live}}

\* createRunsUniqueTx: replaceRunTx cancels the holder and every active step of it,
\* the RUNNING ones too, and keeps its rows even if it is ephemeral; r is inserted.
replaceAndInsert(r, old) ==
    /\ runStatus' = [q \in Runs |-> IF q = r THEN "QUEUED" ELSE IF q \in old THEN "CANCELLED"
                                    ELSE runStatus[q]]
    /\ stepStatus' = [s \in Steps |->
          IF RunOf[s] = r THEN (IF Deps[s] = {} THEN "QUEUED" ELSE "BLOCKED")
          ELSE IF RunOf[s] \in old /\ stepStatus[s] \in Active THEN "CANCELLED"
          ELSE stepStatus[s]]

\* Mutant: the run's own status is not asked before a success counts.
StepDoneAnyRun(s) == stepStatus[s] \in {"QUEUED", "RUNNING"}

\* The success of s is recorded (StepDone): s SUCCEEDED, the BLOCKED
\* dependents with no unfinished dependency QUEUED.
StepDone(s) == runStatus[RunOf[s]] \in Live /\ stepStatus[s] \in {"QUEUED", "RUNNING"}

\* Mutants: one finished dependency is enough; dependents are forgotten.
unblockReadyAny(s) ==
    [t \in Steps |-> IF t = s THEN "SUCCEEDED"
                     ELSE IF stepStatus[t] = "BLOCKED" /\ s \in Deps[t] THEN "QUEUED" ELSE stepStatus[t]]
unblockReadyNever(s) == [stepStatus EXCEPT ![s] = "SUCCEEDED"]

unblockReadyTx(s) ==
    LET done == [stepStatus EXCEPT ![s] = "SUCCEEDED"]
    IN  [t \in Steps |->
          IF /\ RunOf[t] = RunOf[s]
             /\ done[t] = "BLOCKED"
             /\ s \in Deps[t]
             /\ \A d \in Deps[t] : done[d] = "SUCCEEDED"
          THEN "QUEUED" ELSE done[t]]

\* Mutants: RUNNING siblings are not counted; no completion finishes its run.
RunOutcomeEarly(s) ==
    IF ~StepDone(s) \/ \E t \in StepsOf(RunOf[s]) : unblockReadyTx(s)[t] \in {"QUEUED", "BLOCKED"}
    THEN None ELSE "SUCCEEDED"
RunOutcomeNever(s) == None

\* The run's status once s is recorded, None while a step is still active.
RunOutcome(s) ==
    LET st == unblockReadyTx(s)
        of == StepsOf(RunOf[s])
    IN  IF ~StepDone(s) \/ \E t \in of : st[t] \in Active THEN None
        ELSE IF \E t \in of : st[t] = "FAILED" THEN "FAILED" ELSE "SUCCEEDED"

completeStepTx(s) ==
    LET r == RunOf[s] IN
    IF runTerminal(r)
    THEN UpdateStep(s, {"QUEUED", "RUNNING"}, "CANCELLED") /\ UNCHANGED runStatus
    ELSE IF ~StepDone(s) THEN UNCHANGED <<stepStatus, runStatus>>
    ELSE IF RunOutcome(s) = None
         THEN stepStatus' = unblockReadyTx(s) /\ UNCHANGED runStatus
         ELSE SetRun(r, RunOutcome(s), unblockReadyTx(s))

\* Mutant: the run's final write is not guarded against a run that is over.
FinalFailUnguarded(s) ==
    /\ SetRun(RunOf[s], "FAILED", [stepStatus EXCEPT ![s] = "FAILED"])
    /\ UNCHANGED dead

\* The step is FAILED whatever it was, its active siblings CANCELLED, a live run FAILED.
FinalFailStep(s) ==
    LET r  == RunOf[s]
        st == [t \in Steps |-> IF t = s THEN "FAILED"
                               ELSE IF RunOf[t] = r /\ stepStatus[t] \in Active THEN "CANCELLED"
                               ELSE stepStatus[t]]
    IN  /\ SetRun(r, IF runStatus[r] \in Live THEN "FAILED" ELSE runStatus[r], st)
        /\ dead' = IF r \in DeadLetter \ Ephemeral /\ runStatus[r] \in Live THEN dead \cup {r} ELSE dead

StepCancelled(s) ==
    /\ UpdateStep(s, {"QUEUED", "RUNNING", "SUSPENDED"}, "CANCELLED")
    /\ waitKind' = [waitKind EXCEPT ![s] = IF stepStatus[s] \in {"QUEUED", "RUNNING", "SUSPENDED"} THEN "" ELSE @]

\* Back to QUEUED with the claim's attempt handed back (a pause, an unknown task).
Refund(s) ==
    /\ UpdateStep(s, {"RUNNING"}, "QUEUED")
    /\ attempts' = [attempts EXCEPT ![s] = IF stepStatus[s] = "RUNNING" /\ @ > 0 THEN @ - 1 ELSE @]

-----------------------------------------------------------------------------
(* Client calls.                                                           *)

\* EnqueueBatch registers the waiter and checks closing under one lock ...
EnqueueRegister(r) ==
    /\ mode = "up"
    /\ runStatus[r] = "NEW" /\ waiters[r] = "none"
    /\ waiters' = [waiters EXCEPT ![r] = "open"]
    /\ calls' = calls \cup {[op |-> "enqueue", run |-> r, steps |-> {}]}
    /\ UNCHANGED <<database, ex, cancels, haltSteps, pauseSteps, pending, finishing,
                   mode, registered, budget, fails>>

\* ... then inserts the run, for which it may replace another; what the replaced
\* one was executing it interrupts afterwards, as Cancel does,
EnqueueCreate(c) ==
    /\ c.op = "enqueue" /\ StoreOpen
    /\ \E old \in Holder(c.run) :
          /\ replaceAndInsert(c.run, old)
          /\ calls' = (calls \ {c}) \cup
                {[op |-> "cancel", run |-> q, steps |-> RunningSteps(q)] : q \in old}
    /\ UNCHANGED <<dead, attempts, waitKind, ex, cancels, haltSteps, pauseSteps, waiters,
                   pending, finishing, mode, registered, budget, fails>>

\* or, when the insert fails, forgets the waiter and returns the error.
EnqueueFail(c) ==
    /\ c.op = "enqueue"
    /\ StoreFails
    /\ waiters' = [waiters EXCEPT ![c.run] = IF @ = "open" THEN "none" ELSE @]
    /\ calls' = calls \ {c}
    /\ UNCHANGED <<database, ex, cancels, haltSteps, pauseSteps, pending, finishing,
                   mode, registered, fails>>

\* Cancel runs under e.ctx, so a closing engine refuses it.
CancelRun(r) ==
    /\ mode = "up" /\ Spend("cancel")
    /\ runStatus[r] \in Live
    /\ SetRun(r, "CANCELLED", [s \in Steps |->
          IF RunOf[s] = r /\ stepStatus[s] \in {"QUEUED", "BLOCKED", "SUSPENDED"}
          THEN "CANCELLED" ELSE stepStatus[s]])
    /\ calls' = calls \cup {[op |-> "cancel", run |-> r, steps |-> RunningSteps(r)]}
    /\ UNCHANGED <<dead, attempts, waitKind, ex, cancels, haltSteps, pauseSteps, waiters,
                   pending, finishing, mode, registered, fails>>

\* Contexts of the slots in which a cancel func is registered for a step of S.
CancelContexts(S) ==
    [w \in Slots |-> IF \E s \in S : cancels[s] = w
                     THEN [ex[w] EXCEPT !.cancelled = TRUE] ELSE ex[w]]
Unregistered(S) == {s \in S : cancels[s] = None}
Release(r, o)   == [waiters EXCEPT ![r] = IF @ = "open" THEN o ELSE @]

interruptLocal(c) ==
    /\ c.op = "cancel"
    /\ ex' = CancelContexts(c.steps)
    /\ haltSteps' = haltSteps \cup Unregistered(c.steps)
    /\ waiters' = Release(c.run, "CANCELLED")
    /\ calls' = calls \ {c}
    /\ UNCHANGED <<database, cancels, pauseSteps, pending, finishing, mode, registered,
                   budget, fails>>

PauseRun(r) ==
    /\ StoreOpen /\ Spend("pause")
    /\ runStatus[r] \in {"QUEUED", "RUNNING"}
    /\ runStatus' = [runStatus EXCEPT ![r] = "PAUSED"]
    /\ calls' = calls \cup {[op |-> "pause", run |-> r, steps |-> RunningSteps(r)]}
    /\ UNCHANGED <<dead, stepStatus, attempts, waitKind, ex, cancels, haltSteps, pauseSteps,
                   waiters, pending, finishing, mode, registered, fails>>

PauseMark(c) ==
    /\ c.op = "pause"
    /\ pauseSteps' = pauseSteps \cup c.steps
    /\ ex' = CancelContexts(c.steps)
    /\ calls' = calls \ {c}
    /\ UNCHANGED <<database, cancels, haltSteps, waiters, pending, finishing, mode,
                   registered, budget, fails>>

\* Mutant: resuming a run also requeues the steps the pause found RUNNING.
ResumeRunRequeues(r) ==
    /\ StoreOpen /\ Spend("resume")
    /\ runStatus[r] = "PAUSED"
    /\ runStatus' = [runStatus EXCEPT ![r] = "QUEUED"]
    /\ stepStatus' = [s \in Steps |-> IF s \in RunningSteps(r) THEN "QUEUED" ELSE stepStatus[s]]
    /\ UNCHANGED <<dead, attempts, waitKind, ex, memory, mode, registered, fails>>

ResumeRun(r) ==
    /\ StoreOpen /\ Spend("resume")
    /\ runStatus[r] = "PAUSED"
    /\ runStatus' = [runStatus EXCEPT ![r] = "QUEUED"]
    /\ UNCHANGED <<dead, stepStatus, attempts, waitKind, ex, memory, mode, registered, fails>>

\* The retried run's steps all start over; executors of the failed run may still be alive.
RetryDeadLetter(r) ==
    /\ StoreOpen /\ Spend("retryDead")
    /\ runStatus[r] = "FAILED" /\ r \in dead
    /\ reopenRun(r)
    /\ dead' = dead \ {r}
    /\ attempts' = [s \in Steps |-> IF RunOf[s] = r THEN 0 ELSE attempts[s]]
    /\ fails'    = [s \in Steps |-> IF RunOf[s] = r THEN 0 ELSE fails[s]]
    /\ waitKind' = [s \in Steps |-> IF RunOf[s] = r THEN "" ELSE waitKind[s]]
    /\ UNCHANGED <<ex, memory, mode, registered>>

DismissDeadLetter(r) ==
    /\ StoreOpen /\ Spend("dismiss")
    /\ r \in dead
    /\ dead' = dead \ {r}
    /\ UNCHANGED <<runStatus, stepStatus, attempts, waitKind, ex, memory, mode, registered, fails>>

\* Emit wakes every suspended step of a live run that waits for the event.
DeliverEvent ==
    LET woken == {s \in Steps : /\ stepStatus[s] = "SUSPENDED" /\ waitKind[s] \in Evented
                                /\ runStatus[RunOf[s]] \in Live}
    IN  /\ StoreOpen /\ Spend("emit")
        /\ woken # {}
        /\ stepStatus' = [s \in Steps |-> IF s \in woken THEN "QUEUED" ELSE stepStatus[s]]
        /\ waitKind'   = [s \in Steps |-> IF s \in woken THEN "" ELSE waitKind[s]]
        /\ UNCHANGED <<runStatus, dead, attempts, ex, memory, mode, registered, fails>>

\* Retention deletes an old terminal run, never one with a RUNNING step.
purgeRunBatch(r) ==
    /\ mode = "up" /\ Spend("purge")
    /\ runTerminal(r)
    /\ RunningSteps(r) = {}
    /\ runStatus' = [runStatus EXCEPT ![r] = "DELETED"]
    /\ stepStatus' = deleteEphemeralRunTx(stepStatus, r)
    /\ dead' = dead \ {r}
    /\ UNCHANGED <<attempts, waitKind, ex, memory, mode, registered, fails>>

-----------------------------------------------------------------------------
(* The scheduler.                                                          *)

Fresh(s) == stepStatus[s] = "QUEUED"

\* Fresh work is charged an attempt and starts its run; a timed suspension that
\* has come due resumes free of charge.  The run row is asked only about PAUSED.
claimQueueTx(w, s) ==
    /\ mode = "up" /\ ex[w].pc = "idle"
    /\ runStatus[RunOf[s]] # "PAUSED"
    /\ \/ /\ Fresh(s)
          /\ attempts' = [attempts EXCEPT ![s] = @ + 1]
          /\ runStatus' = [runStatus EXCEPT ![RunOf[s]] = IF @ = "QUEUED" THEN "RUNNING" ELSE @]
       \/ /\ stepStatus[s] = "SUSPENDED" /\ waitKind[s] \in Timed
          /\ UNCHANGED <<attempts, runStatus>>
    /\ stepStatus' = [stepStatus EXCEPT ![s] = "RUNNING"]
    /\ waitKind' = [waitKind EXCEPT ![s] = ""]
    /\ ex' = [ex EXCEPT ![w] = [Idle EXCEPT !.pc = "claimed", !.step = s, !.att = attempts'[s]]]
    /\ UNCHANGED <<dead, memory, mode, registered, budget, fails>>

RegisterTask ==
    /\ ~registered
    /\ registered' = TRUE
    /\ UNCHANGED <<database, ex, memory, mode, budget, fails>>

-----------------------------------------------------------------------------
(* An executor: the steps of execute, in order.                            *)

Goto(w, l)    == ex' = [ex EXCEPT ![w].pc = l]
CtxDone(w)    == ex[w].cancelled \/ mode # "up"

ParkStep(w) ==
    LET s == ex[w].step IN
    /\ ex[w].pc = "claimed" /\ ~registered /\ StoreOpen
    /\ Refund(s)
    /\ ex' = [ex EXCEPT ![w] = Idle]
    /\ UNCHANGED <<runStatus, dead, waitKind, memory, mode, registered, budget, fails>>

\* The cancel func is registered and a halt tombstone consumed under one lock.
Register(w) ==
    LET s == ex[w].step IN
    /\ ex[w].pc = "claimed" /\ registered
    /\ cancels' = [cancels EXCEPT ![s] = w]
    /\ haltSteps' = haltSteps \ {s}
    /\ Goto(w, IF s \in haltSteps THEN "halted" ELSE "pauseCheck")
    /\ UNCHANGED <<database, pauseSteps, waiters, pending, finishing, calls, mode,
                   registered, budget, fails>>

HaltCheck(w) ==
    /\ ex[w].pc = "halted"
    /\ Goto(w, IF runTerminal(RunOf[ex[w].step]) THEN "stepCancel" ELSE "pauseCheck")
    /\ UNCHANGED <<database, memory, mode, registered, budget, fails>>

consumePause(w, marked, unmarked) ==
    LET s == ex[w].step IN
    /\ pauseSteps' = pauseSteps \ {s}
    /\ Goto(w, IF s \in pauseSteps THEN marked ELSE unmarked)
    /\ UNCHANGED <<database, cancels, haltSteps, waiters, pending, finishing, calls, mode,
                   registered, budget, fails>>

PauseCheck(w) == ex[w].pc = "pauseCheck" /\ consumePause(w, "requeue", "body")

\* The body returns: a task honouring its context may return its cancellation,
\* a BeforeStep hook may veto it; any other error is charged.
BodyReturns(w, res) ==
    /\ ex[w].pc = "body"
    /\ res = "canceled" => CtxDone(w)
    /\ IF res = "veto" THEN Spend("veto") ELSE UNCHANGED budget
    /\ fails' = [fails EXCEPT ![ex[w].step] = IF res = "err" THEN @ + 1 ELSE @]
    /\ ex' = [ex EXCEPT ![w].pc = "afterBody", ![w].res = res]
    /\ UNCHANGED <<database, memory, mode, registered>>

\* A durable helper suspends the RUNNING step (with its journal entry) and
\* unwinds; if the step is no longer RUNNING it writes nothing and returns an
\* error to the body, which goes on.
SuspendStep(w, kind) ==
    LET s == ex[w].step IN
    /\ ex[w].pc = "body" /\ stepStatus[s] = "RUNNING"
    /\ StoreOpen /\ Spend("suspend")
    /\ stepStatus' = [stepStatus EXCEPT ![s] = "SUSPENDED"]
    /\ waitKind' = [waitKind EXCEPT ![s] = kind]
    /\ Goto(w, "suspended")
    /\ UNCHANGED <<runStatus, dead, attempts, memory, mode, registered, fails>>

\* Mutant: a suspension in a run that is over is left as it is.
SuspendCheckLingers(w) ==
    /\ ex[w].pc = "suspended"
    /\ Goto(w, "exit")
    /\ UNCHANGED <<database, memory, mode, registered, budget, fails>>

SuspendCheck(w) ==
    /\ ex[w].pc = "suspended"
    /\ Goto(w, IF runTerminal(RunOf[ex[w].step]) THEN "stepCancel" ELSE "exit")
    /\ UNCHANGED <<database, memory, mode, registered, budget, fails>>

\* Mutant: the pause mark is not looked at when the body returns.
AfterBodyUnmarked(w) ==
    /\ ex[w].pc = "afterBody"
    /\ consumePause(w, "decide", "decide")

AfterBody(w) ==
    /\ ex[w].pc = "afterBody"
    /\ consumePause(w, IF ex[w].res = "canceled" THEN "pauseTerminal" ELSE "decide", "decide")

PauseTerminal(w) ==
    /\ ex[w].pc = "pauseTerminal"
    /\ Goto(w, IF runTerminal(RunOf[ex[w].step]) THEN "decide" ELSE "requeue")
    /\ UNCHANGED <<database, memory, mode, registered, budget, fails>>

\* Mutant: a step of a run that is over is left RUNNING.
DecisionDropped(w) ==
    IF runTerminal(RunOf[ex[w].step]) THEN "exit"
    ELSE IF ex[w].res = "veto" THEN "finalFail" ELSE "closingCheck"

\* The outcome switch: each branch is chosen on what is read here and written later.
Decision(w) ==
    IF runTerminal(RunOf[ex[w].step]) THEN "stepCancel"
    ELSE IF ex[w].res = "veto" THEN "finalFail" ELSE "closingCheck"

Decide(w) ==
    /\ ex[w].pc = "decide" /\ ex[w].res # "ok"
    /\ Goto(w, Decision(w))
    /\ UNCHANGED <<database, memory, mode, registered, budget, fails>>

\* Mutant: one retry too many.
AttemptsLeftOffByOne(w) == ex[w].att <= MaxAttempts

AttemptsLeft(w) == ex[w].att < MaxAttempts

\* A closing engine leaves the step RUNNING for Close to sweep.
ClosingCheck(w) ==
    /\ ex[w].pc = "closingCheck"
    /\ Goto(w, IF mode # "up" THEN "exit" ELSE IF AttemptsLeft(w) THEN "retry" ELSE "finalFail")
    /\ UNCHANGED <<database, memory, mode, registered, budget, fails>>

\* Mutant: a success is queued even when the completer has stopped.
submitCompletionLate(w) ==
    /\ ex[w].pc = "decide" /\ ex[w].res = "ok"
    /\ pending' = Append(pending, ex[w].step) /\ Goto(w, "exit")
    /\ UNCHANGED <<database, cancels, haltSteps, pauseSteps, waiters, finishing, calls,
                   mode, registered, budget, fails>>

\* A success goes to the completer, or is written directly once that has stopped.
submitCompletion(w) ==
    /\ ex[w].pc = "decide" /\ ex[w].res = "ok"
    /\ IF mode \in {"up", "closing"}
       THEN pending' = Append(pending, ex[w].step) /\ Goto(w, "exit")
       ELSE Goto(w, "direct") /\ UNCHANGED pending
    /\ UNCHANGED <<database, cancels, haltSteps, pauseSteps, waiters, finishing, calls,
                   mode, registered, budget, fails>>

WriteStepCancelled(w) ==
    /\ ex[w].pc = "stepCancel" /\ StoreOpen
    /\ StepCancelled(ex[w].step)
    /\ Goto(w, "exit")
    /\ UNCHANGED <<runStatus, dead, attempts, memory, mode, registered, budget, fails>>

RequeuePausedStep(w) ==
    /\ ex[w].pc = "requeue" /\ StoreOpen
    /\ Refund(ex[w].step)
    /\ Goto(w, "exit")
    /\ UNCHANGED <<runStatus, dead, waitKind, memory, mode, registered, budget, fails>>

RetryStep(w) ==
    /\ ex[w].pc = "retry" /\ StoreOpen
    /\ UpdateStep(ex[w].step, {"RUNNING"}, "QUEUED")
    /\ Goto(w, "exit")
    /\ UNCHANGED <<runStatus, dead, attempts, waitKind, memory, mode, registered, budget, fails>>

\* On a deleted run FinalFailStep errs and nothing more happens; otherwise the run
\* counts as finished FAILED, whatever its row says.
recordFinalFailure(w) ==
    LET s == ex[w].step
        r == RunOf[s]
    IN  /\ ex[w].pc = "finalFail" /\ StoreOpen
        /\ IF runStatus[r] = "DELETED"
           THEN Goto(w, "exit") /\ UNCHANGED <<runStatus, stepStatus, dead>>
           ELSE /\ FinalFailStep(s)
                /\ ex' = [ex EXCEPT ![w].pc = "finish", ![w].res = "FAILED",
                            ![w].kill = {t \in StepsOf(r) \ {s} : stepStatus[t] \in Active}]
        /\ UNCHANGED <<attempts, waitKind, memory, mode, registered, budget, fails>>

completeDirect(w) ==
    LET s == ex[w].step IN
    /\ ex[w].pc = "direct" /\ StoreOpen
    /\ completeStepTx(s)
    /\ ex' = [ex EXCEPT ![w].pc = IF RunOutcome(s) = None THEN "exit" ELSE "finish",
                        ![w].res = IF RunOutcome(s) = None THEN @ ELSE RunOutcome(s)]
    /\ UNCHANGED <<dead, attempts, waitKind, memory, mode, registered, budget, fails>>

\* Any of those writes may fail: the error is logged and the step left as it was.
WriteFails(w) ==
    /\ \/ ex[w].pc \in {"stepCancel", "requeue", "retry", "finalFail", "direct"} /\ Goto(w, "exit")
       \/ ex[w].pc = "claimed" /\ ~registered /\ ex' = [ex EXCEPT ![w] = Idle]
    /\ StoreFails
    /\ UNCHANGED <<database, memory, mode, registered, fails>>

\* cancelStepContexts for the cancelled siblings, then finishRun.
FinishRun(w) ==
    LET e == ex[w] IN
    /\ e.pc = "finish"
    /\ ex' = [CancelContexts(e.kill) EXCEPT ![w].pc = "exit", ![w].kill = {}]
    /\ haltSteps' = haltSteps \cup Unregistered(e.kill)
    /\ waiters' = Release(RunOf[e.step], e.res)
    /\ UNCHANGED <<database, cancels, pauseSteps, pending, finishing, calls, mode,
                   registered, budget, fails>>

\* The deferred calls: the step's cancel func is forgotten and the slot freed.
Exit(w) ==
    /\ ex[w].pc = "exit"
    /\ cancels' = [cancels EXCEPT ![ex[w].step] = None]
    /\ ex' = [ex EXCEPT ![w] = Idle]
    /\ UNCHANGED <<database, haltSteps, pauseSteps, waiters, pending, finishing, calls,
                   mode, registered, budget, fails>>

-----------------------------------------------------------------------------
(* The completer.  A flush records its whole batch in one transaction and   *)
(* then answers the waiters; if that fails it records and answers entry by  *)
(* entry.  Recording one entry at a time, with the answers in a queue of    *)
(* their own, allows both orders.                                           *)

CompleteStep ==
    /\ pending # <<>>
    /\ LET s == Head(pending) IN
       /\ completeStepTx(s)
       /\ finishing' = IF RunOutcome(s) = None THEN finishing
                       ELSE Append(finishing, [run |-> RunOf[s], status |-> RunOutcome(s)])
    /\ pending' = Tail(pending)
    /\ UNCHANGED <<dead, attempts, waitKind, ex, cancels, haltSteps, pauseSteps, waiters,
                   calls, mode, registered, budget, fails>>

\* The batch and the entry's own write both fail: the success is logged and lost.
CompletionFails ==
    /\ pending # <<>>
    /\ Spend("storeError")
    /\ pending' = Tail(pending)
    /\ UNCHANGED <<database, ex, cancels, haltSteps, pauseSteps, waiters, finishing, calls,
                   mode, registered, fails>>

afterComplete ==
    /\ finishing # <<>>
    /\ waiters' = Release(Head(finishing).run, Head(finishing).status)
    /\ finishing' = Tail(finishing)
    /\ UNCHANGED <<database, ex, cancels, haltSteps, pauseSteps, pending, calls, mode,
                   registered, budget, fails>>

-----------------------------------------------------------------------------
(* Shutdown and restart.                                                   *)

CloseBegin ==
    /\ mode = "up" /\ Spend("close")
    /\ mode' = "closing"
    /\ UNCHANGED <<database, ex, memory, registered, fails>>

\* The drain ends with every executor, or with the caller's deadline; then
\* successes go to direct writes,
stopCompleter ==
    /\ mode = "closing"
    /\ \/ (\A w \in Slots : ex[w].pc = "idle") /\ UNCHANGED budget
       \/ Spend("timeout")
    /\ mode' = "draining"
    /\ UNCHANGED <<database, ex, memory, registered, fails>>

\* and the completer ends when it has recorded and answered those it still has.
completerDone ==
    /\ mode = "draining"
    /\ pending = <<>> /\ finishing = <<>>
    /\ mode' = "stopped"
    /\ UNCHANGED <<database, ex, memory, registered, budget, fails>>

\* Only RUNNING rows are swept: a PAUSED run or a QUEUED step stays as it is.
InterruptAll ==
    LET gone == {r \in Ephemeral : runStatus[r] = "RUNNING"} IN
    /\ mode = "stopped"
    /\ mode' = "swept"
    /\ runStatus' = [r \in Runs |-> IF r \in gone THEN "DELETED"
                                    ELSE IF runStatus[r] = "RUNNING" THEN "INTERRUPTED"
                                    ELSE runStatus[r]]
    /\ stepStatus' = [s \in Steps |-> IF RunOf[s] \in gone THEN "DELETED"
                                      ELSE IF stepStatus[s] = "RUNNING" THEN "INTERRUPTED"
                                      ELSE stepStatus[s]]
    /\ UNCHANGED <<dead, attempts, waitKind, ex, memory, registered, budget, fails>>

CloseRelease ==
    /\ mode = "swept"
    /\ mode' = "closed"
    /\ waiters' = [r \in Runs |-> IF waiters[r] = "open" THEN "INTERRUPTED" ELSE waiters[r]]
    /\ UNCHANGED <<database, ex, cancels, haltSteps, pauseSteps, pending, finishing, calls,
                   registered, budget, fails>>

\* Mutant: recovery takes up SUCCEEDED rows too.
CutSucceeded(st) == st \in {"RUNNING", "INTERRUPTED", "SUCCEEDED"}

\* The rows that the previous process did not finish.
Cut(st) == st \in {"RUNNING", "INTERRUPTED"}

recoverInterrupted(keep) ==
    LET to      == IF keep THEN "QUEUED" ELSE "FAILED"
        stored(r) == runStatus[r] \notin {"NEW", "DELETED"}
        moved(s) == Cut(stepStatus[s]) \/ (~keep /\ stepStatus[s] = "SUSPENDED")
    IN  /\ runStatus' = [r \in Runs |-> IF r \in Ephemeral /\ stored(r) THEN "DELETED"
                                        ELSE IF Cut(runStatus[r]) THEN to ELSE runStatus[r]]
        /\ stepStatus' = [s \in Steps |-> IF RunOf[s] \in Ephemeral /\ stored(RunOf[s]) THEN "DELETED"
                                          ELSE IF moved(s) THEN to ELSE stepStatus[s]]
        /\ waitKind' = [s \in Steps |-> IF moved(s) THEN "" ELSE waitKind[s]]

\* The process ends, by a crash at any point or after Close, and the next one
\* opens the file: every goroutine and map is gone, the rows are recovered.
Restart ==
    /\ Spend("restart")
    /\ \E keep \in BootModes : recoverInterrupted(keep)
    /\ ex' = [w \in Slots |-> Idle]
    /\ cancels' = [s \in Steps |-> None]
    /\ haltSteps' = {} /\ pauseSteps' = {}
    /\ waiters' = [r \in Runs |-> "none"]
    /\ pending' = <<>> /\ finishing' = <<>> /\ calls' = {}
    /\ mode' = "up" /\ registered' = FALSE
    /\ UNCHANGED <<dead, attempts, fails>>

-----------------------------------------------------------------------------
Init ==
    /\ runStatus = [r \in Runs |-> "NEW"] /\ dead = {}
    /\ stepStatus = [s \in Steps |-> "NEW"]
    /\ attempts = [s \in Steps |-> 0] /\ waitKind = [s \in Steps |-> ""]
    /\ ex = [w \in Slots |-> Idle]
    /\ cancels = [s \in Steps |-> None] /\ haltSteps = {} /\ pauseSteps = {}
    /\ waiters = [r \in Runs |-> "none"]
    /\ pending = <<>> /\ finishing = <<>> /\ calls = {}
    /\ mode = "up" /\ registered = TRUE
    /\ budget = Budget /\ fails = [s \in Steps |-> 0]

ClientCall(r) ==
    \/ EnqueueRegister(r) \/ CancelRun(r) \/ PauseRun(r) \/ ResumeRun(r)
    \/ RetryDeadLetter(r) \/ DismissDeadLetter(r) \/ purgeRunBatch(r)

CallContinues(c) == EnqueueCreate(c) \/ EnqueueFail(c) \/ interruptLocal(c) \/ PauseMark(c)

\* What an executor does by itself once it is started; the body's own choices aside.
ExecutorStep(w) ==
    \/ ParkStep(w) \/ Register(w) \/ HaltCheck(w) \/ PauseCheck(w) \/ SuspendCheck(w)
    \/ AfterBody(w) \/ PauseTerminal(w) \/ Decide(w) \/ ClosingCheck(w)
    \/ submitCompletion(w)
    \/ WriteStepCancelled(w) \/ RequeuePausedStep(w) \/ RetryStep(w)
    \/ recordFinalFailure(w) \/ completeDirect(w) \/ FinishRun(w) \/ Exit(w)

Body(w) == \/ \E res \in {"ok", "err", "canceled", "veto"} : BodyReturns(w, res)
           \/ \E kind \in {"sleep", "wait", "deadline"} : SuspendStep(w, kind)

Shutdown == CloseBegin \/ stopCompleter \/ completerDone \/ InterruptAll \/ CloseRelease

Next ==
    \/ \E r \in Runs : ClientCall(r)
    \/ \E c \in calls : CallContinues(c)
    \/ DeliverEvent
    \/ \E w \in Slots, s \in Steps : claimQueueTx(w, s)
    \/ RegisterTask
    \/ \E w \in Slots : ExecutorStep(w) \/ Body(w) \/ WriteFails(w)
    \/ CompleteStep \/ CompletionFails \/ afterComplete
    \/ Shutdown
    \/ Restart

Spec == Init /\ [][Next]_vars

\* The engine's own goroutines run: the scheduler ticks, executors and the completer
\* go on, tasks return, a client call that began ends, Close goes on and registers
\* nothing new.  No client call, event, crash or wake-up is assumed.
Fairness ==
    /\ \A w \in Slots : WF_vars(ExecutorStep(w)) /\ WF_vars(\E res \in {"ok", "err", "canceled"} : BodyReturns(w, res))
    /\ \A s \in Steps : WF_vars(\E w \in Slots : claimQueueTx(w, s))
    /\ WF_vars(CompleteStep) /\ WF_vars(afterComplete)
    /\ WF_vars(\E c \in calls : EnqueueCreate(c) \/ interruptLocal(c) \/ PauseMark(c))
    /\ WF_vars(RegisterTask)
    /\ WF_vars(stopCompleter) /\ WF_vars(completerDone) /\ WF_vars(InterruptAll) /\ WF_vars(CloseRelease)

FairSpec == Spec /\ Fairness
-----------------------------------------------------------------------------
(* Properties.                                                             *)

RunStatuses  == Live \cup Terminal \cup {"NEW", "DELETED"}
StepStatuses == Active \cup Terminal \cup {"NEW", "DELETED"}
Executors    == [pc : Pcs, step : Steps \cup {None}, att : Nat,
                 res : {"", "ok", "err", "canceled", "veto", "SUCCEEDED", "FAILED"},
                 cancelled : BOOLEAN, kill : SUBSET Steps]
Answers      == {"none", "open"} \cup Terminal
Outcomes     == [run : Runs, status : {"SUCCEEDED", "FAILED"}]
Calling      == [op : {"enqueue", "cancel", "pause"}, run : Runs, steps : SUBSET Steps]

StoreTyped ==
    /\ runStatus \in [Runs -> RunStatuses] /\ dead \subseteq Runs
    /\ stepStatus \in [Steps -> StepStatuses]
    /\ attempts \in [Steps -> Nat] /\ fails \in [Steps -> Nat]
    /\ waitKind \in [Steps -> {"", "sleep", "wait", "deadline"}]
ExecTyped ==
    /\ ex \in [Slots -> Executors]
    /\ \A w \in Slots : /\ ex[w].pc # "idle" => ex[w].step \in Steps
                        /\ ex[w].pc = "finish" => ex[w].res \in {"SUCCEEDED", "FAILED"}
MemoryTyped ==
    /\ cancels \in [Steps -> Slots \cup {None}]
    /\ haltSteps \subseteq Steps /\ pauseSteps \subseteq Steps
    /\ waiters \in [Runs -> Answers]
    /\ pending \in Seq(Steps)
    /\ finishing \in Seq(Outcomes)
    /\ calls \subseteq Calling
EngineTyped ==
    /\ mode \in {"up", "closing", "draining", "stopped", "swept", "closed"}
    /\ registered \in BOOLEAN
    /\ budget \in [Ops -> Nat]

\* Every table, map and executor record stays within the values the code gives it;
\* an executor that finishes its run has a final status for it.
TypeOK == StoreTyped /\ ExecTyped /\ MemoryTyped /\ EngineTyped

\* A step is in the hands of at most one executor that may still run its body
\* or record its outcome, counting a success that waits in the completer.
SingleExecution ==
    /\ \A v, w \in Slots :
        (ex[v].pc \in Holding /\ ex[w].pc \in Holding /\ ex[v].step = ex[w].step) => v = w
    /\ \A w \in Slots, i \in DOMAIN pending : ex[w].pc \in Holding => pending[i] # ex[w].step
    /\ \A i, j \in DOMAIN pending : pending[i] = pending[j] => i = j

\* Why it holds: the rows an executor or the completer still answers for are
\* RUNNING or over, never claimable; a run's rows do not exist before its insert;
\* and nothing revives a run whose old executors are still there.
Held == Terminal \cup {"RUNNING", "DELETED"}
HeldRows ==
    /\ \A w \in Slots : ex[w].pc \in Holding => stepStatus[ex[w].step] \in Held
    /\ \A i \in DOMAIN pending : stepStatus[pending[i]] \in Held
FreshRuns ==
    /\ \A s \in Steps : runStatus[RunOf[s]] = "NEW" => stepStatus[s] = "NEW"
    /\ \A c \in calls : c.op = "enqueue" => c.steps = {} /\ runStatus[c.run] = "NEW"
NoRevival == budget["retryDead"] = 0 \/ (DeadLetter = {} /\ dead = {})
Ownership == SingleExecution /\ HeldRows /\ FreshRuns /\ NoRevival

\* A run is SUCCEEDED only if every one of its steps is: no cancelled,
\* interrupted or never-run step hides behind a success.
SucceededMeansAll ==
    \A r \in Runs : runStatus[r] = "SUCCEEDED" => \A s \in StepsOf(r) : stepStatus[s] = "SUCCEEDED"

\* While the engine is up a live run always has a step that can move by itself or
\* on a client's call: it never sits with nothing but BLOCKED and finished steps.
NoStrandedRun ==
    mode = "up" => \A r \in Runs : runStatus[r] \in Live =>
        \E s \in StepsOf(r) : stepStatus[s] \in {"QUEUED", "RUNNING", "SUSPENDED"}

\* Dependency order: a step that left BLOCKED without being abandoned has only
\* SUCCEEDED dependencies, and a BLOCKED step of a live run still has an
\* unfinished one (its release is never missed).
DependencyOrder ==
    \A s \in Steps :
        /\ stepStatus[s] \in {"QUEUED", "RUNNING", "SUSPENDED", "SUCCEEDED"}
             => \A d \in Deps[s] : stepStatus[d] = "SUCCEEDED"
        /\ stepStatus[s] = "BLOCKED" /\ runStatus[RunOf[s]] \in Live
             => \E d \in Deps[s] : stepStatus[d] # "SUCCEEDED"

\* A RUNNING row is never orphaned while the engine is up: an executor still owes
\* its outcome, or the completer does.
RunningIsOwned ==
    mode = "up" => \A s \in Steps : stepStatus[s] = "RUNNING" =>
        \/ \E w \in Slots : ex[w].step = s /\ ex[w].pc \in Holding \cup {"stepCancel"}
        \/ \E i \in DOMAIN pending : pending[i] = s

\* Retries stay within max_attempts: pauses, parks and resumes hand attempts back
\* but never more than they took.
BudgetRespected == \A s \in Steps : fails[s] <= MaxAttempts

\* A task that merely honoured its cancelled context is never retried or failed
\* for it while its run is live: a pause is not an attempt.
CancellationNotCharged ==
    \A w \in Slots : ex[w].res = "canceled" /\ ex[w].pc \in {"retry", "finalFail"}
                        => runStatus[RunOf[ex[w].step]] \notin {"QUEUED", "RUNNING", "PAUSED"}

\* What a handle reports is backed by the row: SUCCEEDED only for a succeeded run,
\* CANCELLED only for a cancelled one, FAILED only for one that is over or could be
\* retried from the dead letters.
WaiterBacked ==
    \A r \in Runs : LET row == runStatus[r] IN
        /\ waiters[r] = "SUCCEEDED" => row \in {"SUCCEEDED", "DELETED"}
        /\ waiters[r] = "CANCELLED" => row \in {"CANCELLED", "DELETED"}
        /\ waiters[r] = "FAILED" => row \in Terminal \cup {"DELETED"} \/ r \in DeadLetter

\* A step suspended after its run went terminal is not left suspended: its
\* executor is still there and will cancel it.
SuspensionConverges ==
    \A s \in Steps : stepStatus[s] = "SUSPENDED" /\ runTerminal(RunOf[s]) =>
        \E w \in Slots : ex[w].step = s /\ ex[w].pc \in {"suspended", "stepCancel"}

\* A run's outcome is decided once: only a dead-letter retry or the boot recovery
\* of an INTERRUPTED run brings a terminal run back, only a purge removes it.
OutcomeIsFinal ==
    [][\A r \in Runs : runTerminal(r) /\ runStatus'[r] # runStatus[r] =>
          \/ runStatus'[r] = "DELETED"
          \/ runStatus[r] = "FAILED" /\ r \in dead /\ runStatus'[r] = "QUEUED"
          \/ runStatus[r] = "INTERRUPTED" /\ mode' = "up" /\ calls' = {}]_vars

\* Finished work is never redone: a SUCCEEDED step stays so over crashes, late
\* failures and cancellations until its run is deleted or retried from the dead letters.
CompletedStepKept ==
    [][\A s \in Steps : stepStatus[s] = "SUCCEEDED" =>
          \/ stepStatus'[s] \in {"SUCCEEDED", "DELETED"}
          \/ RunOf[s] \in dead /\ RunOf[s] \notin dead']_vars

\* Ephemeral runs leave no history: whichever way one ends, by its steps, a failed
\* task, Cancel, the sweep, a purge or a boot, its row is gone in the transaction
\* that ends it.  Only a run that was replaced under its unique key leaves a row,
\* CANCELLED, and the run that replaced it has been inserted.
EphemeralLeavesNothing ==
    \A r \in Ephemeral : runTerminal(r) =>
        /\ runStatus[r] = "CANCELLED" /\ r \in Unique
        /\ \E q \in Unique \ {r} : runStatus[q] # "NEW"

\* Every handle is answered: once a run is registered its waiter is released, by
\* the outcome, by Cancel or by Close.
WaiterReleased == \A r \in Runs : waiters[r] = "open" ~> waiters[r] # "open"

\* Unless the engine is closed, the steps of a run that succeeded, failed or was
\* cancelled all come to rest, those requeued behind its back included.
TerminalRunSettles ==
    \A r \in Runs : (runStatus[r] \in Terminal \ {"INTERRUPTED"}) ~>
        (mode # "up" \/ ~runTerminal(r) \/ \A s \in StepsOf(r) : stepStatus[s] \in Terminal)

\* Close loses nothing it was handed: what executors gave to the completer is
\* recorded before the sweep interrupts what is left, and every handle that was
\* registered before Close is answered by its end.
CloseLeavesNothing ==
    /\ mode \in {"stopped", "swept", "closed"} => pending = <<>> /\ finishing = <<>>
    /\ mode = "closed" => \A r \in Runs : waiters[r] # "open"

-----------------------------------------------------------------------------
(* What the repository says of the code and the code does not keep.        *)

\* "A Cancel racing the claim->registration window either sees this cancel func
\* or leaves a tombstone this executor will honor": a tombstone is never left
\* for an executor that is past its registration and in the body.
TombstoneHonored ==
    \A w \in Slots : ex[w].pc = "body" /\ ex[w].step \in haltSteps => ex[w].cancelled

\* "So the step never starts the task's side effects": once Cancel is done with a
\* run, no executor is in a body of it with a live context.
CancelReachesExecutor ==
    \A w \in Slots :
        LET r == RunOf[ex[w].step] IN
        ex[w].pc = "body" /\ runStatus[r] \in {"CANCELLED", "DELETED"} =>
            ex[w].cancelled \/ \E c \in calls : c.op = "cancel" /\ c.run = r

\* "Record this step CANCELLED rather than retrying or failing it against a dead
\* run": no step of a run that is over waits to be claimed again.
DeadRunNotRetried ==
    \A s \in Steps : runStatus[RunOf[s]] = "CANCELLED" => stepStatus[s] # "QUEUED"

\* "Deleted when they reach a terminal state": no row of an ephemeral run is over.
EphemeralDeleted == \A r \in Ephemeral : ~runTerminal(r)

\* "A failed step fails the whole run": no live run has a FAILED step.
FailedStepFailsRun ==
    \A s \in Steps : stepStatus[s] = "FAILED" => runStatus[RunOf[s]] \notin Live
=============================================================================
