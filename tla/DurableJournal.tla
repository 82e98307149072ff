--------------------------- MODULE DurableJournal ---------------------------
(***************************************************************************)
(* One durable step: its row, its journal, and the executors that replay   *)
(* its task from the top (SleepDurable, RunOnce, WaitFor), against Emit,   *)
(* timeouts, crashes, redeployed code, cancellation and a clock that can   *)
(* be set back.                                                            *)
(*                                                                         *)
(* A task is a sequence of durable calls.  It returns the first error a    *)
(* call gives it, except a wait's timeout, which it may handle.  What      *)
(* happens around the step (registration, pausing, siblings, handles) is   *)
(* RunLifecycle's; here the run is LIVE, OVER or dead-lettered.            *)
(***************************************************************************)
EXTENDS Integers, Sequences, FiniteSets

CONSTANTS Programs,     \* the task's successive versions: sequences of calls
          MaxCalls,     \* the length of the longest
          Events,       \* event names
          Execs,        \* execution slots
          MaxAttempts,  \* max_attempts of the step
          Budget        \* how often each client call or fault may happen

Ops == {"fail", "restart", "emit", "cancel", "sibling", "retryDead", "storeError", "skew"}

\* label is RunOnce's key or WaitFor's event; dur a sleep's length or a wait's
\* timeout, 0 for none.
Calls == {c \in [kind : {"sleep", "wait", "once"}, label : STRING, dur : Nat] :
              c.kind = "sleep" => c.label = ""}

ASSUME ProgramAssumption == /\ Programs \subseteq Seq(Calls) /\ Programs # {}
                            /\ MaxCalls \in Nat /\ \A p \in Programs : Len(p) <= MaxCalls
ASSUME JournalAssumption == /\ Events \subseteq STRING
                            /\ MaxAttempts \in Nat \ {0}
                            /\ Budget \in [Ops -> Nat]

VARIABLES
    stepStatus,  \* steps.status
    resumeAt,    \* steps.resume_at: 0 when only an event can wake the step
    attempts,    \* steps.attempts
    runStatus,   \* "LIVE", "OVER", or "DEADLETTER": failed and revivable
    journal,     \* step_journal of the step, in idx order
    ex,          \* the executor in each slot
    program,     \* the version of the task this process runs
    now,         \* the engine's clock
    budget,      \* what is left of Budget
    fnRuns,      \* how often a RunOnce function has succeeded; its next result
    returned     \* history: what each durable call has returned to the task

row  == <<stepStatus, resumeAt, attempts, runStatus>>
vars == <<row, journal, ex, program, now, budget, fnRuns, returned>>

Idle == [pc |-> "idle", att |-> 0, cache |-> <<>>, cursor |-> 1, val |-> 0]
Spend(op) == budget[op] > 0 /\ budget' = [budget EXCEPT ![op] = @ - 1]
Spent(op) == Budget[op] - budget[op]

\* An executor that is replaying or running the task.
InTask == {"claimed", "body", "fn", "memo", "timeout", "reread"}
Pcs    == InTask \cup {"idle", "suspended", "failed", "done"}

Goto(w, pc)  == ex' = [ex EXCEPT ![w].pc = pc]
Leave(w, pc) == ex' = [ex EXCEPT ![w] = [Idle EXCEPT !.pc = pc, !.att = ex[w].att]]   \* the task is gone
-----------------------------------------------------------------------------
(* The claim and the journal as the executor first sees it.                *)

\* Mutant: the claim has no arm for suspended steps.
DueNever == FALSE

Due == stepStatus = "SUSPENDED" /\ resumeAt > 0 /\ resumeAt <= now

\* Fresh work is charged an attempt; a due suspension is resumed free of charge.
claimQueueTx(w) ==
    /\ ex[w].pc = "idle"
    /\ \/ stepStatus = "QUEUED" /\ attempts' = attempts + 1
       \/ Due /\ UNCHANGED attempts
    /\ stepStatus' = "RUNNING" /\ resumeAt' = 0
    /\ ex' = [ex EXCEPT ![w] = [Idle EXCEPT !.pc = "claimed", !.att = attempts']]
    /\ UNCHANGED <<runStatus, journal, program, now, budget, fnRuns, returned>>

\* A failed read is only logged: the task starts with an empty journal.
LoadJournal(w) ==
    /\ ex[w].pc = "claimed"
    /\ \/ ex' = [ex EXCEPT ![w].pc = "body", ![w].cache = journal] /\ UNCHANGED budget
       \/ ex' = [ex EXCEPT ![w].pc = "body"] /\ Spend("storeError")
    /\ UNCHANGED <<row, journal, program, now, fnRuns, returned>>
-----------------------------------------------------------------------------
(* The durable helpers.  takeEntry gives a call its slot and the entry the *)
(* executor has in memory for it, if any.                                  *)

Call(w)   == program[ex[w].cursor]
Replay(w) == ex[w].cursor <= Len(ex[w].cache)
Entry(w)  == ex[w].cache[ex[w].cursor]
AtCall(w, kind) == ex[w].pc = "body" /\ ex[w].cursor <= Len(program) /\ Call(w).kind = kind

\* Mutant: only the kind of the entry is compared with the call.
AlignedKind(w) == Entry(w).kind = Call(w).kind

Aligned(w) == Entry(w).kind = Call(w).kind /\ Entry(w).label = Call(w).label

NewEntry(w, at, done) ==
    [kind |-> Call(w).kind, label |-> Call(w).label, at |-> at, done |-> done,
     timedOut |-> FALSE, value |-> 0]

\* The primary key (step_id, idx) refuses a second entry for a slot.
SlotFree(w) == ex[w].cursor > Len(journal)

\* The call returns to the task, which goes on to its next one.
Return(w, timedOut, value, cache) ==
    /\ ex' = [ex EXCEPT ![w].pc = "body", ![w].cursor = @ + 1, ![w].cache = cache, ![w].val = 0]
    /\ returned' = returned \cup {[idx |-> ex[w].cursor, kind |-> Call(w).kind, label |-> Call(w).label,
                                   timedOut |-> timedOut, value |-> value]}

\* An entry that does not match the call: ErrJournalMisaligned.
Misaligned(w) ==
    /\ \E kind \in {"sleep", "wait", "once"} : AtCall(w, kind)
    /\ Replay(w) /\ ~Aligned(w)
    /\ Leave(w, "failed")
    /\ UNCHANGED <<row, journal, program, now, budget, fnRuns, returned>>

\* Mutant: the wait is recorded in one transaction, the suspension left to another.
SuspendUnlocked(w, at) ==
    /\ SlotFree(w)
    /\ journal' = Append(journal, NewEntry(w, at, FALSE))
    /\ ex' = [ex EXCEPT ![w].cache = Append(@, NewEntry(w, at, FALSE))]
    /\ UNCHANGED <<stepStatus, resumeAt>>

\* The entry and the suspension are one transaction, which wants the step RUNNING.
SuspendWithJournal(w, at) ==
    IF stepStatus = "RUNNING" /\ SlotFree(w)
    THEN /\ stepStatus' = "SUSPENDED" /\ resumeAt' = at
         /\ journal' = Append(journal, NewEntry(w, at, FALSE))
         /\ Leave(w, "suspended")
    ELSE Leave(w, "failed") /\ UNCHANGED <<stepStatus, resumeAt, journal>>

\* Mutant: the second suspension rounds the remainder up.
SuspendStepLate(w, at) ==
    IF stepStatus = "RUNNING"
    THEN stepStatus' = "SUSPENDED" /\ resumeAt' = (IF at = 0 THEN 0 ELSE at + 1) /\ Leave(w, "suspended")
    ELSE Leave(w, "failed") /\ UNCHANGED <<stepStatus, resumeAt>>

\* A replayed await that is not due: suspend again for the remainder.
SuspendStep(w, at) ==
    IF stepStatus = "RUNNING"
    THEN stepStatus' = "SUSPENDED" /\ resumeAt' = at /\ Leave(w, "suspended")
    ELSE Leave(w, "failed") /\ UNCHANGED <<stepStatus, resumeAt>>

\* AppendJournal, for the calls that do not suspend.
AppendJournal(w, at, done) ==
    journal' = Append(journal, NewEntry(w, at, done))

SleepDurable(w) ==
    /\ AtCall(w, "sleep")
    /\ UNCHANGED <<attempts, runStatus, program, now, budget, fnRuns>>
    /\ \/ /\ ~Replay(w) /\ Call(w).dur > 0
          /\ SuspendWithJournal(w, now + Call(w).dur) /\ UNCHANGED returned
       \/ /\ ~Replay(w) /\ Call(w).dur = 0 /\ SlotFree(w)
          /\ AppendJournal(w, now, TRUE)
          /\ Return(w, FALSE, 0, Append(ex[w].cache, NewEntry(w, now, TRUE)))
          /\ UNCHANGED <<stepStatus, resumeAt>>
       \/ /\ ~Replay(w) /\ Call(w).dur = 0 /\ ~SlotFree(w)
          /\ Leave(w, "failed") /\ UNCHANGED <<stepStatus, resumeAt, journal, returned>>
       \/ /\ Replay(w) /\ Aligned(w) /\ Entry(w).at > now
          /\ SuspendStep(w, Entry(w).at) /\ UNCHANGED <<journal, returned>>
       \/ /\ Replay(w) /\ Aligned(w) /\ Entry(w).at <= now
          /\ Return(w, FALSE, 0, ex[w].cache)
          /\ UNCHANGED <<stepStatus, resumeAt, journal>>

\* Mutant: a replay does not look whether fn has succeeded before.
MemoizedNever(w) == FALSE

Memoized(w) == Entry(w).done

\* RunOnce up to the point where fn is called or a memoized result returned.
RunOnce(w) ==
    /\ AtCall(w, "once")
    /\ UNCHANGED <<row, program, now, budget, fnRuns>>
    /\ \/ /\ ~Replay(w) /\ SlotFree(w)
          /\ AppendJournal(w, 0, FALSE)
          /\ ex' = [ex EXCEPT ![w].pc = "fn", ![w].cache = Append(@, NewEntry(w, 0, FALSE))]
          /\ UNCHANGED returned
       \/ /\ ~Replay(w) /\ ~SlotFree(w)
          /\ Leave(w, "failed") /\ UNCHANGED <<journal, returned>>
       \/ /\ Replay(w) /\ Aligned(w) /\ ~Memoized(w)
          /\ Goto(w, "fn") /\ UNCHANGED <<journal, returned>>
       \/ /\ Replay(w) /\ Aligned(w) /\ Memoized(w)
          /\ Return(w, FALSE, Entry(w).value, ex[w].cache) /\ UNCHANGED journal

\* fn fails and leaves the entry undone, or succeeds with a result of its own.
RunFn(w) ==
    /\ ex[w].pc = "fn"
    /\ \/ /\ Spend("fail") /\ Leave(w, "failed") /\ UNCHANGED fnRuns
       \/ /\ fnRuns' = fnRuns + 1
          /\ ex' = [ex EXCEPT ![w].pc = "memo", ![w].val = fnRuns + 1]
          /\ UNCHANGED budget
    /\ UNCHANGED <<row, journal, program, now, returned>>

\* The UPDATE does not ask whether the entry is already done.
CompleteJournalOnce(w) ==
    LET i == ex[w].cursor IN
    /\ ex[w].pc = "memo"
    /\ journal' = [journal EXCEPT ![i].done = TRUE, ![i].value = ex[w].val]
    /\ Return(w, FALSE, ex[w].val, [ex[w].cache EXCEPT ![i].done = TRUE, ![i].value = ex[w].val])
    /\ UNCHANGED <<row, program, now, budget, fnRuns>>

Deadline(w) == IF Call(w).dur > 0 THEN now + Call(w).dur ELSE 0
Expired(e)  == e.at > 0 /\ now >= e.at

WaitFor(w) ==
    /\ AtCall(w, "wait")
    /\ UNCHANGED <<attempts, runStatus, program, now, budget, fnRuns>>
    /\ \/ /\ ~Replay(w)
          /\ SuspendWithJournal(w, Deadline(w)) /\ UNCHANGED returned
       \/ /\ Replay(w) /\ Aligned(w) /\ Entry(w).done
          /\ Return(w, Entry(w).timedOut, Entry(w).value, ex[w].cache)
          /\ UNCHANGED <<stepStatus, resumeAt, journal>>
       \/ /\ Replay(w) /\ Aligned(w) /\ ~Entry(w).done /\ Expired(Entry(w))
          /\ Goto(w, "timeout") /\ UNCHANGED <<stepStatus, resumeAt, journal, returned>>
       \/ /\ Replay(w) /\ Aligned(w) /\ ~Entry(w).done /\ ~Expired(Entry(w))
          /\ SuspendStep(w, Entry(w).at) /\ UNCHANGED <<journal, returned>>

\* Mutant: the timeout does not ask whether an event came first.
TimeoutWaitBlind(w) ==
    LET i == ex[w].cursor IN
    /\ ex[w].pc = "timeout"
    /\ journal' = [journal EXCEPT ![i].done = TRUE, ![i].timedOut = TRUE]
    /\ Return(w, TRUE, 0, ex[w].cache)
    /\ UNCHANGED <<row, program, now, budget, fnRuns>>

\* The timeout is taken only if no event came first; otherwise the entry is
\* read again.
TimeoutWait(w) ==
    LET i == ex[w].cursor IN
    /\ ex[w].pc = "timeout"
    /\ UNCHANGED <<row, program, now, budget, fnRuns>>
    /\ \/ /\ ~journal[i].done
          /\ journal' = [journal EXCEPT ![i].done = TRUE, ![i].timedOut = TRUE]
          /\ Return(w, TRUE, 0, ex[w].cache)
       \/ /\ journal[i].done
          /\ Goto(w, "reread") /\ UNCHANGED <<journal, returned>>

\* Mutant: the caller that lost the race against the event reports a timeout.
GetJournalEntrySkipped(w) ==
    /\ ex[w].pc = "reread"
    /\ Return(w, TRUE, 0, ex[w].cache)
    /\ UNCHANGED <<row, journal, program, now, budget, fnRuns>>

GetJournalEntry(w) ==
    LET e == journal[ex[w].cursor] IN
    /\ ex[w].pc = "reread"
    /\ Return(w, e.timedOut, e.value, ex[w].cache)
    /\ UNCHANGED <<row, journal, program, now, budget, fnRuns>>

\* A read or write of a helper fails, or the task returns an error of its own.
CallFails(w) ==
    /\ \/ ex[w].pc \in {"body", "memo", "timeout", "reread"} /\ Spend("storeError")
       \/ ex[w].pc = "body" /\ Spend("fail")
    /\ Leave(w, "failed")
    /\ UNCHANGED <<row, journal, program, now, fnRuns, returned>>

TaskDone(w) ==
    /\ ex[w].pc = "body" /\ ex[w].cursor > Len(program)
    /\ Leave(w, "done")
    /\ UNCHANGED <<row, journal, program, now, budget, fnRuns, returned>>
-----------------------------------------------------------------------------
(* What the executor records when the task has unwound or returned.        *)

StepCancelled ==
    IF stepStatus \in {"QUEUED", "RUNNING", "SUSPENDED"}
    THEN stepStatus' = "CANCELLED" /\ resumeAt' = 0
    ELSE UNCHANGED <<stepStatus, resumeAt>>

\* A suspension recorded after the run went terminal is cancelled.
Suspended(w) ==
    /\ ex[w].pc = "suspended"
    /\ IF runStatus # "LIVE" THEN StepCancelled ELSE UNCHANGED <<stepStatus, resumeAt>>
    /\ ex' = [ex EXCEPT ![w] = Idle]
    /\ UNCHANGED <<attempts, runStatus, journal, program, now, budget, fnRuns, returned>>

\* A success; the run is over unless other steps of it are still active.  The
\* step of a terminal run is cancelled instead.
completeStepTx(w) ==
    /\ ex[w].pc = "done"
    /\ \/ /\ stepStatus \in {"QUEUED", "RUNNING"} /\ runStatus = "LIVE"
          /\ stepStatus' = "SUCCEEDED" /\ runStatus' \in {"LIVE", "OVER"}
       \/ /\ stepStatus \in {"QUEUED", "RUNNING"} /\ runStatus # "LIVE"
          /\ stepStatus' = "CANCELLED" /\ UNCHANGED runStatus
       \/ /\ stepStatus \notin {"QUEUED", "RUNNING"}
          /\ UNCHANGED <<stepStatus, runStatus>>
    /\ ex' = [ex EXCEPT ![w] = Idle]
    /\ UNCHANGED <<resumeAt, attempts, journal, program, now, budget, fnRuns, returned>>

\* An error: the step of a terminal run is cancelled, an attempt that is left is
\* taken, the last one fails the run.
AttemptFails(w) ==
    /\ ex[w].pc = "failed"
    /\ ex' = [ex EXCEPT ![w] = Idle]
    /\ UNCHANGED <<attempts, journal, program, now, budget, fnRuns, returned>>
    /\ \/ /\ runStatus # "LIVE"
          /\ StepCancelled /\ UNCHANGED runStatus
       \/ /\ runStatus = "LIVE" /\ ex[w].att < MaxAttempts
          /\ stepStatus' = IF stepStatus = "RUNNING" THEN "QUEUED" ELSE stepStatus
          /\ UNCHANGED <<resumeAt, runStatus>>
       \/ /\ runStatus = "LIVE" /\ ex[w].att >= MaxAttempts
          /\ stepStatus' = "FAILED" /\ runStatus' = "DEADLETTER"
          /\ UNCHANGED resumeAt
-----------------------------------------------------------------------------
(* Clients, siblings, the clock and the process.                           *)

Awaiting(event) ==
    {i \in DOMAIN journal : /\ journal[i].kind = "wait" /\ journal[i].label = event
                            /\ ~journal[i].done /\ runStatus = "LIVE"}

\* Undone waits of a live run are given the payload; the suspended step is queued.
DeliverEvent(event) ==
    /\ Spend("emit")
    /\ journal' = [i \in DOMAIN journal |->
          IF i \in Awaiting(event)
          THEN [journal[i] EXCEPT !.done = TRUE, !.value = Spent("emit") + 1]
          ELSE journal[i]]
    /\ IF Awaiting(event) # {} /\ stepStatus = "SUSPENDED"
       THEN stepStatus' = "QUEUED" /\ resumeAt' = 0
       ELSE UNCHANGED <<stepStatus, resumeAt>>
    /\ UNCHANGED <<attempts, runStatus, ex, program, now, fnRuns, returned>>

CancelRun ==
    /\ runStatus = "LIVE" /\ Spend("cancel")
    /\ runStatus' = "OVER"
    /\ stepStatus' = IF stepStatus \in {"QUEUED", "SUSPENDED"} THEN "CANCELLED" ELSE stepStatus
    /\ UNCHANGED <<resumeAt, attempts, journal, ex, program, now, fnRuns, returned>>

\* The last attempt of another step of the run fails and takes this one with it.
SiblingFails ==
    /\ runStatus = "LIVE" /\ Spend("sibling")
    /\ runStatus' = "DEADLETTER"
    /\ stepStatus' = IF stepStatus \in {"QUEUED", "RUNNING", "SUSPENDED"} THEN "CANCELLED" ELSE stepStatus
    /\ UNCHANGED <<resumeAt, attempts, journal, ex, program, now, fnRuns, returned>>

\* The step starts over with its journal as it was.
RetryDeadLetter ==
    /\ runStatus = "DEADLETTER" /\ Spend("retryDead")
    /\ runStatus' = "LIVE" /\ stepStatus' = "QUEUED" /\ attempts' = 0 /\ resumeAt' = 0
    /\ UNCHANGED <<journal, ex, program, now, fnRuns, returned>>

Pending(t) == \E i \in DOMAIN journal : journal[i].at > t

\* The clock moves while something lies ahead of it, and may be set back.
Tick ==
    /\ Pending(now) /\ now' = now + 1
    /\ UNCHANGED <<row, journal, ex, program, budget, fnRuns, returned>>

ClockBack ==
    /\ now > 1 /\ Spend("skew") /\ now' = now - 1
    /\ UNCHANGED <<row, journal, ex, program, fnRuns, returned>>

\* The process dies and another, perhaps with other code, requeues its step.
Restart ==
    /\ Spend("restart")
    /\ program' \in Programs
    /\ ex' = [w \in Execs |-> Idle]
    /\ IF stepStatus = "RUNNING"
       THEN stepStatus' = "QUEUED" /\ resumeAt' = 0
       ELSE UNCHANGED <<stepStatus, resumeAt>>
    /\ UNCHANGED <<attempts, runStatus, journal, now, fnRuns, returned>>
-----------------------------------------------------------------------------
Init ==
    /\ stepStatus = "QUEUED" /\ resumeAt = 0 /\ attempts = 0 /\ runStatus = "LIVE"
    /\ journal = <<>> /\ ex = [w \in Execs |-> Idle] /\ program \in Programs
    /\ now = 1 /\ budget = Budget /\ fnRuns = 0 /\ returned = {}

ExecutorStep(w) ==
    \/ LoadJournal(w) \/ Misaligned(w) \/ SleepDurable(w) \/ RunOnce(w) \/ RunFn(w)
    \/ CompleteJournalOnce(w) \/ WaitFor(w) \/ TimeoutWait(w) \/ GetJournalEntry(w)
    \/ TaskDone(w) \/ Suspended(w) \/ completeStepTx(w) \/ AttemptFails(w)

Next ==
    \/ \E w \in Execs : claimQueueTx(w) \/ ExecutorStep(w) \/ CallFails(w)
    \/ \E event \in Events : DeliverEvent(event)
    \/ CancelRun \/ SiblingFails \/ RetryDeadLetter
    \/ Tick \/ ClockBack \/ Restart

Spec == Init /\ [][Next]_vars

\* Executors run, due work is claimed, and time passes.
Fairness == /\ \A w \in Execs : WF_vars(ExecutorStep(w))
            /\ WF_vars(\E w \in Execs : claimQueueTx(w))
            /\ WF_vars(Tick)

FairSpec == Spec /\ Fairness
-----------------------------------------------------------------------------
(* Properties.                                                             *)

Rows == [kind : {"sleep", "wait", "once"}, label : STRING, at : Nat, done : BOOLEAN,
         timedOut : BOOLEAN, value : Nat]

\* Every variable has its type; a cursor is at most one past the cache.
TypeOK ==
    /\ stepStatus \in {"QUEUED", "RUNNING", "SUSPENDED", "SUCCEEDED", "FAILED", "CANCELLED"}
    /\ resumeAt \in Nat /\ attempts \in Nat /\ runStatus \in {"LIVE", "OVER", "DEADLETTER"}
    /\ journal \in Seq(Rows) /\ program \in Programs
    /\ ex \in [Execs -> [pc : Pcs, att : Nat, cache : Seq(Rows), cursor : Nat \ {0}, val : Nat]]
    /\ now \in Nat \ {0} /\ budget \in [Ops -> Nat] /\ \A op \in Ops : budget[op] <= Budget[op]
    /\ fnRuns \in Nat
    /\ returned \subseteq [idx : Nat \ {0}, kind : {"sleep", "wait", "once"}, label : STRING,
                            timedOut : BOOLEAN, value : Nat]

\* A dead-letter retry has started the step over while an executor of its first
\* life may still be inside the task.
Revived == Spent("retryDead") > 0

\* Every invocation that gets past a durable call is told the same: the same kind
\* of await, the same key or event, the same result, payload or timeout.  For
\* RunOnce this needs that the run was never revived from the dead letters.
ReplayAgrees ==
    \A x, y \in returned : x.idx = y.idx /\ (x.kind = "once" => ~Revived) => x = y

\* Once a RunOnce result is recorded, fn is not run again, in any later
\* invocation, unless the run was revived.
MemoSpares ==
    \A w \in Execs : ex[w].pc \in {"fn", "memo"} /\ ~Revived => ~journal[ex[w].cursor].done

\* A step suspended with nothing but an event to wake it has an open wait for
\* that event to find: no payload lies in the journal of a step that sleeps on.
EventNeverLost ==
    stepStatus = "SUSPENDED" /\ resumeAt = 0 /\ runStatus = "LIVE" =>
        \E i \in DOMAIN journal : journal[i].kind = "wait" /\ ~journal[i].done

EventReachesWaiter == ~Revived => EventNeverLost

\* A suspension wakes when its own entry says: a replay never moves a wake time or
\* a deadline, whatever the clock does meanwhile.
WakesOnTime ==
    stepStatus = "SUSPENDED" => \E i \in DOMAIN journal :
        journal[i].kind \in {"sleep", "wait"} /\ journal[i].at = resumeAt

\* The journal is a log: entries are added at its end, keep what they are waiting
\* for, and once decided never change again (RunOnce: unless revived).
LogStep ==
    /\ Len(journal') \in {Len(journal), Len(journal) + 1}
    /\ \A i \in 1..Len(journal) :
          /\ journal'[i].kind = journal[i].kind /\ journal'[i].label = journal[i].label
          /\ journal'[i].at = journal[i].at
          /\ journal[i].done /\ (journal[i].kind = "once" => ~Revived) => journal'[i] = journal[i]
JournalIsLog == [][LogStep]_vars

\* A suspension is not charged an attempt: while nothing has failed or crashed the
\* step is on its first one, however often it was suspended and resumed.
AwaitNotCharged == (\A op \in {"fail", "storeError", "restart"} : Spent(op) = 0) => attempts <= 1

\* A sleep, a wait with a deadline and a wait whose event has come all return to
\* the task, unless the run is over first (or was revived, see EventNeverLost).
Decided(i) ==
    /\ i \in DOMAIN journal
    /\ journal[i].kind = "sleep" \/ (journal[i].kind = "wait" /\ (journal[i].done \/ journal[i].at > 0))
AwaitResolves ==
    \A i \in 1..MaxCalls :
        Decided(i) ~> (\E x \in returned : x.idx = i) \/ runStatus # "LIVE" \/ Revived

\* What the journal makes of AwaitOnce: the outcomes of the wait entries, and what
\* WaitFor has returned.
Open        == [timedOut |-> FALSE, value |-> 0]
Outcome(x)  == [timedOut |-> x.timedOut, value |-> x.value]
waitOutcome == [i \in 1..MaxCalls |->
                  IF i \in DOMAIN journal /\ journal[i].kind = "wait" THEN Outcome(journal[i]) ELSE Open]
waitTold    == {<<x.idx, Outcome(x)>> : x \in {y \in returned : y.kind = "wait"}}
Await == INSTANCE AwaitOnce WITH
            Positions <- 1..MaxCalls,
            Outcomes  <- {[timedOut |-> TRUE, value |-> 0]}
                            \cup {[timedOut |-> FALSE, value |-> v] : v \in 1..Budget["emit"]},
            outcome <- waitOutcome, told <- waitTold

\* WaitFor keeps its promise: an event against a timeout is decided once and every
\* replay is told the decision, revived or not.
WaitIsDecidedOnce == Await!Spec
-----------------------------------------------------------------------------
(* The inductive invariant behind ReplayAgrees, MemoSpares,                *)
(* EventReachesWaiter and the refinement.                                  *)

Holding == InTask \cup {"failed"}

\* Without a revival one executor at a time is inside the task or still owes its
\* error, and the step cannot be claimed meanwhile.
OneTask ==
    ~Revived => /\ \A v, w \in Execs : ex[v].pc \in Holding /\ ex[w].pc \in Holding => v = w
                /\ \A w \in Execs : ex[w].pc \in Holding => stepStatus \notin {"QUEUED", "SUSPENDED"}

\* A copy c of an entry and the entry j itself: what is awaited never differs, a
\* decision in the copy is the entry's, and only a revival lets RunOnce differ.
Copies(c, j) ==
    /\ c.kind = j.kind /\ c.label = j.label /\ c.at = j.at
    /\ c.kind = "wait" /\ c.done => c.timedOut = j.timedOut /\ c.value = j.value /\ j.done
    /\ c.kind = "once" /\ ~Revived => c.done = j.done /\ c.value = j.value

\* The call an executor is in the middle of is the one its entry was made for.
InCall(w, kind) ==
    /\ ex[w].cursor <= Len(ex[w].cache) /\ ex[w].cursor <= Len(program)
    /\ Call(w).kind = kind /\ Aligned(w)

\* Without a revival an executor at work has no open wait without a deadline, in
\* the journal or in its copy: such a step is claimed only once the event is there.
OpenWait(i) == journal[i].kind = "wait" /\ ~journal[i].done
NoneMissed(w) ==
    ~Revived => /\ \A i \in 1..Len(journal) : OpenWait(i) => journal[i].at > 0
                /\ \A i \in 1..Len(ex[w].cache) :
                      ex[w].cache[i].kind = "wait" /\ ex[w].cache[i].at = 0 => ex[w].cache[i].done

\* An executor's journal is a beginning of the stored one; the waits it has passed
\* are decided.
Cached(w) ==
    /\ Len(ex[w].cache) <= Len(journal) /\ ex[w].cursor <= Len(ex[w].cache) + 1
    /\ \A i \in 1..Len(ex[w].cache) : Copies(ex[w].cache[i], journal[i])
    /\ \A i \in 1..Len(journal) : i < ex[w].cursor /\ journal[i].kind = "wait" => journal[i].done
    /\ ex[w].pc = "claimed" => ex[w].cursor = 1 /\ ex[w].cache = <<>>
    /\ ex[w].pc \in {"fn", "memo"} => InCall(w, "once")
    /\ ex[w].pc \in {"timeout", "reread"} => InCall(w, "wait")
    /\ ex[w].pc = "reread" => journal[ex[w].cursor].done
    /\ NoneMissed(w)
Caches == \A w \in Execs : ex[w].pc \in InTask => Cached(w)

\* What a call x has returned is what the entry says.
Backed(x) ==
    /\ x.idx <= Len(journal)
    /\ x.kind = journal[x.idx].kind /\ x.label = journal[x.idx].label
    /\ x.kind = "sleep" => ~x.timedOut /\ x.value = 0
    /\ x.kind = "wait" => /\ journal[x.idx].done
                          /\ x.timedOut = journal[x.idx].timedOut /\ x.value = journal[x.idx].value
    /\ x.kind = "once" => ~x.timedOut
    /\ x.kind = "once" /\ ~Revived => journal[x.idx].done /\ x.value = journal[x.idx].value
Told == \A x \in returned : Backed(x)

\* Only the last entry can be an open wait, and without a revival a step with one
\* that has no deadline is neither queued nor running nor due.
OpenIsLast  == \A i \in 1..Len(journal) : OpenWait(i) => i = Len(journal)
OpenAwaited ==
    ~Revived => \A i \in 1..Len(journal) : OpenWait(i) /\ journal[i].at = 0 =>
        /\ stepStatus \notin {"QUEUED", "RUNNING"}
        /\ stepStatus = "SUSPENDED" => resumeAt = 0

\* An entry that is not decided has neither a result nor a timeout.
Blank == \A i \in 1..Len(journal) : ~journal[i].done => ~journal[i].timedOut /\ journal[i].value = 0

JournalInv == /\ OneTask /\ Caches /\ Told /\ MemoSpares /\ OpenIsLast /\ OpenAwaited
              /\ EventReachesWaiter /\ WakesOnTime /\ Blank
=============================================================================
