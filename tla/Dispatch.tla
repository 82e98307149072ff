------------------------------ MODULE Dispatch ------------------------------
(***************************************************************************)
(* The scheduler loop of one engine with one queue: when it sleeps, for    *)
(* how long, and what wakes it.                                            *)
(*                                                                         *)
(* Work arrives by calls that write the database first and then wake the   *)
(* loop: wakeScheduler stores the urgent flag and then sends on a channel  *)
(* of capacity one, wakeSlot only sends.  Between the write, the store and *)
(* the send the loop goes on, so each is an action.  A tick is a snapshot  *)
(* of the queue, a claim, and after an empty claim the read of NextDue.    *)
(*                                                                         *)
(* Times are ticks until something is due; 0 means now or earlier.         *)
(***************************************************************************)
EXTENDS Integers, FiniteSets, FiniteSetsExt

CONSTANTS Steps, Runs, RunOf, Deps,
          Conc,        \* the queue's concurrency
          Poll,        \* the poll interval
          IdleCap,     \* the longest sleep
          Delays,      \* run_at and resume_at of new work
          ExternalTx,  \* Postgres, MySQL: EnqueueTx is supported, the store is shared
          Overlap,     \* pauses and resumes of the queue, here and on peers, may overlap
          Budget       \* how many snoozes, retries, suspensions, pauses, resumes and store errors

ASSUME DispatchAssumption ==
    /\ RunOf \in [Steps -> Runs]
    /\ Deps \in [Steps -> SUBSET Steps]
    /\ Conc \in Nat \ {0} /\ Poll \in Nat \ {0}
    /\ IdleCap \in Nat /\ IdleCap >= Poll
    /\ Delays \subseteq Nat
    /\ Budget \in Nat

VARIABLES
    st,        \* steps.status
    due,       \* ticks until run_at (QUEUED) or resume_at (SUSPENDED)
    running,   \* steps whose executor goroutine has not returned
    done,      \* successes the completer has not recorded
    pausedDB, pausedMem,   \* queue_pauses, e.paused
    calls,     \* pause and resume calls between their write and their end
    pc, busy, slots,       \* the scheduler loop
    timer,     \* ticks until its timer fires
    urgent, token,         \* e.urgent, e.wake
    storing, sending,      \* wakers before urgent.Store(true) and before the send
    budget,
    hidden     \* history: steps nobody announced, until they are first claimed

rows  == <<st, due>>
loop  == <<pc, busy, slots, timer>>
wakes == <<urgent, token, storing, sending>>
vars  == <<rows, running, done, pausedDB, pausedMem, calls, loop, wakes, budget, hidden>>

Spend == budget > 0 /\ budget' = budget - 1

\* wakeScheduler and wakeSlot, called; what they do to the loop comes later.
WakeScheduler == storing' = storing + 1 /\ UNCHANGED <<urgent, token, sending>>
WakeSlot      == sending' = sending + 1 /\ UNCHANGED <<urgent, token, storing>>

StoreUrgent == /\ storing > 0
               /\ storing' = storing - 1 /\ urgent' = TRUE /\ sending' = sending + 1
               /\ UNCHANGED <<rows, running, done, pausedDB, pausedMem, calls, loop, token, budget, hidden>>

\* A full channel drops the signal.
SendWake == /\ sending > 0
            /\ sending' = sending - 1 /\ token' = TRUE
            /\ UNCHANGED <<rows, running, done, pausedDB, pausedMem, calls, loop, urgent, storing, budget, hidden>>

-----------------------------------------------------------------------------
(* Calls that change what is due.                                          *)

Insert(r, d) ==
    /\ \A s \in Steps : RunOf[s] = r => st[s] = "NEW"
    /\ st'  = [s \in Steps |-> IF RunOf[s] # r THEN st[s]
                               ELSE IF Deps[s] = {} THEN "QUEUED" ELSE "BLOCKED"]
    /\ due' = [s \in Steps |-> IF RunOf[s] = r THEN d ELSE due[s]]
    /\ UNCHANGED <<running, done, pausedDB, pausedMem, calls, loop, budget>>

Enqueue(r, d) == Insert(r, d) /\ WakeScheduler /\ UNCHANGED hidden

\* EnqueueOnTx: the caller commits and nobody is told.
EnqueueOnTx(r, d) ==
    /\ ExternalTx
    /\ Insert(r, d)
    /\ hidden' = hidden \cup {s \in Steps : RunOf[s] = r}
    /\ UNCHANGED wakes

Snooze(s, d) ==
    /\ st[s] = "QUEUED" /\ Spend
    /\ due' = [due EXCEPT ![s] = d]
    /\ WakeScheduler
    /\ UNCHANGED <<st, running, done, pausedDB, pausedMem, calls, loop, hidden>>

\* PauseQueue and ResumeQueue write the table, then e.paused under e.mu; the
\* resume then wakes the scheduler.
PauseQueue ==
    /\ Overlap \/ calls = {}
    /\ "pause" \notin calls /\ Spend
    /\ pausedDB' = TRUE /\ calls' = calls \cup {"pause"}
    /\ UNCHANGED <<rows, running, done, pausedMem, loop, wakes, hidden>>

PauseMem ==
    /\ "pause" \in calls
    /\ pausedMem' = TRUE /\ calls' = calls \ {"pause"}
    /\ UNCHANGED <<rows, running, done, pausedDB, loop, wakes, budget, hidden>>

ResumeQueue ==
    /\ Overlap \/ calls = {}
    /\ "resume" \notin calls /\ Spend
    /\ pausedDB' = FALSE /\ calls' = calls \cup {"resume"}
    /\ UNCHANGED <<rows, running, done, pausedMem, loop, wakes, hidden>>

\* Mutant: the memory copy is left as it was.
ResumeKeepsMem ==
    /\ "resume" \in calls
    /\ calls' = calls \ {"resume"}
    /\ WakeScheduler
    /\ UNCHANGED <<rows, running, done, pausedDB, pausedMem, loop, budget, hidden>>

ResumeMem ==
    /\ "resume" \in calls
    /\ pausedMem' = FALSE /\ calls' = calls \ {"resume"}
    /\ WakeScheduler
    /\ UNCHANGED <<rows, running, done, pausedDB, loop, budget, hidden>>

\* A peer's calls reach this engine through the database alone.  Without
\* Overlap a pause is undone where it was made.
PeerPause ==
    /\ ExternalTx /\ (Overlap \/ (calls = {} /\ ~pausedMem))
    /\ ~pausedDB /\ Spend
    /\ pausedDB' = TRUE
    /\ UNCHANGED <<rows, running, done, pausedMem, calls, loop, wakes, hidden>>

PeerResume ==
    /\ ExternalTx /\ (Overlap \/ (calls = {} /\ ~pausedMem))
    /\ pausedDB /\ Spend
    /\ pausedDB' = FALSE
    /\ UNCHANGED <<rows, running, done, pausedMem, calls, loop, wakes, hidden>>

-----------------------------------------------------------------------------
(* schedulerLoop and tick.                                                 *)

Sleep(b, t) == pc' = "sleep" /\ busy' = b /\ timer' = t /\ slots' = 0

TimerFires ==
    /\ pc = "sleep" /\ timer = 0
    /\ pc' = "tick"
    /\ UNCHANGED <<rows, running, done, pausedDB, pausedMem, calls, busy, slots, timer, wakes, budget, hidden>>

\* While busy only an urgent wake ends the sleep; any other is swallowed.
WakeBusy ==
    /\ pc = "sleep" /\ busy /\ token
    /\ token' = FALSE /\ urgent' = FALSE
    /\ pc' = IF urgent THEN "tick" ELSE "sleep"
    /\ UNCHANGED <<rows, running, done, pausedDB, pausedMem, calls, busy, slots, timer, storing, sending, budget, hidden>>

\* When idle any wake does; the urgent flag is cleared after the receive.
WakeIdle ==
    /\ pc = "sleep" /\ ~busy /\ token
    /\ token' = FALSE
    /\ pc' = "clear"
    /\ UNCHANGED <<rows, running, done, pausedDB, pausedMem, calls, busy, slots, timer, urgent, storing, sending, budget, hidden>>

ClearUrgent ==
    /\ pc = "clear"
    /\ urgent' = FALSE /\ pc' = "tick"
    /\ UNCHANGED <<rows, running, done, pausedDB, pausedMem, calls, busy, slots, timer, token, storing, sending, budget, hidden>>

\* The snapshot of the queue and its free slots (inFlight is |running|).
Snapshot ==
    LET free == Conc - Cardinality(running)
    IN /\ pc = "tick"
       /\ \/ pausedMem /\ pc' = "nextDue" /\ UNCHANGED <<busy, slots, timer>>
          \/ ~pausedMem /\ free <= 0 /\ Sleep(TRUE, Poll)
          \/ ~pausedMem /\ free > 0 /\ pc' = "claim" /\ slots' = free /\ UNCHANGED <<busy, timer>>
       /\ UNCHANGED <<rows, running, done, pausedDB, pausedMem, calls, wakes, budget, hidden>>

\* Due steps the claim's gates let through; the queue's pause stands for all.
Claimable(s) ==
    /\ st[s] \in {"QUEUED", "SUSPENDED"} /\ due[s] = 0
    /\ ~pausedDB

\* What one claim may take: as many as there are slots.
ClaimSets == LET due0 == {s \in Steps : Claimable(s)}
             IN kSubset(Min({slots, Cardinality(due0)}), due0)

Claim ==
    /\ pc = "claim"
    /\ \/ /\ ~\E s \in Steps : Claimable(s)
          /\ pc' = "nextDue"
          /\ UNCHANGED <<st, running, busy, slots, timer, hidden>>
       \/ \E S \in ClaimSets \ {{}} :
             /\ st' = [s \in Steps |-> IF s \in S THEN "RUNNING" ELSE st[s]]
             /\ running' = running \cup S /\ hidden' = hidden \ S
             /\ Sleep(TRUE, Poll)
    /\ UNCHANGED <<due, done, pausedDB, pausedMem, calls, wakes, budget>>

\* ClaimDueMulti or NextDue fails: the poll interval.
StoreError ==
    /\ pc \in {"claim", "nextDue"} /\ Spend
    /\ Sleep(pc = "claim", Poll)
    /\ UNCHANGED <<rows, running, done, pausedDB, pausedMem, calls, wakes, hidden>>

\* Mutant: work that is due sleeps like work that is not.
IdleCapOnly ==
    LET times == {due[s] : s \in {t \in Steps : st[t] \in {"QUEUED", "SUSPENDED"}}}
    IN IF times = {} \/ Min(times) = 0 THEN IdleCap ELSE Min({Min(times), IdleCap})

\* NextDue and idleWait.
IdleWait ==
    LET times == {due[s] : s \in {t \in Steps : st[t] \in {"QUEUED", "SUSPENDED"}}}
    IN IF times = {} THEN IdleCap
       ELSE IF Min(times) = 0 THEN Poll
       ELSE Min({Min(times), IdleCap})

NextDue ==
    /\ pc = "nextDue"
    /\ Sleep(FALSE, IdleWait)
    /\ UNCHANGED <<rows, running, done, pausedDB, pausedMem, calls, wakes, budget, hidden>>

-----------------------------------------------------------------------------
(* Executors and the completer.                                            *)

\* The goroutine returns: its slot is free before wakeSlot.
Return(s) == /\ s \in running
             /\ running' = running \ {s}

\* A success is handed to the completer and recorded later.
BodyOk(s) ==
    /\ Return(s) /\ done' = done \cup {s}
    /\ WakeSlot
    /\ UNCHANGED <<rows, pausedDB, pausedMem, calls, loop, budget, hidden>>

\* RetryStep, then wakeScheduler; wakeSlot on the way out.
BodyErr(s, d) ==
    /\ Return(s) /\ Spend
    /\ st' = [st EXCEPT ![s] = "QUEUED"] /\ due' = [due EXCEPT ![s] = d]
    /\ storing' = storing + 1 /\ sending' = sending + 1 /\ UNCHANGED <<urgent, token>>
    /\ UNCHANGED <<done, pausedDB, pausedMem, calls, loop, hidden>>

\* A durable sleep or a parked step: only wakeSlot follows the write.
Suspend(s, d) ==
    /\ Return(s) /\ Spend
    /\ st' = [st EXCEPT ![s] = "SUSPENDED"] /\ due' = [due EXCEPT ![s] = d]
    /\ WakeSlot
    /\ UNCHANGED <<done, pausedDB, pausedMem, calls, loop, hidden>>

\* flushCompletions for one success, and afterComplete's wake.
Record(s) ==
    LET ready == {t \in Steps : st[t] = "BLOCKED" /\ s \in Deps[t]
                                /\ \A d \in Deps[t] \ {s} : st[d] = "SUCCEEDED"}
    IN /\ s \in done
       /\ done' = done \ {s}
       /\ st'  = [t \in Steps |-> IF t = s THEN "SUCCEEDED" ELSE IF t \in ready THEN "QUEUED" ELSE st[t]]
       /\ due' = [t \in Steps |-> IF t \in ready THEN 0 ELSE due[t]]
       /\ IF ready # {} THEN WakeScheduler ELSE WakeSlot
       /\ UNCHANGED <<running, pausedDB, pausedMem, calls, loop, budget, hidden>>

\* The loop is not kept waiting once its timer has fired or it is inside a tick.
Tick ==
    /\ pc = "sleep" /\ timer > 0
    /\ due'   = [s \in Steps |-> IF due[s] > 0 /\ st[s] \in {"QUEUED", "SUSPENDED"} THEN due[s] - 1 ELSE due[s]]
    /\ timer' = timer - 1
    /\ UNCHANGED <<st, running, done, pausedDB, pausedMem, calls, pc, busy, slots, wakes, budget, hidden>>

-----------------------------------------------------------------------------
Init ==
    /\ st = [s \in Steps |-> "NEW"] /\ due = [s \in Steps |-> 0]
    /\ running = {} /\ done = {}
    /\ pausedDB = FALSE /\ pausedMem = FALSE /\ calls = {}
    /\ pc = "sleep" /\ busy = FALSE /\ slots = 0 /\ timer = Poll
    /\ urgent = FALSE /\ token = FALSE /\ storing = 0 /\ sending = 0
    /\ budget = Budget /\ hidden = {}

Scheduler == TimerFires \/ WakeBusy \/ WakeIdle \/ ClearUrgent \/ Snapshot \/ Claim \/ NextDue
Wakers    == StoreUrgent \/ SendWake
Operator  == PauseQueue \/ PauseMem \/ ResumeQueue \/ ResumeMem \/ PeerPause \/ PeerResume

Next == \/ Scheduler \/ StoreError \/ Wakers \/ Operator \/ Tick
        \/ \E s \in Steps : \/ BodyOk(s) \/ Record(s)
                            \/ \E d \in Delays : Snooze(s, d) \/ BodyErr(s, d) \/ Suspend(s, d)
        \/ \E r \in Runs, d \in Delays : Enqueue(r, d) \/ EnqueueOnTx(r, d)

\* Goroutines run and time passes; nobody owes a call.
Spec == /\ Init /\ [][Next]_vars
        /\ WF_vars(Scheduler) /\ WF_vars(Tick) /\ WF_vars(StoreUrgent) /\ WF_vars(SendWake)
        /\ WF_vars(PauseMem) /\ WF_vars(ResumeMem)
        /\ \A s \in Steps : WF_vars(BodyOk(s)) /\ WF_vars(Record(s))

-----------------------------------------------------------------------------
(* Properties.                                                             *)

\* No lost wake-up.  When the loop sleeps and no waker is on its way, its timer
\* fires within a poll interval of the moment the next step becomes due, even
\* if that is far below the idle cap (schedulerLoop, idleWait).  Work inserted
\* on a caller's transaction is not announced and waits for the idle cap.
NoOversleep ==
    pc = "sleep" /\ ~token /\ storing = 0 /\ sending = 0 =>
        \A s \in Steps \ hidden : st[s] \in {"QUEUED", "SUSPENDED"} => timer <= Max({due[s], Poll})

\* Work the database does not hold back is claimed: by a wake, by the poll, or,
\* for work nobody announced, by the idle cap.
DueIsClaimed ==
    \A s \in Steps : (st[s] = "QUEUED" /\ ~pausedDB) ~> (st[s] # "QUEUED" \/ pausedDB)

=============================================================================
