------------------------- MODULE RunLifecycleProofs -------------------------
(* Proofs about RunLifecycle, for every set of runs, steps and slots, every *)
(* dependency graph and every bound: types, who answers for a row, what     *)
(* happens to a run's row and to the handles that wait for it, and what     *)
(* becomes of its steps: that finished work is kept, that the order of the  *)
(* dependencies is, that a run succeeds only as a whole and is never        *)
(* stranded, and what an attempt is charged for.  Each theorem names the    *)
(* client calls and faults it has to exclude.                               *)
EXTENDS RunLifecycle, TLAPS

USE StepsAssumption, ConfigAssumption DEF StepsAssumption, ConfigAssumption

-----------------------------------------------------------------------------
(* Type correctness.                                                       *)

\* A typed store stays typed under the transactions' effects on its rows.
LEMMA SetRunTyped ==
    ASSUME StoreTyped, NEW r \in Runs, NEW o \in RunStatuses,
           NEW st \in [Steps -> StepStatuses], SetRun(r, o, st)
    PROVE  runStatus' \in [Runs -> RunStatuses] /\ stepStatus' \in [Steps -> StepStatuses]
<1>1. runStatus \in [Runs -> RunStatuses] /\ stepStatus \in [Steps -> StepStatuses]
  BY DEF StoreTyped
<1>2. "DELETED" \in RunStatuses /\ "DELETED" \in StepStatuses
  BY DEF RunStatuses, StepStatuses
<1>3. CASE r \in Ephemeral
  <2>1. runStatus' = [runStatus EXCEPT ![r] = "DELETED"] /\ stepStatus' = deleteEphemeralRunTx(st, r)
    BY <1>3 DEF SetRun
  <2>2. deleteEphemeralRunTx(st, r) \in [Steps -> StepStatuses]
    BY <1>2 DEF deleteEphemeralRunTx
  <2> QED
    BY <1>1, <1>2, <2>1, <2>2
<1>4. CASE r \notin Ephemeral
  <2>1. runStatus' = [runStatus EXCEPT ![r] = o] /\ stepStatus' = st
    BY <1>4 DEF SetRun
  <2> QED
    BY <1>1, <2>1
<1> QED
  BY <1>3, <1>4

\* A guarded UPDATE of one step row keeps the steps table typed.
LEMMA UpdateStepTyped ==
    ASSUME StoreTyped, NEW s, NEW from, NEW to \in StepStatuses, UpdateStep(s, from, to)
    PROVE  stepStatus' \in [Steps -> StepStatuses]
BY DEF StoreTyped, UpdateStep

\* Handing an attempt back (ParkStep, RequeuePausedStep) never makes the count negative.
LEMMA RefundTyped ==
    ASSUME StoreTyped, NEW s \in Steps, Refund(s)
    PROVE  stepStatus' \in [Steps -> StepStatuses] /\ attempts' \in [Steps -> Nat]
<1>1. "QUEUED" \in StepStatuses
  BY DEF StepStatuses, Active
<1>2. stepStatus' \in [Steps -> StepStatuses]
  BY <1>1, UpdateStepTyped DEF Refund
<1>3. attempts' \in [Steps -> Nat]
  <2> DEFINE n == IF stepStatus[s] = "RUNNING" /\ attempts[s] > 0 THEN attempts[s] - 1 ELSE attempts[s]
  <2>1. attempts \in [Steps -> Nat] /\ attempts[s] \in Nat
    BY DEF StoreTyped
  <2>2. n \in Nat
    BY <2>1
  <2>3. attempts' = [attempts EXCEPT ![s] = n]
    BY DEF Refund
  <2> QED
    BY <2>1, <2>2, <2>3
<1> QED
  BY <1>2, <1>3

\* What an executor's own step, and what a cancellation, leave of the executors.
LEMMA SlotTyped ==
    ASSUME ExecTyped, NEW w \in Slots, NEW e \in Executors,
           e.pc # "idle" => e.step \in Steps,
           e.pc = "finish" => e.res \in {"SUCCEEDED", "FAILED"},
           ex' = [ex EXCEPT ![w] = e]
    PROVE  ExecTyped'
BY DEF ExecTyped

\* An executor that only moves on, to any label that needs no outcome, stays typed.
LEMMA GotoTyped ==
    ASSUME ExecTyped, NEW w \in Slots, ex[w].pc # "idle",
           NEW l \in Pcs \ {"idle", "finish"}, Goto(w, l)
    PROVE  ExecTyped'
<1> DEFINE e == [ex[w] EXCEPT !.pc = l]
<1>1. e \in Executors /\ e.pc = l /\ e.step = ex[w].step
  <2>1. ex[w] \in Executors
    BY DEF ExecTyped
  <2>2. l \in Pcs
    OBVIOUS
  <2> QED
    BY <2>1, <2>2 DEF Executors
<1>2. ex' = [ex EXCEPT ![w] = e]
  BY DEF Goto
<1>3. ex[w].step \in Steps
  BY DEF ExecTyped
<1> HIDE DEF e
<1> QED
  BY <1>1, <1>2, <1>3, SlotTyped

\* A slot that is freed stays typed.
LEMMA IdleTyped ==
    ASSUME ExecTyped, NEW w \in Slots, ex' = [ex EXCEPT ![w] = Idle]
    PROVE  ExecTyped'
<1>1. Idle \in Executors /\ Idle.pc = "idle"
  BY DEF Idle, Executors, Pcs
<1> QED
  BY <1>1, SlotTyped

\* Cancelling contexts moves no executor and changes no step or result.
LEMMA CancelContextsTyped ==
    ASSUME ExecTyped, NEW S
    PROVE  /\ CancelContexts(S) \in [Slots -> Executors]
           /\ \A w \in Slots : /\ CancelContexts(S)[w].pc = ex[w].pc
                               /\ CancelContexts(S)[w].step = ex[w].step
                               /\ CancelContexts(S)[w].res = ex[w].res
<1>1. ASSUME NEW w \in Slots
      PROVE  /\ [ex[w] EXCEPT !.cancelled = TRUE] \in Executors
             /\ [ex[w] EXCEPT !.cancelled = TRUE].pc = ex[w].pc
             /\ [ex[w] EXCEPT !.cancelled = TRUE].step = ex[w].step
             /\ [ex[w] EXCEPT !.cancelled = TRUE].res = ex[w].res
  BY ZenonT(60) DEF ExecTyped, Executors
<1> QED
  BY <1>1 DEF CancelContexts, ExecTyped

\* A client call in progress keeps the set of calls typed.
LEMMA CallTyped ==
    ASSUME MemoryTyped, NEW o \in {"enqueue", "cancel", "pause"}, NEW r \in Runs,
           NEW S \in SUBSET Steps, calls' = calls \cup {[op |-> o, run |-> r, steps |-> S]}
    PROVE  calls' \subseteq Calling
BY DEF MemoryTyped, Calling

\* An enqueue keeps the tables and the calls in progress typed.
LEMMA EnqueueCreateTyped ==
    ASSUME StoreTyped, MemoryTyped, NEW c \in calls, EnqueueCreate(c)
    PROVE  /\ runStatus' \in [Runs -> RunStatuses] /\ stepStatus' \in [Steps -> StepStatuses]
           /\ calls' \subseteq Calling
<1>1. PICK old \in Holder(c.run) :
        /\ replaceAndInsert(c.run, old)
        /\ calls' = (calls \ {c}) \cup {[op |-> "cancel", run |-> q, steps |-> RunningSteps(q)] : q \in old}
  BY DEF EnqueueCreate
<1>2. runStatus' \in [Runs -> RunStatuses] /\ stepStatus' \in [Steps -> StepStatuses]
  BY <1>1 DEF replaceAndInsert, StoreTyped, RunStatuses, StepStatuses, Live, Active, Terminal
<1>3. \A q \in old : q \in Runs /\ RunningSteps(q) \in SUBSET Steps
  BY DEF Holder, RunningSteps, StepsOf
<1> QED
  BY <1>1, <1>2, <1>3 DEF MemoryTyped, Calling

\* finishRun and interruptLocal give a waiter a terminal status.
LEMMA ReleaseTyped ==
    ASSUME MemoryTyped, NEW r, NEW o \in Terminal
    PROVE  Release(r, o) \in [Runs -> Answers]
BY DEF MemoryTyped, Release, Answers

\* Spending from a bound keeps it a natural number.
LEMMA SpendTyped ==
    ASSUME EngineTyped, NEW op \in Ops, Spend(op)
    PROVE  budget' \in [Ops -> Nat]
BY DEF EngineTyped, Spend

\* completeStepTx keeps both tables typed, and the outcome it reports is a final one.
LEMMA completeStepTyped ==
    ASSUME StoreTyped, NEW s \in Steps, completeStepTx(s)
    PROVE  /\ runStatus' \in [Runs -> RunStatuses] /\ stepStatus' \in [Steps -> StepStatuses]
           /\ RunOutcome(s) # None => RunOutcome(s) \in {"SUCCEEDED", "FAILED"}
<1> DEFINE st == unblockReadyTx(s)
<1>1. RunOf[s] \in Runs
  OBVIOUS
<1>2. st \in [Steps -> StepStatuses]
  BY DEF unblockReadyTx, StoreTyped, StepStatuses, Active, Terminal
<1>3. RunOutcome(s) # None => RunOutcome(s) \in {"SUCCEEDED", "FAILED"}
  BY DEF RunOutcome
<1>4. CASE runTerminal(RunOf[s])
  <2>1. UpdateStep(s, {"QUEUED", "RUNNING"}, "CANCELLED") /\ UNCHANGED runStatus
    BY <1>4 DEF completeStepTx
  <2>2. "CANCELLED" \in StepStatuses
    BY DEF StepStatuses, Terminal
  <2> QED
    BY <1>3, <2>1, <2>2, UpdateStepTyped DEF StoreTyped
<1>5. CASE ~runTerminal(RunOf[s]) /\ (~StepDone(s) \/ RunOutcome(s) = None)
  BY <1>2, <1>3, <1>5 DEF completeStepTx, runTerminal, StoreTyped
<1>6. CASE ~runTerminal(RunOf[s]) /\ StepDone(s) /\ RunOutcome(s) # None
  <2>1. SetRun(RunOf[s], RunOutcome(s), st)
    BY <1>6 DEF completeStepTx
  <2>2. RunOutcome(s) \in RunStatuses
    BY <1>3, <1>6 DEF RunStatuses, Terminal
  <2> QED
    BY <1>1, <1>2, <1>3, <2>1, <2>2, SetRunTyped
<1> QED
  BY <1>3, <1>4, <1>5, <1>6

\* Every step of the system keeps the types.
LEMMA TypeStep == TypeOK /\ [Next]_vars => TypeOK'
<1> SUFFICES ASSUME TypeOK, [Next]_vars PROVE TypeOK'
  OBVIOUS
<1> USE DEF TypeOK
<1>1. ASSUME NEW r \in Runs, EnqueueRegister(r) PROVE TypeOK'
  <2>1. MemoryTyped'
    BY <1>1 DEF EnqueueRegister, Answers, Calling, MemoryTyped
  <2> QED
    BY <1>1, <2>1 DEF EnqueueRegister, StoreTyped, ExecTyped, EngineTyped, database, memory
<1>2. ASSUME NEW r \in Runs, CancelRun(r) PROVE TypeOK'
  <2>1. StoreTyped'
    <3> DEFINE st == [s \in Steps |->
          IF RunOf[s] = r /\ stepStatus[s] \in {"QUEUED", "BLOCKED", "SUSPENDED"}
          THEN "CANCELLED" ELSE stepStatus[s]]
    <3>1. st \in [Steps -> StepStatuses] /\ "CANCELLED" \in RunStatuses
      BY DEF StoreTyped, StepStatuses, RunStatuses, Terminal
    <3>2. SetRun(r, "CANCELLED", st)
      BY <1>2 DEF CancelRun
    <3> HIDE DEF st
    <3> QED
      BY <1>2, <3>1, <3>2, SetRunTyped DEF CancelRun, StoreTyped
  <2>2. MemoryTyped'
    <3>1. RunningSteps(r) \in SUBSET Steps
      BY DEF RunningSteps, StepsOf
    <3>2. calls' \subseteq Calling
      BY <1>2, <3>1, CallTyped DEF CancelRun
    <3> QED
      BY <1>2, <3>2 DEF CancelRun, MemoryTyped
  <2>3. EngineTyped'
    BY <1>2, SpendTyped DEF CancelRun, EngineTyped, Ops
  <2> QED
    BY <1>2, <2>1, <2>2, <2>3 DEF CancelRun, ExecTyped, database, memory
<1>3. ASSUME NEW r \in Runs, PauseRun(r) PROVE TypeOK'
  <2>1. StoreTyped'
    BY <1>3 DEF PauseRun, StoreTyped, RunStatuses, StepStatuses, Live, Active, Terminal
  <2>2. MemoryTyped'
    <3>1. RunningSteps(r) \in SUBSET Steps
      BY DEF RunningSteps, StepsOf
    <3>2. calls' \subseteq Calling
      BY <1>3, <3>1, CallTyped DEF PauseRun
    <3> QED
      BY <1>3, <3>2 DEF PauseRun, MemoryTyped
  <2>3. EngineTyped'
    BY <1>3, SpendTyped DEF PauseRun, EngineTyped, Ops
  <2> QED
    BY <1>3, <2>1, <2>2, <2>3 DEF PauseRun, ExecTyped, database, memory
<1>4. ASSUME NEW r \in Runs, ResumeRun(r) PROVE TypeOK'
  <2>1. StoreTyped'
    BY <1>4 DEF ResumeRun, StoreTyped, RunStatuses, StepStatuses, Live, Active, Terminal
  <2>2. EngineTyped'
    BY <1>4, SpendTyped DEF ResumeRun, EngineTyped, Ops
  <2> QED
    BY <1>4, <2>1, <2>2 DEF ResumeRun, ExecTyped, MemoryTyped, database, memory
<1>5. ASSUME NEW r \in Runs, RetryDeadLetter(r) PROVE TypeOK'
  <2>1. StoreTyped'
    BY <1>5 DEF RetryDeadLetter, reopenRun, StoreTyped, RunStatuses, StepStatuses, Live, Active, Terminal
  <2>2. EngineTyped'
    BY <1>5, SpendTyped DEF RetryDeadLetter, EngineTyped, Ops
  <2> QED
    BY <1>5, <2>1, <2>2 DEF RetryDeadLetter, ExecTyped, MemoryTyped, database, memory
<1>6. ASSUME NEW r \in Runs, DismissDeadLetter(r) PROVE TypeOK'
  <2>1. StoreTyped'
    BY <1>6 DEF DismissDeadLetter, StoreTyped, RunStatuses, StepStatuses, Live, Active, Terminal
  <2>2. EngineTyped'
    BY <1>6, SpendTyped DEF DismissDeadLetter, EngineTyped, Ops
  <2> QED
    BY <1>6, <2>1, <2>2 DEF DismissDeadLetter, ExecTyped, MemoryTyped, database, memory
<1>7. ASSUME NEW r \in Runs, purgeRunBatch(r) PROVE TypeOK'
  <2>1. StoreTyped'
    BY <1>7 DEF purgeRunBatch, deleteEphemeralRunTx, StoreTyped, RunStatuses, StepStatuses, Live, Active, Terminal
  <2>2. EngineTyped'
    BY <1>7, SpendTyped DEF purgeRunBatch, EngineTyped, Ops
  <2> QED
    BY <1>7, <2>1, <2>2 DEF purgeRunBatch, ExecTyped, MemoryTyped, database, memory
<1>8. ASSUME NEW c \in calls, EnqueueCreate(c) PROVE TypeOK'
  <2>1. StoreTyped'
    BY <1>8, EnqueueCreateTyped DEF EnqueueCreate, StoreTyped
  <2>2. MemoryTyped'
    BY <1>8, EnqueueCreateTyped DEF EnqueueCreate, MemoryTyped
  <2> QED
    BY <1>8, <2>1, <2>2 DEF EnqueueCreate, ExecTyped, EngineTyped, database, memory
<1>9. ASSUME NEW c \in calls, EnqueueFail(c) PROVE TypeOK'
  <2>1. MemoryTyped'
    BY <1>9 DEF EnqueueFail, Answers, Calling, MemoryTyped
  <2>2. EngineTyped'
    BY <1>9, SpendTyped DEF EnqueueFail, StoreFails, EngineTyped, Ops
  <2> QED
    BY <1>9, <2>1, <2>2 DEF EnqueueFail, StoreTyped, ExecTyped, database, memory
<1>10. ASSUME NEW c \in calls, interruptLocal(c) PROVE TypeOK'
  <2>1. ExecTyped'
    <3>1. ex' = CancelContexts(c.steps)
      BY <1>10 DEF interruptLocal
    <3> QED
      BY <3>1, CancelContextsTyped DEF ExecTyped
  <2>2. MemoryTyped'
    <3>1. c \in Calling /\ "CANCELLED" \in Terminal
      BY DEF MemoryTyped, Terminal
    <3>2. waiters' \in [Runs -> Answers]
      BY <1>10, <3>1, ReleaseTyped DEF interruptLocal
    <3>3. haltSteps' \subseteq Steps
      BY <1>10, <3>1 DEF interruptLocal, MemoryTyped, Calling, Unregistered
    <3> QED
      BY <1>10, <3>2, <3>3 DEF interruptLocal, MemoryTyped
  <2> QED
    BY <1>10, <2>1, <2>2 DEF interruptLocal, StoreTyped, EngineTyped, database, memory
<1>11. ASSUME NEW c \in calls, PauseMark(c) PROVE TypeOK'
  <2>1. ExecTyped'
    <3>1. ex' = CancelContexts(c.steps)
      BY <1>11 DEF PauseMark
    <3> QED
      BY <3>1, CancelContextsTyped DEF ExecTyped
  <2>2. MemoryTyped'
    BY <1>11 DEF PauseMark, Calling, MemoryTyped
  <2> QED
    BY <1>11, <2>1, <2>2 DEF PauseMark, StoreTyped, EngineTyped, database, memory
<1>12. ASSUME DeliverEvent PROVE TypeOK'
  <2>1. StoreTyped'
    BY <1>12 DEF DeliverEvent, StoreTyped, RunStatuses, StepStatuses, Live, Active, Terminal
  <2>2. EngineTyped'
    BY <1>12, SpendTyped DEF DeliverEvent, EngineTyped, Ops
  <2> QED
    BY <1>12, <2>1, <2>2 DEF DeliverEvent, ExecTyped, MemoryTyped, database, memory
<1>13. ASSUME NEW w \in Slots, NEW s \in Steps, claimQueueTx(w, s) PROVE TypeOK'
  <2>1. StoreTyped'
    <3> DEFINE n == attempts[s] + 1
               o == IF runStatus[RunOf[s]] = "QUEUED" THEN "RUNNING" ELSE runStatus[RunOf[s]]
    <3>1. \/ attempts' = [attempts EXCEPT ![s] = n] /\ runStatus' = [runStatus EXCEPT ![RunOf[s]] = o]
          \/ UNCHANGED <<attempts, runStatus>>
      BY <1>13 DEF claimQueueTx
    <3>2. attempts \in [Steps -> Nat] /\ runStatus \in [Runs -> RunStatuses]
      BY DEF StoreTyped
    <3>3. n \in Nat
      BY <3>2
    <3>4. o \in RunStatuses
      BY <3>2 DEF RunStatuses, Live
    <3> HIDE DEF n, o
    <3>5. attempts' \in [Steps -> Nat] /\ runStatus' \in [Runs -> RunStatuses]
      BY <3>1, <3>2, <3>3, <3>4
    <3> QED
      BY <1>13, <3>5 DEF claimQueueTx, Fresh, StoreTyped, StepStatuses, Active
  <2>2. ExecTyped'
    <3> DEFINE e == [Idle EXCEPT !.pc = "claimed", !.step = s, !.att = attempts'[s]]
    <3>1. attempts'[s] \in Nat
      BY <2>1 DEF StoreTyped
    <3>2. e \in Executors /\ e.pc = "claimed" /\ e.step = s
      BY <3>1 DEF Idle, Executors, Pcs, Holding
    <3>3. ex' = [ex EXCEPT ![w] = e]
      BY <1>13 DEF claimQueueTx
    <3> HIDE DEF e
    <3> QED
      BY <3>2, <3>3, SlotTyped
  <2> QED
    BY <1>13, <2>1, <2>2 DEF claimQueueTx, Fresh, MemoryTyped, EngineTyped, database, memory
<1>14. ASSUME RegisterTask PROVE TypeOK'
  <2>1. EngineTyped'
    BY <1>14, SpendTyped DEF RegisterTask, EngineTyped, Ops
  <2> QED
    BY <1>14, <2>1 DEF RegisterTask, StoreTyped, ExecTyped, MemoryTyped, database, memory
<1>15. ASSUME NEW w \in Slots, ParkStep(w) PROVE TypeOK'
  <2>1. StoreTyped'
    <3>1. ex[w].step \in Steps
      BY <1>15 DEF ParkStep, ExecTyped
    <3> QED
      BY <1>15, <3>1, RefundTyped DEF ParkStep, StoreTyped
  <2>2. ExecTyped'
    BY <1>15, IdleTyped DEF ParkStep
  <2> QED
    BY <1>15, <2>1, <2>2 DEF ParkStep, MemoryTyped, EngineTyped, database, memory
<1>16. ASSUME NEW w \in Slots, Register(w) PROVE TypeOK'
  <2>1. ExecTyped'
    BY <1>16, GotoTyped DEF Register, Pcs, Holding
  <2>2. MemoryTyped'
    BY <1>16 DEF Register, MemoryTyped, ExecTyped
  <2> QED
    BY <1>16, <2>1, <2>2 DEF Register, StoreTyped, EngineTyped, database, memory
<1>17. ASSUME NEW w \in Slots, HaltCheck(w) PROVE TypeOK'
  <2>1. ExecTyped'
    BY <1>17, GotoTyped DEF HaltCheck, Pcs, Holding
  <2> QED
    BY <1>17, <2>1 DEF HaltCheck, StoreTyped, MemoryTyped, EngineTyped, database, memory
<1>18. ASSUME NEW w \in Slots, PauseCheck(w) PROVE TypeOK'
  <2>1. ExecTyped'
    BY <1>18, GotoTyped DEF PauseCheck, consumePause, Pcs, Holding
  <2>2. MemoryTyped'
    BY <1>18 DEF PauseCheck, consumePause, MemoryTyped
  <2> QED
    BY <1>18, <2>1, <2>2 DEF PauseCheck, consumePause, StoreTyped, EngineTyped, database, memory
<1>19. ASSUME NEW w \in Slots, SuspendCheck(w) PROVE TypeOK'
  <2>1. ExecTyped'
    BY <1>19, GotoTyped DEF SuspendCheck, Pcs, Holding
  <2> QED
    BY <1>19, <2>1 DEF SuspendCheck, StoreTyped, MemoryTyped, EngineTyped, database, memory
<1>20. ASSUME NEW w \in Slots, AfterBody(w) PROVE TypeOK'
  <2>1. ExecTyped'
    BY <1>20, GotoTyped DEF AfterBody, consumePause, Pcs, Holding
  <2>2. MemoryTyped'
    BY <1>20 DEF AfterBody, consumePause, MemoryTyped
  <2> QED
    BY <1>20, <2>1, <2>2 DEF AfterBody, consumePause, StoreTyped, EngineTyped, database, memory
<1>21. ASSUME NEW w \in Slots, PauseTerminal(w) PROVE TypeOK'
  <2>1. ExecTyped'
    BY <1>21, GotoTyped DEF PauseTerminal, Pcs, Holding
  <2> QED
    BY <1>21, <2>1 DEF PauseTerminal, StoreTyped, MemoryTyped, EngineTyped, database, memory
<1>22. ASSUME NEW w \in Slots, Decide(w) PROVE TypeOK'
  <2>1. ExecTyped'
    BY <1>22, GotoTyped DEF Decide, Decision, Pcs, Holding
  <2> QED
    BY <1>22, <2>1 DEF Decide, StoreTyped, MemoryTyped, EngineTyped, database, memory
<1>23. ASSUME NEW w \in Slots, ClosingCheck(w) PROVE TypeOK'
  <2>1. ExecTyped'
    BY <1>23, GotoTyped DEF ClosingCheck, AttemptsLeft, Pcs, Holding
  <2> QED
    BY <1>23, <2>1 DEF ClosingCheck, StoreTyped, MemoryTyped, EngineTyped, database, memory
<1>24. ASSUME NEW w \in Slots, submitCompletion(w) PROVE TypeOK'
  <2>1. ExecTyped'
    BY <1>24, GotoTyped DEF submitCompletion, Pcs, Holding
  <2>2. MemoryTyped'
    <3>1. ex[w].step \in Steps
      BY <1>24 DEF submitCompletion, ExecTyped
    <3>2. pending' = Append(pending, ex[w].step) \/ pending' = pending
      BY <1>24 DEF submitCompletion
    <3>3. pending' \in Seq(Steps)
      <4>1. pending \in Seq(Steps)
        BY DEF MemoryTyped
      <4> QED
        BY <3>1, <3>2, <4>1
    <3> QED
      BY <1>24, <3>3 DEF submitCompletion, MemoryTyped
  <2> QED
    BY <1>24, <2>1, <2>2 DEF submitCompletion, StoreTyped, EngineTyped, database, memory
<1>25. ASSUME NEW w \in Slots, WriteStepCancelled(w) PROVE TypeOK'
  <2>1. StoreTyped'
    BY <1>25 DEF WriteStepCancelled, StepCancelled, UpdateStep, StoreTyped, RunStatuses, StepStatuses, Live, Active, Terminal
  <2>2. ExecTyped'
    BY <1>25, GotoTyped DEF WriteStepCancelled, Pcs, Holding
  <2> QED
    BY <1>25, <2>1, <2>2 DEF WriteStepCancelled, MemoryTyped, EngineTyped, database, memory
<1>26. ASSUME NEW w \in Slots, RequeuePausedStep(w) PROVE TypeOK'
  <2>1. StoreTyped'
    <3>1. ex[w].step \in Steps
      BY <1>26 DEF RequeuePausedStep, ExecTyped
    <3> QED
      BY <1>26, <3>1, RefundTyped DEF RequeuePausedStep, StoreTyped
  <2>2. ExecTyped'
    BY <1>26, GotoTyped DEF RequeuePausedStep, Pcs, Holding
  <2> QED
    BY <1>26, <2>1, <2>2 DEF RequeuePausedStep, MemoryTyped, EngineTyped, database, memory
<1>27. ASSUME NEW w \in Slots, RetryStep(w) PROVE TypeOK'
  <2>1. StoreTyped'
    BY <1>27 DEF RetryStep, UpdateStep, StoreTyped, RunStatuses, StepStatuses, Live, Active, Terminal
  <2>2. ExecTyped'
    BY <1>27, GotoTyped DEF RetryStep, Pcs, Holding
  <2> QED
    BY <1>27, <2>1, <2>2 DEF RetryStep, MemoryTyped, EngineTyped, database, memory
<1>28. ASSUME NEW w \in Slots, recordFinalFailure(w) PROVE TypeOK'
  <2>1. StoreTyped'
    <3> DEFINE s == ex[w].step
               r == RunOf[s]
               st == [t \in Steps |-> IF t = s THEN "FAILED"
                                      ELSE IF RunOf[t] = r /\ stepStatus[t] \in Active THEN "CANCELLED"
                                      ELSE stepStatus[t]]
               o == IF runStatus[r] \in Live THEN "FAILED" ELSE runStatus[r]
    <3>1. s \in Steps /\ r \in Runs
      BY <1>28 DEF recordFinalFailure, ExecTyped
    <3>2. st \in [Steps -> StepStatuses] /\ o \in RunStatuses
      BY <3>1 DEF StoreTyped, StepStatuses, RunStatuses, Terminal
    <3>3. CASE runStatus[r] = "DELETED"
      BY <1>28, <3>3 DEF recordFinalFailure, StoreTyped
    <3>4. CASE runStatus[r] # "DELETED"
      <4>1. SetRun(r, o, st) /\ (dead' = dead \/ dead' = dead \cup {r})
        BY <1>28, <3>4 DEF recordFinalFailure, FinalFailStep
      <4> HIDE DEF st, o, r
      <4> QED
        BY <1>28, <3>1, <3>2, <4>1, SetRunTyped DEF recordFinalFailure, StoreTyped
    <3> QED
      BY <3>3, <3>4
  <2>2. ExecTyped'
    <3> DEFINE k == {t \in StepsOf(RunOf[ex[w].step]) \ {ex[w].step} : stepStatus[t] \in Active}
               e == [ex[w] EXCEPT !.pc = "finish", !.res = "FAILED", !.kill = k]
    <3>1. CASE runStatus[RunOf[ex[w].step]] = "DELETED"
      BY <1>28, <3>1, GotoTyped DEF recordFinalFailure, Pcs, Holding
    <3>2. CASE runStatus[RunOf[ex[w].step]] # "DELETED"
      <4>1. ex' = [ex EXCEPT ![w] = e]
        BY <1>28, <3>2 DEF recordFinalFailure
      <4>2. k \in SUBSET Steps
        BY DEF StepsOf
      <4>3. ex[w] \in Executors /\ ex[w].step \in Steps
        BY <1>28 DEF recordFinalFailure, ExecTyped
      <4> HIDE DEF k
      <4>4. e \in Executors /\ e.pc = "finish" /\ e.res = "FAILED" /\ e.step = ex[w].step
        BY <4>2, <4>3 DEF Executors, Pcs
      <4> HIDE DEF e
      <4> QED
        BY <4>1, <4>3, <4>4, SlotTyped
    <3> QED
      BY <3>1, <3>2
  <2> QED
    BY <1>28, <2>1, <2>2 DEF recordFinalFailure, MemoryTyped, EngineTyped, database, memory
<1>29. ASSUME NEW w \in Slots, completeDirect(w) PROVE TypeOK'
  <2>1. StoreTyped'
    <3>1. ex[w].step \in Steps /\ completeStepTx(ex[w].step)
      BY <1>29 DEF completeDirect, ExecTyped
    <3> QED
      BY <1>29, <3>1, completeStepTyped DEF completeDirect, StoreTyped
  <2>2. ExecTyped'
    <3> DEFINE s == ex[w].step
               o == RunOutcome(s)
               e == [ex[w] EXCEPT !.pc = IF o = None THEN "exit" ELSE "finish",
                                  !.res = IF o = None THEN @ ELSE o]
    <3>1. ex' = [ex EXCEPT ![w] = e]
      BY <1>29 DEF completeDirect
    <3>2. s \in Steps /\ completeStepTx(s) /\ ex[w] \in Executors
      BY <1>29 DEF completeDirect, ExecTyped
    <3>3. o # None => o \in {"SUCCEEDED", "FAILED"}
      BY <3>2, completeStepTyped
    <3> HIDE DEF o
    <3>4. /\ e \in Executors /\ e.step = s
          /\ e.pc = "finish" => e.res \in {"SUCCEEDED", "FAILED"}
      BY <3>2, <3>3 DEF Executors, Pcs
    <3> HIDE DEF e
    <3> QED
      BY <3>1, <3>2, <3>4, SlotTyped
  <2> QED
    BY <1>29, <2>1, <2>2 DEF completeDirect, MemoryTyped, EngineTyped, database, memory
<1>30. ASSUME NEW w \in Slots, FinishRun(w) PROVE TypeOK'
  <2>1. ExecTyped'
    <3> DEFINE cc == CancelContexts(ex[w].kill)
               e == [cc[w] EXCEPT !.pc = "exit", !.kill = {}]
    <3>1. /\ cc \in [Slots -> Executors]
          /\ \A v \in Slots : cc[v].pc = ex[v].pc /\ cc[v].step = ex[v].step /\ cc[v].res = ex[v].res
      BY CancelContextsTyped
    <3>2. ex' = [cc EXCEPT ![w] = e]
      BY <1>30 DEF FinishRun
    <3> HIDE DEF cc
    <3>3. ex[w].step \in Steps
      BY <1>30 DEF FinishRun, ExecTyped
    <3>4. e \in Executors /\ e.pc = "exit" /\ e.step = ex[w].step
      <4>1. cc[w] \in Executors /\ {} \in SUBSET Steps /\ "exit" \in Pcs
        BY <3>1 DEF Pcs
      <4>2. e \in Executors /\ e.pc = "exit" /\ e.step = cc[w].step
        BY <4>1 DEF Executors
      <4> QED
        BY <3>1, <4>2
    <3> HIDE DEF e
    <3> QED
      BY <3>1, <3>2, <3>3, <3>4 DEF ExecTyped
  <2>2. MemoryTyped'
    <3>1. ex[w].res \in Terminal /\ ex[w].kill \in SUBSET Steps
      BY <1>30 DEF FinishRun, ExecTyped, Executors, Terminal
    <3>2. waiters' \in [Runs -> Answers]
      BY <1>30, <3>1, ReleaseTyped DEF FinishRun
    <3>3. haltSteps' \subseteq Steps
      BY <1>30, <3>1 DEF FinishRun, MemoryTyped, Unregistered
    <3> QED
      BY <1>30, <3>2, <3>3 DEF FinishRun, MemoryTyped
  <2> QED
    BY <1>30, <2>1, <2>2 DEF FinishRun, StoreTyped, EngineTyped, database, memory
<1>31. ASSUME NEW w \in Slots, Exit(w) PROVE TypeOK'
  <2>1. ExecTyped'
    BY <1>31, IdleTyped DEF Exit
  <2>2. MemoryTyped'
    BY <1>31 DEF Exit, MemoryTyped
  <2> QED
    BY <1>31, <2>1, <2>2 DEF Exit, StoreTyped, EngineTyped, database, memory
<1>32. ASSUME NEW w \in Slots, NEW res \in {"ok", "err", "canceled", "veto"}, BodyReturns(w, res) PROVE TypeOK'
  <2>1. StoreTyped'
    <3> DEFINE n == IF res = "err" THEN fails[ex[w].step] + 1 ELSE fails[ex[w].step]
    <3>0. ex[w].step \in Steps /\ fails' = [fails EXCEPT ![ex[w].step] = n]
      BY <1>32 DEF BodyReturns, ExecTyped
    <3>1. fails' \in [Steps -> Nat]
      <4>1. fails \in [Steps -> Nat]
        BY DEF StoreTyped
      <4>2. n \in Nat
        BY <3>0, <4>1
      <4> HIDE DEF n
      <4> QED
        BY <3>0, <4>1, <4>2
    <3> QED
      BY <1>32, <3>1 DEF BodyReturns, StoreTyped, database
  <2>2. ExecTyped'
    <3> DEFINE e == [ex[w] EXCEPT !.pc = "afterBody", !.res = res]
    <3>1. ex' = [ex EXCEPT ![w] = e]
      BY <1>32 DEF BodyReturns
    <3>2. ex[w] \in Executors /\ ex[w].step \in Steps
      BY <1>32 DEF BodyReturns, ExecTyped
    <3>3. e \in Executors /\ e.pc = "afterBody" /\ e.step = ex[w].step
      BY <3>2 DEF Executors, Pcs, Holding
    <3> HIDE DEF e
    <3> QED
      BY <3>1, <3>2, <3>3, SlotTyped
  <2>3. EngineTyped'
    BY <1>32, SpendTyped DEF BodyReturns, EngineTyped, Ops
  <2> QED
    BY <1>32, <2>1, <2>2, <2>3 DEF BodyReturns, MemoryTyped, database, memory
<1>33. ASSUME NEW w \in Slots, NEW kind \in {"sleep", "wait", "deadline"}, SuspendStep(w, kind) PROVE TypeOK'
  <2>1. StoreTyped'
    BY <1>33 DEF SuspendStep, StoreTyped, RunStatuses, StepStatuses, Live, Active, Terminal
  <2>2. ExecTyped'
    BY <1>33, GotoTyped DEF SuspendStep, Pcs, Holding
  <2>3. EngineTyped'
    BY <1>33, SpendTyped DEF SuspendStep, EngineTyped, Ops
  <2> QED
    BY <1>33, <2>1, <2>2, <2>3 DEF SuspendStep, MemoryTyped, database, memory
<1>34. ASSUME NEW w \in Slots, WriteFails(w) PROVE TypeOK'
  <2>1. ExecTyped'
    BY <1>34, GotoTyped, IdleTyped DEF WriteFails, Pcs, Holding
  <2>2. EngineTyped'
    BY <1>34, SpendTyped DEF WriteFails, StoreFails, EngineTyped, Ops
  <2> QED
    BY <1>34, <2>1, <2>2 DEF WriteFails, StoreTyped, MemoryTyped, database, memory
<1>35. ASSUME CompleteStep PROVE TypeOK'
  <2>1. StoreTyped'
    <3>1. Head(pending) \in Steps /\ completeStepTx(Head(pending))
      BY <1>35 DEF CompleteStep, MemoryTyped
    <3> QED
      BY <1>35, <3>1, completeStepTyped DEF CompleteStep, StoreTyped
  <2>2. MemoryTyped'
    <3> DEFINE s == Head(pending)
               o == RunOutcome(s)
    <3>1. s \in Steps /\ completeStepTx(s) /\ pending' \in Seq(Steps)
      BY <1>35 DEF CompleteStep, MemoryTyped
    <3>2. o # None => [run |-> RunOf[s], status |-> o] \in Outcomes
      BY <3>1, completeStepTyped DEF Outcomes
    <3>3. finishing' = IF o = None THEN finishing
                       ELSE Append(finishing, [run |-> RunOf[s], status |-> o])
      BY <1>35 DEF CompleteStep
    <3> HIDE DEF o, s
    <3>4. finishing' \in Seq(Outcomes)
      BY <3>2, <3>3 DEF MemoryTyped
    <3> QED
      BY <1>35, <3>1, <3>4 DEF CompleteStep, MemoryTyped
  <2> QED
    BY <1>35, <2>1, <2>2 DEF CompleteStep, ExecTyped, EngineTyped, database, memory
<1>36. ASSUME CompletionFails PROVE TypeOK'
  <2>1. MemoryTyped'
    <3>1. pending' \in Seq(Steps)
      BY <1>36 DEF CompletionFails, MemoryTyped
    <3> QED
      BY <1>36, <3>1 DEF CompletionFails, MemoryTyped
  <2>2. EngineTyped'
    BY <1>36, SpendTyped DEF CompletionFails, EngineTyped, Ops
  <2> QED
    BY <1>36, <2>1, <2>2 DEF CompletionFails, StoreTyped, ExecTyped, database, memory
<1>37. ASSUME afterComplete PROVE TypeOK'
  <2>1. MemoryTyped'
    <3> DEFINE f == Head(finishing)
    <3>1. f \in Outcomes /\ finishing' \in Seq(Outcomes)
      BY <1>37 DEF afterComplete, MemoryTyped
    <3>2. f.status \in Terminal
      BY <3>1 DEF Outcomes, Terminal
    <3>3. waiters' = Release(f.run, f.status)
      BY <1>37 DEF afterComplete
    <3> HIDE DEF f
    <3>4. waiters' \in [Runs -> Answers]
      BY <3>2, <3>3, ReleaseTyped
    <3> QED
      BY <1>37, <3>1, <3>4 DEF afterComplete, MemoryTyped
  <2> QED
    BY <1>37, <2>1 DEF afterComplete, StoreTyped, ExecTyped, EngineTyped, database, memory
<1>38. ASSUME CloseBegin PROVE TypeOK'
  <2>1. EngineTyped'
    BY <1>38, SpendTyped DEF CloseBegin, EngineTyped, Ops
  <2> QED
    BY <1>38, <2>1 DEF CloseBegin, StoreTyped, ExecTyped, MemoryTyped, database, memory
<1>39. ASSUME stopCompleter PROVE TypeOK'
  <2>1. EngineTyped'
    BY <1>39, SpendTyped DEF stopCompleter, EngineTyped, Ops
  <2> QED
    BY <1>39, <2>1 DEF stopCompleter, StoreTyped, ExecTyped, MemoryTyped, database, memory
<1>40. ASSUME completerDone PROVE TypeOK'
  <2>1. EngineTyped'
    BY <1>40 DEF completerDone, EngineTyped
  <2> QED
    BY <1>40, <2>1 DEF completerDone, StoreTyped, ExecTyped, MemoryTyped, database, memory
<1>41. ASSUME InterruptAll PROVE TypeOK'
  <2>1. StoreTyped'
    BY <1>41 DEF InterruptAll, StoreTyped, RunStatuses, StepStatuses, Live, Active, Terminal
  <2>2. EngineTyped'
    BY <1>41, SpendTyped DEF InterruptAll, EngineTyped, Ops
  <2> QED
    BY <1>41, <2>1, <2>2 DEF InterruptAll, ExecTyped, MemoryTyped, database, memory
<1>42. ASSUME CloseRelease PROVE TypeOK'
  <2>1. MemoryTyped'
    BY <1>42 DEF CloseRelease, Answers, Terminal, MemoryTyped
  <2>2. EngineTyped'
    BY <1>42, SpendTyped DEF CloseRelease, EngineTyped, Ops
  <2> QED
    BY <1>42, <2>1, <2>2 DEF CloseRelease, StoreTyped, ExecTyped, database, memory
<1>43. ASSUME Restart PROVE TypeOK'
  <2>1. StoreTyped'
    BY ZenonT(60), <1>43 DEF Restart, recoverInterrupted, Cut, StoreTyped, RunStatuses, StepStatuses, Live, Active, Terminal
  <2>2. ExecTyped'
    <3>1. Idle \in Executors /\ Idle.pc = "idle"
      BY DEF Idle, Executors, Pcs
    <3> QED
      BY <1>43, <3>1 DEF Restart, ExecTyped
  <2>3. MemoryTyped'
    <3>1. /\ cancels' \in [Steps -> Slots \cup {None}] /\ waiters' \in [Runs -> Answers]
          /\ haltSteps' = {} /\ pauseSteps' = {} /\ calls' = {}
      BY <1>43 DEF Restart, Answers
    <3>2. pending' \in Seq(Steps) /\ finishing' \in Seq(Outcomes)
      BY <1>43 DEF Restart
    <3> QED
      BY <3>1, <3>2 DEF MemoryTyped
  <2>4. EngineTyped'
    BY <1>43, SpendTyped DEF Restart, EngineTyped, Ops
  <2> QED
    BY <2>1, <2>2, <2>3, <2>4
<1>44. CASE UNCHANGED vars
  BY <1>44 DEF vars, database, memory, StoreTyped, ExecTyped, MemoryTyped, EngineTyped
<1> QED
  BY <1>1, <1>2, <1>3, <1>4, <1>5, <1>6, <1>7, <1>8, <1>9, <1>10, <1>11, <1>12,
     <1>13, <1>14, <1>15, <1>16, <1>17, <1>18, <1>19, <1>20, <1>21, <1>22, <1>23, <1>24,
     <1>25, <1>26, <1>27, <1>28, <1>29, <1>30, <1>31, <1>32, <1>33, <1>34, <1>35,
     <1>36, <1>37, <1>38, <1>39, <1>40, <1>41, <1>42, <1>43, <1>44
     DEF Next, ClientCall, CallContinues, ExecutorStep, Body, Shutdown

\* Type correctness for every instance of the model: no table, map, queue or
\* executor record of the engine ever leaves the values the code gives it.
THEOREM TypeCorrect == Spec => []TypeOK
<1>1. Init => TypeOK
  <2> SUFFICES ASSUME Init PROVE TypeOK
    OBVIOUS
  <2>1. StoreTyped
    BY DEF Init, StoreTyped, RunStatuses, StepStatuses
  <2>2. ExecTyped
    <3>1. Idle \in Executors /\ Idle.pc = "idle"
      BY DEF Idle, Executors, Pcs
    <3> QED
      BY <3>1 DEF Init, ExecTyped
  <2>3. MemoryTyped
    <3>1. pending \in Seq(Steps) /\ finishing \in Seq(Outcomes)
      <4>1. pending = <<>> /\ finishing = <<>>
        BY DEF Init
      <4> QED
        BY <4>1
    <3> QED
      BY <3>1 DEF Init, MemoryTyped, Answers
  <2>4. EngineTyped
    BY DEF Init, EngineTyped
  <2> QED
    BY <2>1, <2>2, <2>3, <2>4 DEF TypeOK
<1> QED
  BY <1>1, TypeStep, PTL DEF Spec

-----------------------------------------------------------------------------
(* At most one executor answers for a step.                                *)

\* What a step must leave alone for Ownership to survive it.
RowsKept    == \A s \in Steps : stepStatus[s] \in Held => stepStatus'[s] \in Held
HoldersKept == \A w \in Slots : ex'[w].pc \in Holding => ex[w].pc \in Holding /\ ex'[w].step = ex[w].step
PendingKept == pending' \in {pending, <<>>} \/ (pending # <<>> /\ pending' = Tail(pending))
FreshKept   == /\ \A r \in Runs : runStatus'[r] = "NEW" <=> runStatus[r] = "NEW"
               /\ \A s \in Steps : runStatus[RunOf[s]] = "NEW" => stepStatus'[s] = stepStatus[s]
               /\ \A c \in calls' : c.op = "enqueue" => c \in calls

\* Tail keeps the entries and their order.
LEMMA TailEntries ==
    ASSUME NEW q \in Seq(Steps), q # <<>>
    PROVE  /\ DOMAIN Tail(q) = 1 .. Len(q) - 1
           /\ \A i \in DOMAIN Tail(q) : i + 1 \in DOMAIN q /\ Tail(q)[i] = q[i + 1]
OBVIOUS

\* Fewer holders of rows that stay held: still one each.
LEMMA OwnersKept ==
    ASSUME TypeOK, SingleExecution, HeldRows, RowsKept, HoldersKept, PendingKept
    PROVE  SingleExecution' /\ HeldRows'
<1> USE DEF TypeOK
<1>1. pending \in Seq(Steps)
  BY DEF MemoryTyped
<1>2. \A w \in Slots : ex[w].pc \in Holding => ex[w].step \in Steps
  BY DEF ExecTyped, Holding
<1>3. \A i \in DOMAIN pending : pending[i] \in Steps
  BY <1>1
<1>4. /\ \A i \in DOMAIN pending' : \E j \in DOMAIN pending : pending'[i] = pending[j]
      /\ \A i, j \in DOMAIN pending' : pending'[i] = pending'[j] => i = j
  <2>1. CASE pending' = pending
    BY <2>1 DEF SingleExecution
  <2>2. CASE pending' = <<>>
    BY <2>2
  <2>3. CASE pending # <<>> /\ pending' = Tail(pending)
    <3>1. /\ DOMAIN pending' = 1 .. Len(pending) - 1
          /\ \A i \in DOMAIN pending' : i + 1 \in DOMAIN pending /\ pending'[i] = pending[i + 1]
      BY <1>1, <2>3, TailEntries
    <3>2. \A i, j \in DOMAIN pending' : pending'[i] = pending'[j] => i = j
      <4> SUFFICES ASSUME NEW i \in DOMAIN pending', NEW j \in DOMAIN pending',
                          pending'[i] = pending'[j]
                   PROVE  i = j
        OBVIOUS
      <4>1. i + 1 = j + 1
        BY <3>1 DEF SingleExecution
      <4>2. i \in Int /\ j \in Int
        BY <1>1, <3>1
      <4> QED
        BY <4>1, <4>2
    <3> QED
      BY <3>1, <3>2
  <2> QED
    BY <2>1, <2>2, <2>3 DEF PendingKept
<1>5. SingleExecution'
  <2>1. ASSUME NEW v \in Slots, NEW w \in Slots,
               ex'[v].pc \in Holding, ex'[w].pc \in Holding, ex'[v].step = ex'[w].step
        PROVE  v = w
    BY <2>1 DEF HoldersKept, SingleExecution
  <2>2. ASSUME NEW w \in Slots, NEW i \in DOMAIN pending', ex'[w].pc \in Holding
        PROVE  pending'[i] # ex'[w].step
    BY <1>4, <2>2 DEF HoldersKept, SingleExecution
  <2> QED
    BY <1>4, <2>1, <2>2 DEF SingleExecution
<1>6. HeldRows'
  <2>1. ASSUME NEW w \in Slots, ex'[w].pc \in Holding
        PROVE  stepStatus'[ex'[w].step] \in Held
    BY <1>2, <2>1 DEF HoldersKept, RowsKept, HeldRows
  <2>2. ASSUME NEW i \in DOMAIN pending'
        PROVE  stepStatus'[pending'[i]] \in Held
    BY <1>3, <1>4 DEF RowsKept, HeldRows
  <2> QED
    BY <2>1, <2>2 DEF HeldRows
<1> QED
  BY <1>5, <1>6

\* An executor that lets go of its step may put it back: nobody else answers for it.
LEMMA OwnerLetsGo ==
    ASSUME TypeOK, SingleExecution, HeldRows, NEW w \in Slots, ex[w].pc \in Holding,
           ex'[w].pc \notin Holding, HoldersKept, pending' = pending,
           \A s \in Steps \ {ex[w].step} : stepStatus'[s] = stepStatus[s]
    PROVE  SingleExecution' /\ HeldRows'
<1> USE DEF TypeOK
<1>1. \A v \in Slots : ex[v].pc \in Holding => ex[v].step \in Steps
  BY DEF ExecTyped, Holding
<1>2. \A i \in DOMAIN pending : pending[i] \in Steps
  BY DEF MemoryTyped
<1>3. SingleExecution'
  BY DEF HoldersKept, SingleExecution
<1>4. ASSUME NEW v \in Slots, ex'[v].pc \in Holding
      PROVE  stepStatus'[ex'[v].step] \in Held
  <2>1. v # w /\ ex[v].pc \in Holding /\ ex'[v].step = ex[v].step
    BY <1>4 DEF HoldersKept
  <2>2. ex[v].step \in Steps \ {ex[w].step}
    BY <1>1, <2>1 DEF SingleExecution
  <2> QED
    BY <2>1, <2>2 DEF HeldRows
<1>5. ASSUME NEW i \in DOMAIN pending'
      PROVE  stepStatus'[pending'[i]] \in Held
  <2>1. pending[i] \in Steps \ {ex[w].step}
    BY <1>2 DEF SingleExecution
  <2> QED
    BY <2>1 DEF HeldRows
<1> QED
  BY <1>3, <1>4, <1>5 DEF HeldRows

\* Rows that do not exist yet stay absent when no run turns NEW and no call is added.
LEMMA FreshRunsKept ==
    ASSUME TypeOK, FreshRuns, FreshKept
    PROVE  FreshRuns'
<1>1. \A c \in calls : c.run \in Runs
  BY DEF TypeOK, MemoryTyped, Calling
<1>2. ASSUME NEW s \in Steps, runStatus'[RunOf[s]] = "NEW"
      PROVE  stepStatus'[s] = "NEW"
  BY <1>2 DEF FreshKept, FreshRuns
<1>3. ASSUME NEW c \in calls', c.op = "enqueue"
      PROVE  c.steps = {} /\ runStatus'[c.run] = "NEW"
  BY <1>1, <1>3 DEF FreshKept, FreshRuns
<1> QED
  BY <1>2, <1>3 DEF FreshRuns

\* The run r loses its unique key to one that is being enqueued: its row and its
\* active steps become CANCELLED, and the call goes on as Cancel does.
Replaces(r) ==
    /\ \E c \in calls : EnqueueCreate(c)
    /\ r \in Unique /\ runStatus[r] \in Live /\ runStatus'[r] = "CANCELLED"
    /\ \A s \in StepsOf(r) : stepStatus'[s] = IF stepStatus[s] \in Active THEN "CANCELLED" ELSE stepStatus[s]
    /\ \E q \in Unique \ {r} : runStatus'[q] = "QUEUED"

\* What an enqueue does to a run's rows: it inserts them, replaces the run, or
\* leaves them alone; and the calls in progress after it.
LEMMA CreatedRows ==
    ASSUME StoreTyped, MemoryTyped, FreshRuns, NEW c \in calls, EnqueueCreate(c)
    PROVE  /\ c.run \in Runs /\ runStatus[c.run] = "NEW" /\ runStatus'[c.run] = "QUEUED"
           /\ \A s \in StepsOf(c.run) : /\ stepStatus[s] = "NEW"
                                       /\ stepStatus'[s] = IF Deps[s] = {} THEN "QUEUED" ELSE "BLOCKED"
           /\ \A r \in Runs \ {c.run} :
                 \/ runStatus'[r] = runStatus[r] /\ \A s \in StepsOf(r) : stepStatus'[s] = stepStatus[s]
                 \/ Replaces(r)
           /\ \A d \in calls' :
                 \/ d \in calls \ {c}
                 \/ \E r \in Runs : Replaces(r) /\ d = [op |-> "cancel", run |-> r, steps |-> RunningSteps(r)]
<1>1. c.run \in Runs /\ c.op = "enqueue"
  BY DEF EnqueueCreate, MemoryTyped, Calling
<1>2. runStatus[c.run] = "NEW" /\ \A s \in StepsOf(c.run) : stepStatus[s] = "NEW"
  BY <1>1 DEF FreshRuns, StepsOf
<1>3. PICK old \in Holder(c.run) :
        /\ replaceAndInsert(c.run, old)
        /\ calls' = (calls \ {c}) \cup {[op |-> "cancel", run |-> q, steps |-> RunningSteps(q)] : q \in old}
  BY DEF EnqueueCreate
<1>4. \A q \in old : q \in Unique /\ c.run \in Unique /\ q # c.run /\ runStatus[q] \in Live
  BY <1>2 DEF Holder, Live
<1>5. \A q \in Runs : runStatus'[q] = IF q = c.run THEN "QUEUED" ELSE IF q \in old THEN "CANCELLED" ELSE runStatus[q]
  BY <1>3 DEF replaceAndInsert
<1>6. \A s \in Steps : stepStatus'[s] =
        IF RunOf[s] = c.run THEN (IF Deps[s] = {} THEN "QUEUED" ELSE "BLOCKED")
        ELSE IF RunOf[s] \in old /\ stepStatus[s] \in Active THEN "CANCELLED"
        ELSE stepStatus[s]
  BY <1>3 DEF replaceAndInsert
<1>7. \A q \in old : Replaces(q)
  BY <1>1, <1>4, <1>5, <1>6 DEF Replaces, StepsOf
<1>8. \A r \in Runs \ {c.run} : r \notin old =>
        runStatus'[r] = runStatus[r] /\ \A s \in StepsOf(r) : stepStatus'[s] = stepStatus[s]
  BY <1>5, <1>6 DEF StepsOf
<1>9. \A s \in StepsOf(c.run) : stepStatus'[s] = IF Deps[s] = {} THEN "QUEUED" ELSE "BLOCKED"
  BY <1>6 DEF StepsOf
<1>10. \A d \in calls' : \/ d \in calls \ {c}
                        \/ \E r \in Runs : Replaces(r) /\ d = [op |-> "cancel", run |-> r, steps |-> RunningSteps(r)]
  BY <1>3, <1>4, <1>7
<1> QED
  BY <1>1, <1>2, <1>5, <1>7, <1>8, <1>9, <1>10

\* Spending any bound while no run is dead-lettered keeps revival impossible.
LEMMA SpendKeepsNoRevival ==
    ASSUME NoRevival, EngineTyped, NEW op \in Ops, Spend(op), dead' \subseteq dead
    PROVE  NoRevival'
BY DEF NoRevival, EngineTyped, Spend, Ops

\* An executor that moves on takes hold of nothing it did not hold.
LEMMA GotoHolders ==
    ASSUME ExecTyped, NEW w \in Slots, NEW l, Goto(w, l), l \in Holding => ex[w].pc \in Holding
    PROVE  HoldersKept
<1>1. ex[w] \in Executors /\ ex \in [Slots -> Executors]
  BY DEF ExecTyped
<1>2. [ex[w] EXCEPT !.pc = l].pc = l /\ [ex[w] EXCEPT !.pc = l].step = ex[w].step
  BY <1>1 DEF Executors
<1> QED
  BY <1>1, <1>2 DEF Goto, HoldersKept

\* An executor that frees its slot holds nothing.
LEMMA IdleHolders ==
    ASSUME ExecTyped, NEW w \in Slots, ex' = [ex EXCEPT ![w] = Idle]
    PROVE  HoldersKept /\ ex'[w].pc \notin Holding
<1>1. ex \in [Slots -> Executors]
  BY DEF ExecTyped
<1>2. Idle.pc \notin Holding
  BY DEF Idle, Holding
<1> QED
  BY <1>1, <1>2 DEF HoldersKept

\* A step that touches no row, no pending success and no call in progress.
LEMMA QuietStep ==
    ASSUME TypeOK, Ownership, UNCHANGED <<runStatus, dead, stepStatus, pending, calls>>,
           HoldersKept, NoRevival'
    PROVE  Ownership'
<1>1. RowsKept /\ PendingKept /\ FreshKept
  BY DEF RowsKept, PendingKept, FreshKept
<1> QED
  BY <1>1, OwnersKept, FreshRunsKept DEF Ownership

\* A completion's transaction: rows only move towards their end, unblocked ones aside.
LEMMA completeStepKeeps ==
    ASSUME TypeOK, Ownership, NEW s \in Steps, stepStatus[s] \in Held, completeStepTx(s)
    PROVE  /\ RowsKept
           /\ \A r \in Runs : runStatus'[r] = "NEW" <=> runStatus[r] = "NEW"
           /\ \A t \in Steps : runStatus[RunOf[t]] = "NEW" => stepStatus'[t] = stepStatus[t]
<1> DEFINE r == RunOf[s]
           o == RunOutcome(s)
           st == unblockReadyTx(s)
<1>1. StoreTyped /\ FreshRuns /\ r \in Runs
  BY DEF TypeOK, Ownership
<1>2. runStatus[r] # "NEW"
  BY <1>1 DEF FreshRuns, Held, Terminal
<1>3. /\ \A t \in Steps : stepStatus[t] \in Held => st[t] \in Held
      /\ \A t \in Steps : RunOf[t] # r => st[t] = stepStatus[t]
  BY <1>1 DEF unblockReadyTx, StoreTyped, Held, Terminal
<1>4. CASE runTerminal(r)
  <2>1. UpdateStep(s, {"QUEUED", "RUNNING"}, "CANCELLED") /\ UNCHANGED runStatus
    BY <1>4 DEF completeStepTx
  <2> QED
    BY <1>1, <1>2, <2>1 DEF UpdateStep, StoreTyped, RowsKept, Held, Terminal
<1>5. CASE ~runTerminal(r) /\ ~StepDone(s)
  <2>1. UNCHANGED <<stepStatus, runStatus>>
    BY <1>5 DEF completeStepTx
  <2> QED
    BY <2>1 DEF RowsKept
<1>6. CASE ~runTerminal(r) /\ StepDone(s) /\ o = None
  <2>1. stepStatus' = st /\ UNCHANGED runStatus
    BY <1>6 DEF completeStepTx
  <2> HIDE DEF st
  <2> QED
    BY <1>2, <1>3, <2>1 DEF RowsKept
<1>7. CASE ~runTerminal(r) /\ StepDone(s) /\ o # None
  <2>1. SetRun(r, o, st)
    BY <1>7 DEF completeStepTx
  <2>2. o # "NEW"
    BY <1>7 DEF RunOutcome
  <2> HIDE DEF st, o, r
  <2>3. /\ \A q \in Runs : q # r => runStatus'[q] = runStatus[q]
        /\ runStatus'[r] # "NEW"
        /\ \A t \in Steps : stepStatus'[t] = st[t] \/ (RunOf[t] = r /\ stepStatus'[t] = "DELETED")
    BY <1>1, <2>1, <2>2 DEF SetRun, deleteEphemeralRunTx, StoreTyped
  <2> QED
    BY <1>2, <1>3, <2>3 DEF RowsKept, Held
<1> QED
  BY <1>4, <1>5, <1>6, <1>7

\* Every step of the system keeps the ownership of steps.
LEMMA OwnershipStep == TypeOK /\ Ownership /\ [Next]_vars => Ownership'
<1> SUFFICES ASSUME TypeOK, Ownership, [Next]_vars PROVE Ownership'
  OBVIOUS
<1>0. SingleExecution /\ HeldRows /\ FreshRuns /\ NoRevival
  BY DEF Ownership
<1>1. ASSUME NEW r \in Runs, EnqueueRegister(r) PROVE Ownership'
  <2>1. RowsKept /\ HoldersKept /\ PendingKept
    BY <1>1 DEF EnqueueRegister, database, RowsKept, HoldersKept, PendingKept
  <2>2. FreshRuns'
    BY <1>1 DEF EnqueueRegister, database, Ownership, FreshRuns
  <2>3. NoRevival'
    BY <1>1 DEF EnqueueRegister, database, Ownership, NoRevival
  <2> QED
    BY <2>1, <2>2, <2>3, <1>0, OwnersKept DEF Ownership
<1>2. ASSUME NEW r \in Runs, CancelRun(r) PROVE Ownership'
  <2>1. RowsKept
    <3>1. \A s \in Steps : \/ stepStatus'[s] \in {stepStatus[s], "DELETED"}
                        \/ stepStatus'[s] = "CANCELLED"
      BY <1>2 DEF CancelRun, SetRun, deleteEphemeralRunTx, TypeOK, StoreTyped
    <3> QED
      BY <3>1 DEF RowsKept, Held, Terminal
  <2>2. HoldersKept
    BY <1>2 DEF CancelRun, HoldersKept
  <2>3. PendingKept
    BY <1>2 DEF CancelRun, PendingKept
  <2>4. FreshKept
    <3>1. /\ \A q \in Runs : q # r => runStatus'[q] = runStatus[q]
          /\ runStatus'[r] \in {"CANCELLED", "DELETED"} /\ runStatus[r] \in Live
      BY <1>2 DEF CancelRun, SetRun, TypeOK, StoreTyped
    <3>2. \A s \in Steps : RunOf[s] # r => stepStatus'[s] = stepStatus[s]
      BY ZenonT(60), <1>2 DEF CancelRun, SetRun, deleteEphemeralRunTx, TypeOK, StoreTyped
    <3>3. \A c \in calls' : c.op = "enqueue" => c \in calls
      BY <1>2 DEF CancelRun
    <3> QED
      BY <3>1, <3>2, <3>3 DEF FreshKept, Live
  <2>5. NoRevival'
    BY <1>0, <1>2, SpendKeepsNoRevival DEF CancelRun, TypeOK, Ops
  <2> QED
    BY <1>0, <2>1, <2>2, <2>3, <2>4, <2>5, OwnersKept, FreshRunsKept DEF Ownership
<1>3. ASSUME NEW r \in Runs, PauseRun(r) PROVE Ownership'
  <2>1. RowsKept
    BY <1>3 DEF PauseRun, RowsKept, TypeOK, StoreTyped, Held, Terminal
  <2>2. HoldersKept
    BY <1>3 DEF PauseRun, HoldersKept
  <2>3. PendingKept
    BY <1>3 DEF PauseRun, PendingKept
  <2>4. FreshKept
    <3>1. \A q \in Runs : runStatus'[q] = "NEW" <=> runStatus[q] = "NEW"
      BY <1>3 DEF PauseRun, TypeOK, StoreTyped
    <3>2. \A c \in calls' : c.op = "enqueue" => c \in calls
      BY <1>3 DEF PauseRun
    <3> QED
      BY <1>3, <3>1, <3>2 DEF PauseRun, FreshKept
  <2>5. NoRevival'
    BY <1>0, <1>3, SpendKeepsNoRevival DEF PauseRun, TypeOK, Ops
  <2> QED
    BY <1>0, <2>1, <2>2, <2>3, <2>4, <2>5, OwnersKept, FreshRunsKept DEF Ownership
<1>4. ASSUME NEW r \in Runs, ResumeRun(r) PROVE Ownership'
  <2>1. RowsKept
    BY <1>4 DEF ResumeRun, RowsKept, TypeOK, StoreTyped, Held, Terminal
  <2>2. HoldersKept
    BY <1>4 DEF ResumeRun, HoldersKept
  <2>3. PendingKept
    BY <1>4 DEF ResumeRun, memory, PendingKept
  <2>4. FreshKept
    BY <1>4 DEF ResumeRun, memory, FreshKept, TypeOK, StoreTyped, Terminal, Live
  <2>5. NoRevival'
    BY <1>0, <1>4, SpendKeepsNoRevival DEF ResumeRun, TypeOK, Ops
  <2> QED
    BY <1>0, <2>1, <2>2, <2>3, <2>4, <2>5, OwnersKept, FreshRunsKept DEF Ownership
<1>5. ASSUME NEW r \in Runs, RetryDeadLetter(r) PROVE Ownership'
  <2>1. budget["retryDead"] > 0 /\ r \in dead
    BY <1>5 DEF RetryDeadLetter, Spend
  <2>2. budget["retryDead"] = 0 \/ dead = {}
    BY <1>0 DEF NoRevival
  <2>3. FALSE
    BY <2>1, <2>2
  <2> QED
    BY <2>3
<1>6. ASSUME NEW r \in Runs, DismissDeadLetter(r) PROVE Ownership'
  <2>1. RowsKept
    BY <1>6 DEF DismissDeadLetter, RowsKept, TypeOK, StoreTyped, Held, Terminal
  <2>2. HoldersKept
    BY <1>6 DEF DismissDeadLetter, HoldersKept
  <2>3. PendingKept
    BY <1>6 DEF DismissDeadLetter, memory, PendingKept
  <2>4. FreshKept
    BY <1>6 DEF DismissDeadLetter, memory, FreshKept, TypeOK, StoreTyped, Terminal, Live
  <2>5. NoRevival'
    BY <1>0, <1>6, SpendKeepsNoRevival DEF DismissDeadLetter, TypeOK, Ops
  <2> QED
    BY <1>0, <2>1, <2>2, <2>3, <2>4, <2>5, OwnersKept, FreshRunsKept DEF Ownership
<1>7. ASSUME NEW r \in Runs, purgeRunBatch(r) PROVE Ownership'
  <2>1. RowsKept
    BY <1>7 DEF purgeRunBatch, deleteEphemeralRunTx, RowsKept, TypeOK, StoreTyped, Held, Terminal
  <2>2. HoldersKept
    BY <1>7 DEF purgeRunBatch, HoldersKept
  <2>3. PendingKept
    BY <1>7 DEF purgeRunBatch, memory, PendingKept
  <2>4. FreshKept
    BY <1>7 DEF purgeRunBatch, runTerminal, deleteEphemeralRunTx, memory, FreshKept, TypeOK, StoreTyped, Terminal, Live
  <2>5. NoRevival'
    BY <1>0, <1>7, SpendKeepsNoRevival DEF purgeRunBatch, TypeOK, Ops
  <2> QED
    BY <1>0, <2>1, <2>2, <2>3, <2>4, <2>5, OwnersKept, FreshRunsKept DEF Ownership
<1>8. ASSUME NEW c \in calls, EnqueueCreate(c) PROVE Ownership'
  <2>1. StoreTyped /\ MemoryTyped /\ FreshRuns /\ c \in Calling
    BY DEF TypeOK, MemoryTyped, Ownership
  <2>2. /\ c.run \in Runs /\ runStatus[c.run] = "NEW" /\ runStatus'[c.run] = "QUEUED"
        /\ \A s \in StepsOf(c.run) : stepStatus[s] = "NEW"
        /\ \A r \in Runs \ {c.run} :
              \/ runStatus'[r] = runStatus[r] /\ \A s \in StepsOf(r) : stepStatus'[s] = stepStatus[s]
              \/ Replaces(r)
        /\ \A d \in calls' :
              \/ d \in calls \ {c}
              \/ \E r \in Runs : Replaces(r) /\ d = [op |-> "cancel", run |-> r, steps |-> RunningSteps(r)]
    BY <1>8, <2>1, CreatedRows
  <2>3. RowsKept /\ HoldersKept /\ PendingKept
    <3>1. ASSUME NEW s \in Steps, stepStatus[s] \in Held PROVE stepStatus'[s] \in Held
      <4>1. s \in StepsOf(RunOf[s]) /\ RunOf[s] \in Runs \ {c.run}
        BY <2>2, <3>1 DEF StepsOf, Held, Terminal
      <4> QED
        BY <2>2, <3>1, <4>1 DEF Replaces, Held, Terminal
    <3> QED
      BY <1>8, <3>1 DEF EnqueueCreate, RowsKept, HoldersKept, PendingKept
  <2>4. FreshRuns'
    <3>1. ASSUME NEW s \in Steps, runStatus'[RunOf[s]] = "NEW" PROVE stepStatus'[s] = "NEW"
      <4>1. s \in StepsOf(RunOf[s]) /\ RunOf[s] \in Runs \ {c.run}
        BY <2>2, <3>1 DEF StepsOf
      <4>2. ~ Replaces(RunOf[s])
        BY <3>1 DEF Replaces
      <4> QED
        BY <2>1, <2>2, <3>1, <4>1, <4>2 DEF FreshRuns
    <3>2. ASSUME NEW d \in calls', d.op = "enqueue"
          PROVE  d.steps = {} /\ runStatus'[d.run] = "NEW"
      <4>1. d \in calls \ {c}
        BY <2>2, <3>2
      <4>2. d \in Calling /\ d.run \in Runs /\ d.steps = {} /\ runStatus[d.run] = "NEW"
        BY <2>1, <3>2, <4>1 DEF MemoryTyped, Calling, FreshRuns
      <4>3. c.op = d.op /\ c.steps = d.steps
        BY <1>8, <2>1, <3>2, <4>2 DEF EnqueueCreate, FreshRuns
      <4>4. /\ c = [op |-> c.op, run |-> c.run, steps |-> c.steps]
            /\ d = [op |-> d.op, run |-> d.run, steps |-> d.steps]
        BY <2>1, <4>2 DEF Calling
      <4>5. d.run # c.run
        BY <4>1, <4>3, <4>4
      <4>6. ~ Replaces(d.run)
        BY <4>2 DEF Replaces, Live
      <4> QED
        BY <2>2, <4>2, <4>5, <4>6
    <3> QED
      BY <3>1, <3>2 DEF FreshRuns
  <2>5. NoRevival'
    BY <1>8 DEF EnqueueCreate, Ownership, NoRevival
  <2> QED
    BY <2>3, <2>4, <2>5, <1>0, OwnersKept DEF Ownership
<1>9. ASSUME NEW c \in calls, EnqueueFail(c) PROVE Ownership'
  <2>1. RowsKept
    BY <1>9 DEF EnqueueFail, database, RowsKept, TypeOK, StoreTyped, Held, Terminal
  <2>2. HoldersKept
    BY <1>9 DEF EnqueueFail, HoldersKept
  <2>3. PendingKept
    BY <1>9 DEF EnqueueFail, PendingKept
  <2>4. FreshKept
    BY <1>9 DEF EnqueueFail, database, FreshKept, TypeOK, StoreTyped, Terminal, Live
  <2>5. NoRevival'
    <3>1. Spend("storeError") \/ UNCHANGED budget
      BY <1>0, <1>9 DEF EnqueueFail, StoreFails
    <3> QED
      BY <1>0, <1>9, <3>1, SpendKeepsNoRevival DEF EnqueueFail, database, TypeOK, Ops, NoRevival
  <2> QED
    BY <1>0, <2>1, <2>2, <2>3, <2>4, <2>5, OwnersKept, FreshRunsKept DEF Ownership
<1>10. ASSUME NEW c \in calls, interruptLocal(c) PROVE Ownership'
  <2>1. RowsKept
    BY <1>10 DEF interruptLocal, database, RowsKept, TypeOK, StoreTyped, Held, Terminal
  <2>2. HoldersKept
    <3>1. ex' = CancelContexts(c.steps)
      BY <1>10 DEF interruptLocal
    <3> QED
      BY <3>1, CancelContextsTyped DEF TypeOK, HoldersKept
  <2>3. PendingKept
    BY <1>10 DEF interruptLocal, PendingKept
  <2>4. FreshKept
    BY <1>10 DEF interruptLocal, database, FreshKept, TypeOK, StoreTyped, Terminal, Live
  <2>5. NoRevival'
    BY <1>0, <1>10 DEF interruptLocal, database, NoRevival
  <2> QED
    BY <1>0, <2>1, <2>2, <2>3, <2>4, <2>5, OwnersKept, FreshRunsKept DEF Ownership
<1>11. ASSUME NEW c \in calls, PauseMark(c) PROVE Ownership'
  <2>1. RowsKept
    BY <1>11 DEF PauseMark, database, RowsKept, TypeOK, StoreTyped, Held, Terminal
  <2>2. HoldersKept
    <3>1. ex' = CancelContexts(c.steps)
      BY <1>11 DEF PauseMark
    <3> QED
      BY <3>1, CancelContextsTyped DEF TypeOK, HoldersKept
  <2>3. PendingKept
    BY <1>11 DEF PauseMark, PendingKept
  <2>4. FreshKept
    BY <1>11 DEF PauseMark, database, FreshKept, TypeOK, StoreTyped, Terminal, Live
  <2>5. NoRevival'
    BY <1>0, <1>11 DEF PauseMark, database, NoRevival
  <2> QED
    BY <1>0, <2>1, <2>2, <2>3, <2>4, <2>5, OwnersKept, FreshRunsKept DEF Ownership
<1>12. ASSUME DeliverEvent PROVE Ownership'
  <2>1. RowsKept
    BY <1>12 DEF DeliverEvent, RowsKept, TypeOK, StoreTyped, Held, Terminal
  <2>2. HoldersKept
    BY <1>12 DEF DeliverEvent, HoldersKept
  <2>3. PendingKept
    BY <1>12 DEF DeliverEvent, memory, PendingKept
  <2>4. FreshKept
    <3>1. \A s \in Steps : stepStatus'[s] # stepStatus[s] => runStatus[RunOf[s]] \in Live
      BY <1>12 DEF DeliverEvent, TypeOK, StoreTyped
    <3> QED
      BY <1>12, <3>1 DEF DeliverEvent, memory, FreshKept, Live
  <2>5. NoRevival'
    BY <1>0, <1>12, SpendKeepsNoRevival DEF DeliverEvent, TypeOK, Ops
  <2> QED
    BY <1>0, <2>1, <2>2, <2>3, <2>4, <2>5, OwnersKept, FreshRunsKept DEF Ownership
<1>13. ASSUME NEW w \in Slots, NEW s \in Steps, claimQueueTx(w, s) PROVE Ownership'
  <2>1. stepStatus[s] \notin Held /\ runStatus[RunOf[s]] # "NEW"
    BY <1>13 DEF claimQueueTx, Fresh, Held, Terminal, Ownership, FreshRuns
  <2>2. /\ \A t \in Steps : stepStatus'[t] = IF t = s THEN "RUNNING" ELSE stepStatus[t]
        /\ \A r \in Runs : runStatus'[r] = runStatus[r] \/ (r = RunOf[s] /\ runStatus'[r] = "RUNNING")
    BY <1>13 DEF claimQueueTx, Fresh, TypeOK, StoreTyped
  <2>3. /\ \A v \in Slots \ {w} : ex'[v] = ex[v]
        /\ ex'[w].pc = "claimed" /\ ex'[w].step = s /\ ex[w].pc \notin Holding
    BY <1>13 DEF claimQueueTx, Fresh, TypeOK, ExecTyped, Idle, Holding
  <2>4. pending' = pending /\ calls' = calls
    BY <1>13 DEF claimQueueTx, Fresh, memory
  <2>5. /\ \A v \in Slots : ex[v].pc \in Holding => ex[v].step # s
        /\ \A i \in DOMAIN pending : pending[i] # s
    BY <2>1 DEF Ownership, HeldRows
  <2>6. SingleExecution'
    <3>1. ASSUME NEW u \in Slots, NEW v \in Slots,
                 ex'[u].pc \in Holding, ex'[v].pc \in Holding, ex'[u].step = ex'[v].step
          PROVE  u = v
      BY <2>3, <2>5, <3>1 DEF Ownership, SingleExecution
    <3>2. ASSUME NEW v \in Slots, NEW i \in DOMAIN pending', ex'[v].pc \in Holding
          PROVE  pending'[i] # ex'[v].step
      BY <2>3, <2>4, <2>5, <3>2 DEF Ownership, SingleExecution
    <3>3. \A i, j \in DOMAIN pending' : pending'[i] = pending'[j] => i = j
      BY <2>4 DEF Ownership, SingleExecution
    <3> QED
      BY <3>1, <3>2, <3>3 DEF SingleExecution
  <2>7. HeldRows'
    <3>1. ASSUME NEW v \in Slots, ex'[v].pc \in Holding PROVE stepStatus'[ex'[v].step] \in Held
      <4>1. ex'[v].step \in Steps /\ (v = w \/ (ex[v].pc \in Holding /\ ex'[v].step = ex[v].step))
        BY <2>3, <3>1 DEF TypeOK, ExecTyped, Holding
      <4> QED
        BY <2>2, <2>3, <4>1 DEF Ownership, HeldRows, Held
    <3>2. ASSUME NEW i \in DOMAIN pending' PROVE stepStatus'[pending'[i]] \in Held
      <4>1. pending[i] \in Steps /\ pending'[i] = pending[i]
        BY <2>4 DEF TypeOK, MemoryTyped
      <4> QED
        BY <2>2, <2>4, <4>1 DEF Ownership, HeldRows, Held
    <3> QED
      BY <3>1, <3>2 DEF HeldRows
  <2>8. FreshKept
    BY <2>1, <2>2, <2>4 DEF FreshKept
  <2>9. NoRevival'
    BY <1>13 DEF claimQueueTx, Fresh, Ownership, NoRevival
  <2> QED
    BY <2>6, <2>7, <2>8, <2>9, <1>0, FreshRunsKept DEF Ownership
<1>14. ASSUME RegisterTask PROVE Ownership'
  <2>1. HoldersKept
    BY <1>14 DEF RegisterTask, HoldersKept
  <2>2. NoRevival'
    BY <1>14 DEF RegisterTask, database, Ownership, NoRevival
  <2> QED
    BY <1>14, <2>1, <2>2, QuietStep DEF RegisterTask, database, memory
<1>15. ASSUME NEW w \in Slots, ParkStep(w) PROVE Ownership'
  <2>1. ex[w].pc \in Holding /\ ex[w].step \in Steps /\ UNCHANGED <<runStatus, dead, pending, calls>>
    BY <1>15 DEF ParkStep, memory, Holding, TypeOK, ExecTyped
  <2>2. HoldersKept /\ ex'[w].pc \notin Holding
    BY <1>15, <2>1, IdleHolders DEF ParkStep, TypeOK, ExecTyped, Executors, Goto, Holding
  <2>3. \A s \in Steps \ {ex[w].step} : stepStatus'[s] = stepStatus[s]
    BY <1>15 DEF ParkStep, Refund, UpdateStep, TypeOK, StoreTyped
  <2>4. FreshKept
    <3>1. stepStatus[ex[w].step] # "NEW"
      BY <1>0, <2>1 DEF HeldRows, Held, Terminal
    <3>2. runStatus[RunOf[ex[w].step]] # "NEW"
      BY <1>0, <2>1, <3>1 DEF FreshRuns
    <3> QED
      BY <2>1, <2>3, <3>2 DEF FreshKept
  <2>5. NoRevival'
    BY <1>0, <1>15 DEF ParkStep, NoRevival
  <2> QED
    BY <1>0, <2>1, <2>2, <2>3, <2>4, <2>5, OwnerLetsGo, FreshRunsKept DEF Ownership
<1>16. ASSUME NEW w \in Slots, Register(w) PROVE Ownership'
  <2>1. HoldersKept
    BY <1>16, GotoHolders DEF Register, TypeOK, Holding
  <2>2. NoRevival'
    BY <1>16 DEF Register, database, Ownership, NoRevival
  <2> QED
    BY <1>16, <2>1, <2>2, QuietStep DEF Register, database, memory
<1>17. ASSUME NEW w \in Slots, HaltCheck(w) PROVE Ownership'
  <2>1. HoldersKept
    BY <1>17, GotoHolders DEF HaltCheck, TypeOK, Holding
  <2>2. NoRevival'
    BY <1>17 DEF HaltCheck, database, Ownership, NoRevival
  <2> QED
    BY <1>17, <2>1, <2>2, QuietStep DEF HaltCheck, database, memory
<1>18. ASSUME NEW w \in Slots, PauseCheck(w) PROVE Ownership'
  <2>1. HoldersKept
    BY <1>18, GotoHolders DEF PauseCheck, consumePause, TypeOK, Holding
  <2>2. NoRevival'
    BY <1>18 DEF PauseCheck, consumePause, database, Ownership, NoRevival
  <2> QED
    BY <1>18, <2>1, <2>2, QuietStep DEF PauseCheck, consumePause, database, memory
<1>19. ASSUME NEW w \in Slots, SuspendCheck(w) PROVE Ownership'
  <2>1. HoldersKept
    BY <1>19, GotoHolders DEF SuspendCheck, TypeOK, Holding
  <2>2. NoRevival'
    BY <1>19 DEF SuspendCheck, database, Ownership, NoRevival
  <2> QED
    BY <1>19, <2>1, <2>2, QuietStep DEF SuspendCheck, database, memory
<1>20. ASSUME NEW w \in Slots, AfterBody(w) PROVE Ownership'
  <2>1. HoldersKept
    BY <1>20, GotoHolders DEF AfterBody, consumePause, TypeOK, Holding
  <2>2. NoRevival'
    BY <1>20 DEF AfterBody, consumePause, database, Ownership, NoRevival
  <2> QED
    BY <1>20, <2>1, <2>2, QuietStep DEF AfterBody, consumePause, database, memory
<1>21. ASSUME NEW w \in Slots, PauseTerminal(w) PROVE Ownership'
  <2>1. HoldersKept
    BY <1>21, GotoHolders DEF PauseTerminal, TypeOK, Holding
  <2>2. NoRevival'
    BY <1>21 DEF PauseTerminal, database, Ownership, NoRevival
  <2> QED
    BY <1>21, <2>1, <2>2, QuietStep DEF PauseTerminal, database, memory
<1>22. ASSUME NEW w \in Slots, Decide(w) PROVE Ownership'
  <2>1. HoldersKept
    BY <1>22, GotoHolders DEF Decide, Decision, TypeOK, Holding
  <2>2. NoRevival'
    BY <1>22 DEF Decide, database, Ownership, NoRevival
  <2> QED
    BY <1>22, <2>1, <2>2, QuietStep DEF Decide, database, memory
<1>23. ASSUME NEW w \in Slots, ClosingCheck(w) PROVE Ownership'
  <2>1. HoldersKept
    BY <1>23, GotoHolders DEF ClosingCheck, AttemptsLeft, TypeOK, Holding
  <2>2. NoRevival'
    BY <1>23 DEF ClosingCheck, database, Ownership, NoRevival
  <2> QED
    BY <1>23, <2>1, <2>2, QuietStep DEF ClosingCheck, database, memory
<1>24. ASSUME NEW w \in Slots, submitCompletion(w) PROVE Ownership'
  <2>1. /\ ex[w].pc \in Holding /\ ex[w].step \in Steps /\ pending \in Seq(Steps)
        /\ UNCHANGED <<runStatus, dead, stepStatus, calls, budget>>
    BY <1>24 DEF submitCompletion, database, Holding, TypeOK, ExecTyped, MemoryTyped
  <2>2. HoldersKept
    BY <1>24, <2>1, GotoHolders DEF submitCompletion, TypeOK
  <2>3. FreshKept /\ NoRevival'
    BY <2>1 DEF FreshKept, NoRevival, Ownership
  <2>4. CASE pending' = pending
    <3>1. RowsKept /\ PendingKept
      BY <2>1, <2>4 DEF RowsKept, PendingKept
    <3> QED
      BY <2>2, <2>3, <3>1, <1>0, OwnersKept, FreshRunsKept DEF Ownership
  <2>5. CASE pending' = Append(pending, ex[w].step) /\ Goto(w, "exit")
    <3> DEFINE n == Len(pending) + 1
    <3>1. /\ DOMAIN pending' = 1 .. n /\ DOMAIN pending = 1 .. Len(pending) /\ Len(pending) \in Nat
          /\ \A i \in DOMAIN pending : pending'[i] = pending[i]
          /\ pending'[n] = ex[w].step
      BY <2>1, <2>5
    <3>2. \A i \in DOMAIN pending' : i \in DOMAIN pending \/ i = n
      BY <3>1
    <3> HIDE DEF n
    <3>3. ex'[w].pc \notin Holding
      BY <2>5 DEF Goto, Holding, TypeOK, ExecTyped, Executors
    <3>4. SingleExecution'
      <4>1. ASSUME NEW u \in Slots, NEW v \in Slots,
                   ex'[u].pc \in Holding, ex'[v].pc \in Holding, ex'[u].step = ex'[v].step
            PROVE  u = v
        BY <2>2, <4>1 DEF HoldersKept, Ownership, SingleExecution
      <4>2. ASSUME NEW v \in Slots, NEW i \in DOMAIN pending', ex'[v].pc \in Holding
            PROVE  pending'[i] # ex'[v].step
        BY <2>1, <2>2, <3>1, <3>2, <3>3, <4>2 DEF HoldersKept, Ownership, SingleExecution
      <4>3. ASSUME NEW i \in DOMAIN pending', NEW j \in DOMAIN pending', pending'[i] = pending'[j]
            PROVE  i = j
        BY <2>1, <3>1, <3>2, <4>3 DEF Ownership, SingleExecution
      <4> QED
        BY <4>1, <4>2, <4>3 DEF SingleExecution
    <3>5. HeldRows'
      <4>1. ASSUME NEW v \in Slots, ex'[v].pc \in Holding PROVE stepStatus'[ex'[v].step] \in Held
        BY <2>1, <2>2, <4>1 DEF HoldersKept, Ownership, HeldRows
      <4>2. ASSUME NEW i \in DOMAIN pending' PROVE stepStatus'[pending'[i]] \in Held
        BY <2>1, <3>1, <3>2 DEF Ownership, HeldRows
      <4> QED
        BY <4>1, <4>2 DEF HeldRows
    <3> QED
      BY <2>3, <3>4, <3>5, <1>0, FreshRunsKept DEF Ownership
  <2> QED
    BY <1>24, <2>4, <2>5 DEF submitCompletion
<1>25. ASSUME NEW w \in Slots, WriteStepCancelled(w) PROVE Ownership'
  <2>1. RowsKept
    BY <1>25 DEF WriteStepCancelled, StepCancelled, UpdateStep, RowsKept, TypeOK, StoreTyped, Held, Terminal
  <2>2. HoldersKept
    BY <1>25, GotoHolders DEF WriteStepCancelled, TypeOK, Holding
  <2>3. PendingKept
    BY <1>25 DEF WriteStepCancelled, memory, PendingKept
  <2>4. FreshKept
    <3>1. \A s \in Steps : stepStatus'[s] # stepStatus[s] => stepStatus[s] # "NEW"
      BY <1>25 DEF WriteStepCancelled, StepCancelled, UpdateStep, TypeOK, StoreTyped
    <3> QED
      BY <1>25, <3>1 DEF WriteStepCancelled, memory, FreshKept, Ownership, FreshRuns
  <2>5. NoRevival'
    BY <1>0, <1>25 DEF WriteStepCancelled, NoRevival
  <2> QED
    BY <1>0, <2>1, <2>2, <2>3, <2>4, <2>5, OwnersKept, FreshRunsKept DEF Ownership
<1>26. ASSUME NEW w \in Slots, RequeuePausedStep(w) PROVE Ownership'
  <2>1. ex[w].pc \in Holding /\ ex[w].step \in Steps /\ UNCHANGED <<runStatus, dead, pending, calls>>
    BY <1>26 DEF RequeuePausedStep, memory, Holding, TypeOK, ExecTyped
  <2>2. HoldersKept /\ ex'[w].pc \notin Holding
    BY ZenonT(60), <1>26, <2>1, GotoHolders DEF RequeuePausedStep, TypeOK, ExecTyped, Executors, Goto, Holding
  <2>3. \A s \in Steps \ {ex[w].step} : stepStatus'[s] = stepStatus[s]
    BY <1>26 DEF RequeuePausedStep, Refund, UpdateStep, TypeOK, StoreTyped
  <2>4. FreshKept
    <3>1. stepStatus[ex[w].step] # "NEW"
      BY <1>0, <2>1 DEF HeldRows, Held, Terminal
    <3>2. runStatus[RunOf[ex[w].step]] # "NEW"
      BY <1>0, <2>1, <3>1 DEF FreshRuns
    <3> QED
      BY <2>1, <2>3, <3>2 DEF FreshKept
  <2>5. NoRevival'
    BY <1>0, <1>26 DEF RequeuePausedStep, NoRevival
  <2> QED
    BY <1>0, <2>1, <2>2, <2>3, <2>4, <2>5, OwnerLetsGo, FreshRunsKept DEF Ownership
<1>27. ASSUME NEW w \in Slots, RetryStep(w) PROVE Ownership'
  <2>1. ex[w].pc \in Holding /\ ex[w].step \in Steps /\ UNCHANGED <<runStatus, dead, pending, calls>>
    BY <1>27 DEF RetryStep, memory, Holding, TypeOK, ExecTyped
  <2>2. HoldersKept /\ ex'[w].pc \notin Holding
    BY ZenonT(60), <1>27, <2>1, GotoHolders DEF RetryStep, TypeOK, ExecTyped, Executors, Goto, Holding
  <2>3. \A s \in Steps \ {ex[w].step} : stepStatus'[s] = stepStatus[s]
    BY <1>27 DEF RetryStep, UpdateStep, TypeOK, StoreTyped
  <2>4. FreshKept
    <3>1. stepStatus[ex[w].step] # "NEW"
      BY <1>0, <2>1 DEF HeldRows, Held, Terminal
    <3>2. runStatus[RunOf[ex[w].step]] # "NEW"
      BY <1>0, <2>1, <3>1 DEF FreshRuns
    <3> QED
      BY <2>1, <2>3, <3>2 DEF FreshKept
  <2>5. NoRevival'
    BY <1>0, <1>27 DEF RetryStep, NoRevival
  <2> QED
    BY <1>0, <2>1, <2>2, <2>3, <2>4, <2>5, OwnerLetsGo, FreshRunsKept DEF Ownership
<1>28. ASSUME NEW w \in Slots, recordFinalFailure(w) PROVE Ownership'
  <2> DEFINE s == ex[w].step
             r == RunOf[s]
  <2>1. s \in Steps /\ r \in Runs /\ stepStatus[s] \in Held /\ ex[w].pc \in Holding
    BY <1>28 DEF recordFinalFailure, TypeOK, ExecTyped, Holding, Ownership, HeldRows
  <2>2. runStatus[r] # "NEW"
    BY <2>1 DEF Ownership, FreshRuns, Held, Terminal
  <2>3. HoldersKept
    <3> DEFINE k == {t \in StepsOf(r) \ {s} : stepStatus[t] \in Active}
               e == [ex[w] EXCEPT !.pc = "finish", !.res = "FAILED", !.kill = k]
    <3>1. CASE Goto(w, "exit")
      BY <2>1, <3>1, GotoHolders DEF TypeOK
    <3>2. CASE ex' = [ex EXCEPT ![w] = e]
      <4>1. ex[w] \in Executors /\ ex \in [Slots -> Executors]
        BY DEF TypeOK, ExecTyped
      <4>2. e.pc = "finish"
        BY <4>1 DEF Executors
      <4> HIDE DEF e
      <4> QED
        BY <3>2, <4>1, <4>2 DEF HoldersKept, Holding
    <3> QED
      BY ZenonT(60), <1>28, <3>1, <3>2 DEF recordFinalFailure
  <2>4. /\ \A t \in Steps : \/ stepStatus'[t] = stepStatus[t]
                            \/ RunOf[t] = r /\ stepStatus'[t] \in {"FAILED", "CANCELLED", "DELETED"}
        /\ \A q \in Runs : runStatus'[q] = runStatus[q] \/ (q = r /\ runStatus'[q] \in {"FAILED", "DELETED"})
        /\ dead' \subseteq dead \cup DeadLetter
    <3>1. CASE runStatus[r] = "DELETED"
      BY <1>28, <3>1 DEF recordFinalFailure
    <3>2. CASE runStatus[r] # "DELETED"
      <4>1. FinalFailStep(s)
        BY <1>28, <3>2 DEF recordFinalFailure
      <4> HIDE DEF s
      <4> QED
        BY <2>1, <4>1 DEF FinalFailStep, SetRun, deleteEphemeralRunTx, TypeOK, StoreTyped
    <3> QED
      BY <3>1, <3>2
  <2>5. RowsKept
    BY <2>4 DEF RowsKept, Held, Terminal
  <2>6. FreshKept /\ PendingKept
    BY <1>28, <2>2, <2>4 DEF recordFinalFailure, memory, FreshKept, PendingKept
  <2>7. NoRevival'
    BY <1>28, <2>4 DEF recordFinalFailure, Ownership, NoRevival
  <2> QED
    BY <2>3, <2>5, <2>6, <2>7, <1>0, OwnersKept, FreshRunsKept DEF Ownership
<1>29. ASSUME NEW w \in Slots, completeDirect(w) PROVE Ownership'
  <2> DEFINE s == ex[w].step
             o == RunOutcome(s)
  <2>1. s \in Steps /\ stepStatus[s] \in Held /\ ex[w].pc \in Holding
    BY <1>29 DEF completeDirect, TypeOK, ExecTyped, Holding, Ownership, HeldRows
  <2>2. completeStepTx(s)
    BY <1>29 DEF completeDirect
  <2>3. HoldersKept
    <3> DEFINE e == [ex[w] EXCEPT !.pc = IF o = None THEN "exit" ELSE "finish",
                                  !.res = IF o = None THEN @ ELSE o]
    <3>1. ex' = [ex EXCEPT ![w] = e]
      BY <1>29 DEF completeDirect
    <3>2. ex[w] \in Executors /\ ex \in [Slots -> Executors]
      BY DEF TypeOK, ExecTyped
    <3> HIDE DEF o
    <3>3. e.pc \in {"exit", "finish"}
      BY <3>2 DEF Executors
    <3> HIDE DEF e
    <3> QED
      BY <3>1, <3>2, <3>3 DEF HoldersKept, Holding
  <2>4. RowsKept /\ FreshKept /\ PendingKept
    <3>1. PendingKept /\ calls' = calls
      BY <1>29 DEF completeDirect, memory, PendingKept
    <3> QED
      BY <2>1, <2>2, <3>1, completeStepKeeps DEF FreshKept
  <2>5. NoRevival'
    BY <1>29 DEF completeDirect, Ownership, NoRevival
  <2> QED
    BY <2>3, <2>4, <2>5, <1>0, OwnersKept, FreshRunsKept DEF Ownership
<1>30. ASSUME NEW w \in Slots, FinishRun(w) PROVE Ownership'
  <2>1. HoldersKept
    <3> DEFINE cc == CancelContexts(ex[w].kill)
               e == [cc[w] EXCEPT !.pc = "exit", !.kill = {}]
    <3>1. /\ cc \in [Slots -> Executors]
          /\ \A v \in Slots : cc[v].pc = ex[v].pc /\ cc[v].step = ex[v].step
      BY CancelContextsTyped DEF TypeOK
    <3>2. ex' = [cc EXCEPT ![w] = e]
      BY <1>30 DEF FinishRun
    <3> HIDE DEF cc
    <3>3. e.pc = "exit"
      <4>1. cc[w] \in Executors
        BY <3>1
      <4> QED
        BY <4>1 DEF Executors
    <3> HIDE DEF e
    <3> QED
      BY <3>1, <3>2, <3>3 DEF HoldersKept, Holding
  <2>2. NoRevival'
    BY <1>30 DEF FinishRun, database, Ownership, NoRevival
  <2> QED
    BY <1>30, <2>1, <2>2, QuietStep DEF FinishRun, database, memory
<1>31. ASSUME NEW w \in Slots, Exit(w) PROVE Ownership'
  <2>1. HoldersKept
    BY <1>31, IdleHolders DEF Exit, TypeOK
  <2>2. NoRevival'
    BY <1>31 DEF Exit, database, Ownership, NoRevival
  <2> QED
    BY <1>31, <2>1, <2>2, QuietStep DEF Exit, database, memory
<1>32. ASSUME NEW w \in Slots, NEW res \in {"ok", "err", "canceled", "veto"}, BodyReturns(w, res) PROVE Ownership'
  <2>1. HoldersKept
    <3>1. ex[w] \in Executors /\ ex \in [Slots -> Executors] /\ ex[w].pc \in Holding
      BY <1>32 DEF BodyReturns, TypeOK, ExecTyped, Holding
    <3>2. [ex[w] EXCEPT !.pc = "afterBody", !.res = res].step = ex[w].step
      BY <3>1 DEF Executors
    <3> QED
      BY <1>32, <3>1, <3>2 DEF BodyReturns, HoldersKept
  <2>2. NoRevival'
    <3>1. Spend("veto") \/ UNCHANGED budget
      BY <1>32 DEF BodyReturns
    <3> QED
      BY <1>32, <3>1, SpendKeepsNoRevival DEF BodyReturns, database, TypeOK, Ops, Ownership, NoRevival
  <2> QED
    BY <1>32, <2>1, <2>2, QuietStep DEF BodyReturns, database, memory
<1>33. ASSUME NEW w \in Slots, NEW kind \in {"sleep", "wait", "deadline"}, SuspendStep(w, kind) PROVE Ownership'
  <2>1. ex[w].pc \in Holding /\ ex[w].step \in Steps /\ UNCHANGED <<runStatus, dead, pending, calls>>
    BY <1>33 DEF SuspendStep, memory, Holding, TypeOK, ExecTyped
  <2>2. HoldersKept /\ ex'[w].pc \notin Holding
    BY ZenonT(60), <1>33, <2>1, GotoHolders DEF SuspendStep, TypeOK, ExecTyped, Executors, Goto, Holding
  <2>3. \A s \in Steps \ {ex[w].step} : stepStatus'[s] = stepStatus[s]
    BY <1>33 DEF SuspendStep, TypeOK, StoreTyped
  <2>4. FreshKept
    <3>1. stepStatus[ex[w].step] # "NEW"
      BY <1>0, <2>1 DEF HeldRows, Held, Terminal
    <3>2. runStatus[RunOf[ex[w].step]] # "NEW"
      BY <1>0, <2>1, <3>1 DEF FreshRuns
    <3> QED
      BY <2>1, <2>3, <3>2 DEF FreshKept
  <2>5. NoRevival'
    BY <1>0, <1>33, <2>1, SpendKeepsNoRevival DEF SuspendStep, TypeOK, Ops
  <2> QED
    BY <1>0, <2>1, <2>2, <2>3, <2>4, <2>5, OwnerLetsGo, FreshRunsKept DEF Ownership
<1>34. ASSUME NEW w \in Slots, WriteFails(w) PROVE Ownership'
  <2>1. HoldersKept
    BY <1>34, GotoHolders, IdleHolders DEF WriteFails, TypeOK, Holding
  <2>2. NoRevival'
    <3>1. Spend("storeError") \/ UNCHANGED budget
      BY <1>34 DEF WriteFails, StoreFails
    <3> QED
      BY <1>34, <3>1, SpendKeepsNoRevival DEF WriteFails, database, TypeOK, Ops, Ownership, NoRevival
  <2> QED
    BY <1>34, <2>1, <2>2, QuietStep DEF WriteFails, database, memory
<1>35. ASSUME CompleteStep PROVE Ownership'
  <2> DEFINE s == Head(pending)
  <2>1. s \in Steps /\ stepStatus[s] \in Held /\ completeStepTx(s)
    <3>1. pending \in Seq(Steps) /\ pending # <<>> /\ completeStepTx(s)
      BY <1>35 DEF CompleteStep, TypeOK, MemoryTyped
    <3>2. 1 \in DOMAIN pending /\ s = pending[1] /\ s \in Steps
      BY <3>1
    <3> QED
      BY <3>1, <3>2 DEF Ownership, HeldRows
  <2>2. HoldersKept /\ PendingKept /\ calls' = calls
    BY <1>35 DEF CompleteStep, HoldersKept, PendingKept
  <2>3. RowsKept /\ FreshKept
    BY <2>1, <2>2, completeStepKeeps DEF FreshKept
  <2>4. NoRevival'
    BY <1>35 DEF CompleteStep, Ownership, NoRevival
  <2> QED
    BY <2>2, <2>3, <2>4, <1>0, OwnersKept, FreshRunsKept DEF Ownership
<1>36. ASSUME CompletionFails PROVE Ownership'
  <2>1. RowsKept
    BY <1>36 DEF CompletionFails, database, RowsKept, TypeOK, StoreTyped, Held, Terminal
  <2>2. HoldersKept
    BY <1>36 DEF CompletionFails, HoldersKept
  <2>3. PendingKept
    BY <1>36 DEF CompletionFails, PendingKept
  <2>4. FreshKept
    BY <1>36 DEF CompletionFails, database, FreshKept, TypeOK, StoreTyped, Terminal, Live
  <2>5. NoRevival'
    BY <1>0, <1>36, SpendKeepsNoRevival DEF CompletionFails, database, TypeOK, Ops
  <2> QED
    BY <1>0, <2>1, <2>2, <2>3, <2>4, <2>5, OwnersKept, FreshRunsKept DEF Ownership
<1>37. ASSUME afterComplete PROVE Ownership'
  <2>1. HoldersKept
    BY <1>37 DEF afterComplete, HoldersKept
  <2>2. NoRevival'
    BY <1>37 DEF afterComplete, database, Ownership, NoRevival
  <2> QED
    BY <1>37, <2>1, <2>2, QuietStep DEF afterComplete, database, memory
<1>38. ASSUME CloseBegin PROVE Ownership'
  <2>1. HoldersKept
    BY <1>38 DEF CloseBegin, HoldersKept
  <2>2. NoRevival'
    BY <1>38, SpendKeepsNoRevival DEF CloseBegin, database, Ownership, TypeOK, Ops
  <2> QED
    BY <1>38, <2>1, <2>2, QuietStep DEF CloseBegin, database, memory
<1>39. ASSUME stopCompleter PROVE Ownership'
  <2>1. HoldersKept
    BY <1>39 DEF stopCompleter, HoldersKept
  <2>2. NoRevival'
    <3>1. Spend("timeout") \/ UNCHANGED budget
      BY <1>39 DEF stopCompleter
    <3> QED
      BY <1>39, <3>1, SpendKeepsNoRevival DEF stopCompleter, database, TypeOK, Ops, Ownership, NoRevival
  <2> QED
    BY <1>39, <2>1, <2>2, QuietStep DEF stopCompleter, database, memory
<1>40. ASSUME completerDone PROVE Ownership'
  <2>1. HoldersKept
    BY <1>40 DEF completerDone, HoldersKept
  <2>2. NoRevival'
    BY <1>40 DEF completerDone, database, Ownership, NoRevival
  <2> QED
    BY <1>40, <2>1, <2>2, QuietStep DEF completerDone, database, memory
<1>41. ASSUME InterruptAll PROVE Ownership'
  <2>1. RowsKept
    BY <1>41 DEF InterruptAll, RowsKept, TypeOK, StoreTyped, Held, Terminal
  <2>2. HoldersKept
    BY <1>41 DEF InterruptAll, HoldersKept
  <2>3. PendingKept
    BY <1>41 DEF InterruptAll, memory, PendingKept
  <2>4. FreshKept
    BY <1>0, <1>41 DEF InterruptAll, memory, FreshKept, FreshRuns, TypeOK, StoreTyped
  <2>5. NoRevival'
    BY <1>0, <1>41 DEF InterruptAll, NoRevival
  <2> QED
    BY <1>0, <2>1, <2>2, <2>3, <2>4, <2>5, OwnersKept, FreshRunsKept DEF Ownership
<1>42. ASSUME CloseRelease PROVE Ownership'
  <2>1. HoldersKept
    BY <1>42 DEF CloseRelease, HoldersKept
  <2>2. NoRevival'
    BY <1>42 DEF CloseRelease, database, Ownership, NoRevival
  <2> QED
    BY <1>42, <2>1, <2>2, QuietStep DEF CloseRelease, database, memory
<1>43. ASSUME Restart PROVE Ownership'
  <2>1. /\ \A w \in Slots : ex'[w].pc \notin Holding
        /\ pending' = <<>> /\ calls' = {}
    BY <1>43 DEF Restart, Idle, Holding
  <2>2. SingleExecution' /\ HeldRows'
    BY <2>1 DEF SingleExecution, HeldRows
  <2>3. FreshKept
    <3>1. PICK keep \in BootModes : recoverInterrupted(keep)
      BY <1>43 DEF Restart
    <3>2. \A r \in Runs : runStatus'[r] = "NEW" <=> runStatus[r] = "NEW"
      BY <3>1 DEF recoverInterrupted, Cut, TypeOK, StoreTyped
    <3>3. \A s \in Steps : stepStatus[s] = "NEW" /\ runStatus[RunOf[s]] = "NEW" => stepStatus'[s] = "NEW"
      BY <3>1 DEF recoverInterrupted, Cut, TypeOK, StoreTyped
    <3> QED
      BY <2>1, <3>2, <3>3 DEF FreshKept, Ownership, FreshRuns
  <2>4. NoRevival'
    BY <1>43, SpendKeepsNoRevival DEF Restart, TypeOK, Ops, Ownership
  <2> QED
    BY <2>2, <2>3, <2>4, <1>0, FreshRunsKept DEF Ownership
<1>44. CASE UNCHANGED vars
  <2>1. HoldersKept /\ NoRevival'
    BY <1>0, <1>44 DEF vars, database, HoldersKept, NoRevival
  <2> QED
    BY <1>44, <2>1, QuietStep DEF vars, database, memory
<1> QED
  BY <1>1, <1>2, <1>3, <1>4, <1>5, <1>6, <1>7, <1>8, <1>9, <1>10, <1>11, <1>12,
     <1>13, <1>14, <1>15, <1>16, <1>17, <1>18, <1>19, <1>20, <1>21, <1>22, <1>23, <1>24,
     <1>25, <1>26, <1>27, <1>28, <1>29, <1>30, <1>31, <1>32, <1>33, <1>34, <1>35,
     <1>36, <1>37, <1>38, <1>39, <1>40, <1>41, <1>42, <1>43, <1>44
     DEF Next, ClientCall, CallContinues, ExecutorStep, Body, Shutdown

\* One owner per step, for every instance: as long as no dead-lettered run is
\* revived under the executors of its failed attempt, two executors never run or
\* answer for the same step, and never one beside a success in the completer.
THEOREM OneOwner ==
    ASSUME Budget["retryDead"] = 0 \/ DeadLetter = {}
    PROVE  Spec => []SingleExecution
<1>1. Init => Ownership
  <2> SUFFICES ASSUME Init PROVE Ownership
    OBVIOUS
  <2>1. /\ \A w \in Slots : ex[w].pc \notin Holding
        /\ DOMAIN pending = {} /\ calls = {}
    <3>1. (\A w \in Slots : ex[w] = Idle) /\ pending = <<>> /\ calls = {}
      BY DEF Init
    <3>2. Idle.pc \notin Holding
      BY DEF Idle, Holding
    <3>3. DOMAIN pending = {}
      BY <3>1
    <3> QED
      BY <3>1, <3>2, <3>3
  <2>2. SingleExecution /\ HeldRows
    BY <2>1 DEF SingleExecution, HeldRows
  <2>3. FreshRuns
    BY <2>1 DEF Init, FreshRuns
  <2>4. NoRevival
    BY DEF Init, NoRevival
  <2> QED
    BY <2>2, <2>3, <2>4 DEF Ownership
<1>2. Ownership => SingleExecution
  BY DEF Ownership
<1> QED
  BY <1>1, <1>2, TypeCorrect, OwnershipStep, PTL DEF Spec

-----------------------------------------------------------------------------
(* Who writes the runs and steps tables, and what a run's row may become.   *)

\* The steps that are a transaction on the tables; Restart's recovery is the other one.
RowWrite ==
    \/ \E c \in calls : EnqueueCreate(c)
    \/ \E r \in Runs : CancelRun(r) \/ PauseRun(r) \/ ResumeRun(r) \/ RetryDeadLetter(r) \/ purgeRunBatch(r)
    \/ DeliverEvent
    \/ \E w \in Slots, s \in Steps : claimQueueTx(w, s)
    \/ \E w \in Slots : \/ ParkStep(w) \/ WriteStepCancelled(w) \/ RequeuePausedStep(w) \/ RetryStep(w)
                        \/ recordFinalFailure(w) \/ completeDirect(w)
                        \/ \E kind \in {"sleep", "wait", "deadline"} : SuspendStep(w, kind)
    \/ CompleteStep
    \/ InterruptAll

rows == <<runStatus, stepStatus>>

\* Every other step leaves both tables as they are.
LEMMA RowWriters == ASSUME [Next]_vars PROVE RowWrite \/ Restart \/ UNCHANGED rows
<1> USE DEF rows, database
<1>1. ASSUME NEW r \in Runs, ClientCall(r) PROVE RowWrite \/ UNCHANGED rows
  BY <1>1 DEF ClientCall, EnqueueRegister, DismissDeadLetter, RowWrite
<1>2. ASSUME NEW c \in calls, CallContinues(c) PROVE RowWrite \/ UNCHANGED rows
  BY <1>2 DEF CallContinues, EnqueueFail, interruptLocal, PauseMark, RowWrite
<1>3. ASSUME NEW w \in Slots, ExecutorStep(w) PROVE RowWrite \/ UNCHANGED rows
  <2>1. CASE Register(w) \/ HaltCheck(w) \/ PauseCheck(w) \/ SuspendCheck(w) \/ AfterBody(w)
    BY <2>1 DEF Register, HaltCheck, PauseCheck, SuspendCheck, AfterBody, consumePause
  <2>2. CASE PauseTerminal(w) \/ Decide(w) \/ ClosingCheck(w) \/ submitCompletion(w) \/ FinishRun(w) \/ Exit(w)
    BY <2>2 DEF PauseTerminal, Decide, ClosingCheck, submitCompletion, FinishRun, Exit
  <2>3. CASE \/ ParkStep(w) \/ WriteStepCancelled(w) \/ RequeuePausedStep(w) \/ RetryStep(w)
             \/ recordFinalFailure(w) \/ completeDirect(w)
    BY <2>3 DEF RowWrite
  <2> QED
    BY <1>3, <2>1, <2>2, <2>3 DEF ExecutorStep
<1>4. ASSUME NEW w \in Slots, Body(w) \/ WriteFails(w) PROVE RowWrite \/ UNCHANGED rows
  BY <1>4 DEF Body, BodyReturns, WriteFails, RowWrite
<1>5. CASE DeliverEvent \/ (\E w \in Slots, s \in Steps : claimQueueTx(w, s)) \/ CompleteStep \/ InterruptAll
  BY <1>5 DEF RowWrite
<1>6. CASE RegisterTask \/ CompletionFails \/ afterComplete \/ CloseBegin \/ stopCompleter \/ completerDone \/ CloseRelease
  BY <1>6 DEF RegisterTask, CompletionFails, afterComplete, CloseBegin, stopCompleter, completerDone, CloseRelease
<1>7. CASE UNCHANGED vars
  BY <1>7 DEF vars
<1> QED
  BY <1>1, <1>2, <1>3, <1>4, <1>5, <1>6, <1>7 DEF Next, Shutdown

\* What completeStepTx does to the two tables, case by case: the run is over and
\* the step is abandoned; nothing to record; recorded; recorded and the run ended.
LEMMA completeStepCases ==
    ASSUME StoreTyped, NEW s \in Steps, completeStepTx(s)
    PROVE  \/ /\ runTerminal(RunOf[s]) /\ runStatus' = runStatus
              /\ stepStatus' = [stepStatus EXCEPT ![s] =
                    IF stepStatus[s] \in {"QUEUED", "RUNNING"} THEN "CANCELLED" ELSE stepStatus[s]]
           \/ ~runTerminal(RunOf[s]) /\ ~StepDone(s) /\ UNCHANGED rows
           \/ /\ StepDone(s) /\ RunOutcome(s) = None
              /\ stepStatus' = unblockReadyTx(s) /\ runStatus' = runStatus
           \/ /\ StepDone(s) /\ RunOutcome(s) \in {"SUCCEEDED", "FAILED"}
              /\ SetRun(RunOf[s], RunOutcome(s), unblockReadyTx(s))
<1>1. RunOutcome(s) \in {None, "SUCCEEDED", "FAILED"}
  BY DEF RunOutcome
<1>2. CASE runTerminal(RunOf[s])
  BY <1>2 DEF completeStepTx, UpdateStep
<1>3. CASE ~runTerminal(RunOf[s]) /\ ~StepDone(s)
  BY <1>3 DEF completeStepTx, rows
<1>4. CASE ~runTerminal(RunOf[s]) /\ StepDone(s)
  BY <1>1, <1>4 DEF completeStepTx
<1> QED
  BY <1>2, <1>3, <1>4

\* What ending a run does to its row and to the others.
LEMMA SetRunRows ==
    ASSUME StoreTyped, NEW r \in Runs, NEW o, NEW st, SetRun(r, o, st)
    PROVE  /\ \A q \in Runs \ {r} : runStatus'[q] = runStatus[q]
           /\ runStatus'[r] = IF r \in Ephemeral THEN "DELETED" ELSE o
           /\ r \notin Ephemeral => stepStatus' = st
           /\ r \in Ephemeral =>
                \A t \in Steps : stepStatus'[t] = IF RunOf[t] = r THEN "DELETED" ELSE st[t]
BY ZenonT(60) DEF SetRun, deleteEphemeralRunTx, StoreTyped

\* A run that an executor or the completer works for is no longer NEW.
StartedRuns ==
    /\ FreshRuns
    /\ \A w \in Slots : ex[w].pc # "idle" => runStatus[RunOf[ex[w].step]] # "NEW"
    /\ \A i \in DOMAIN pending : runStatus[RunOf[pending[i]]] # "NEW"

\* The rows of a deleted run are deleted with it.
DeletedRuns == \A s \in Steps : runStatus[RunOf[s]] = "DELETED" => stepStatus[s] = "DELETED"

\* The moves of a run's row: inserted, changed while it is live, ended, replaced,
\* swept by Close, recovered at boot, revived from the dead letters, deleted.
\* Nothing else.
RunMove(r) ==
    \/ runStatus'[r] = runStatus[r]
    \/ runStatus[r] = "NEW" /\ runStatus'[r] = "QUEUED" /\ \E c \in calls : c.run = r /\ EnqueueCreate(c)
    \/ runStatus[r] \in Live /\ runStatus'[r] \in Live \cup {"DELETED"}
    \/ runStatus[r] \in Live /\ runStatus'[r] \in {"SUCCEEDED", "FAILED", "CANCELLED"} /\ r \notin Ephemeral
    \/ Replaces(r)
    \/ runStatus[r] \in Terminal /\ runStatus'[r] = "DELETED"
    \/ runStatus[r] = "FAILED" /\ r \in dead /\ r \notin dead' /\ runStatus'[r] = "QUEUED"
    \/ runStatus[r] = "RUNNING" /\ runStatus'[r] = "INTERRUPTED" /\ r \notin Ephemeral /\ mode' = "swept"
    \/ runStatus[r] = "INTERRUPTED" /\ runStatus'[r] \in {"QUEUED", "FAILED"} /\ r \notin Ephemeral /\ Restart

LEMMA completeStepMoves ==
    ASSUME TypeOK, NEW s \in Steps, completeStepTx(s), NEW r \in Runs
    PROVE  RunMove(r)
<1>1. StoreTyped /\ RunOf[s] \in Runs
  BY DEF TypeOK
<1>2. CASE runStatus' = runStatus
  BY <1>2 DEF RunMove
<1>3. CASE /\ StepDone(s) /\ RunOutcome(s) \in {"SUCCEEDED", "FAILED"}
           /\ SetRun(RunOf[s], RunOutcome(s), unblockReadyTx(s))
  <2>1. /\ \A q \in Runs \ {RunOf[s]} : runStatus'[q] = runStatus[q]
        /\ runStatus'[RunOf[s]] \in {"SUCCEEDED", "FAILED", "DELETED"}
        /\ RunOf[s] \in Ephemeral => runStatus'[RunOf[s]] = "DELETED"
    BY <1>1, <1>3, SetRunRows
  <2> QED
    BY <1>3, <2>1 DEF RunMove, StepDone
<1> QED
  BY <1>1, <1>2, <1>3, completeStepCases DEF rows

LEMMA RunMoves ==
    ASSUME TypeOK, StartedRuns, [Next]_vars, NEW r \in Runs
    PROVE  RunMove(r)
<1>0. StoreTyped /\ FreshRuns /\ runStatus[r] \in RunStatuses
  BY DEF TypeOK, StartedRuns, StoreTyped
<1>1. CASE UNCHANGED rows
  BY <1>1 DEF rows, RunMove
<1>2. ASSUME NEW c \in calls, EnqueueCreate(c) PROVE RunMove(r)
  <2>1. MemoryTyped
    BY DEF TypeOK
  <2>2. CASE r = c.run
    BY <1>0, <1>2, <2>1, <2>2, CreatedRows DEF RunMove
  <2>3. CASE r # c.run
    BY <1>0, <1>2, <2>1, <2>3, CreatedRows DEF RunMove
  <2> QED
    BY <2>2, <2>3
<1>3. ASSUME NEW q \in Runs, CancelRun(q) PROVE RunMove(r)
  <2>1. /\ runStatus[q] \in Live /\ runStatus'[q] \in {"CANCELLED", "DELETED"} /\ (r # q => runStatus'[r] = runStatus[r])
        /\ q \in Ephemeral => runStatus'[q] = "DELETED"
    BY <1>0, <1>3, SetRunRows DEF CancelRun
  <2> QED
    BY <2>1 DEF RunMove
<1>4. ASSUME NEW q \in Runs, PauseRun(q) \/ ResumeRun(q) PROVE RunMove(r)
  BY <1>0, <1>4 DEF PauseRun, ResumeRun, StoreTyped, RunMove, Live
<1>5. ASSUME NEW q \in Runs, RetryDeadLetter(q) PROVE RunMove(r)
  BY <1>0, <1>5 DEF RetryDeadLetter, reopenRun, StoreTyped, RunMove
<1>6. ASSUME NEW q \in Runs, purgeRunBatch(q) PROVE RunMove(r)
  BY <1>0, <1>6 DEF purgeRunBatch, runTerminal, StoreTyped, RunMove
<1>7. ASSUME NEW w \in Slots, NEW s \in Steps, claimQueueTx(w, s) PROVE RunMove(r)
  <2>1. runStatus' = runStatus \/ runStatus' = [runStatus EXCEPT ![RunOf[s]] = IF @ = "QUEUED" THEN "RUNNING" ELSE @]
    BY <1>7 DEF claimQueueTx
  <2> QED
    BY <1>0, <2>1 DEF StoreTyped, RunMove, Live
<1>8. ASSUME NEW w \in Slots, recordFinalFailure(w) PROVE RunMove(r)
  <2> DEFINE s == ex[w].step
             q == RunOf[s]
             o == IF runStatus[q] \in Live THEN "FAILED" ELSE runStatus[q]
  <2>1. s \in Steps /\ q \in Runs /\ runStatus[q] \in RunStatuses \ {"NEW"}
    BY <1>8 DEF recordFinalFailure, TypeOK, ExecTyped, StoreTyped, StartedRuns
  <2>2. CASE runStatus' = runStatus
    BY <2>2 DEF RunMove
  <2>3. CASE FinalFailStep(s) /\ runStatus[q] # "DELETED"
    <3>1. PICK st : SetRun(q, o, st)
      BY <2>3 DEF FinalFailStep
    <3>2. /\ r # q => runStatus'[r] = runStatus[r]
          /\ runStatus'[q] \in {o, "DELETED"} /\ (q \in Ephemeral => runStatus'[q] = "DELETED")
      BY <1>0, <2>1, <3>1, SetRunRows
    <3> QED
      BY <2>1, <2>3, <3>2 DEF RunMove, RunStatuses
  <2> QED
    BY <1>8, <2>2, <2>3 DEF recordFinalFailure
<1>9. ASSUME NEW w \in Slots, completeDirect(w) PROVE RunMove(r)
  BY <1>9, completeStepMoves DEF completeDirect, TypeOK, ExecTyped
<1>10. CASE CompleteStep
  <2>1. Head(pending) \in Steps /\ completeStepTx(Head(pending))
    BY <1>10 DEF CompleteStep, TypeOK, MemoryTyped
  <2> QED
    BY <2>1, completeStepMoves
<1>11. CASE InterruptAll
  BY <1>0, <1>11 DEF InterruptAll, RunMove, Live
<1>12. CASE Restart
  <2>1. PICK keep \in BootModes : recoverInterrupted(keep)
    BY <1>12 DEF Restart
  <2> QED
    BY <1>0, <1>12, <2>1 DEF recoverInterrupted, Cut, RunMove, RunStatuses, Live, Terminal
<1>13. ASSUME NEW w \in Slots, \/ ParkStep(w) \/ WriteStepCancelled(w) \/ RequeuePausedStep(w) \/ RetryStep(w)
                               \/ \E kind \in {"sleep", "wait", "deadline"} : SuspendStep(w, kind)
       PROVE  RunMove(r)
  BY <1>13 DEF ParkStep, WriteStepCancelled, RequeuePausedStep, RetryStep, SuspendStep, RunMove
<1>14. CASE DeliverEvent
  BY <1>14 DEF DeliverEvent, RunMove
<1> QED
  BY <1>1, <1>2, <1>3, <1>4, <1>5, <1>6, <1>7, <1>8, <1>9, <1>10, <1>11, <1>12, <1>13, <1>14,
     RowWriters DEF RowWrite

-----------------------------------------------------------------------------
(* Who moves an executor: itself, or a cancellation of its context.         *)

OwnStep(w) == \/ ExecutorStep(w) \/ Body(w) \/ WriteFails(w)
              \/ \E s \in Steps : claimQueueTx(w, s)

\* The executor in slot w as it was, but for its context.
Bystander(w) == ex'[w] = ex[w] \/ ex'[w] = [ex[w] EXCEPT !.cancelled = TRUE]

\* A bystander's record but for its context.
LEMMA BystanderFields ==
    ASSUME NEW w \in Slots, ex[w] \in Executors, Bystander(w)
    PROVE  /\ ex'[w].pc = ex[w].pc /\ ex'[w].step = ex[w].step /\ ex'[w].att = ex[w].att
           /\ ex'[w].res = ex[w].res /\ ex'[w].kill = ex[w].kill
<1>1. CASE ex'[w] = ex[w]
  BY <1>1
<1>2. CASE ex'[w] = [ex[w] EXCEPT !.cancelled = TRUE]
  BY <1>2 DEF Executors
<1> QED
  BY <1>1, <1>2 DEF Bystander

\* An executor's own step, but for FinishRun, leaves the others as they are.
LEMMA OthersUntouched ==
    ASSUME TypeOK, NEW v \in Slots, OwnStep(v), ~FinishRun(v), NEW w \in Slots \ {v}
    PROVE  ex'[w] = ex[w]
<1>0. ex \in [Slots -> Executors]
  BY DEF TypeOK, ExecTyped
<1>2. CASE ex' = [ex EXCEPT ![v] = ex'[v]]
  BY <1>0, <1>2
<1>3. ASSUME NEW e, ex' = [ex EXCEPT ![v] = e] PROVE ex' = [ex EXCEPT ![v] = ex'[v]]
  BY <1>0, <1>3
<1>4. ASSUME NEW l, Goto(v, l) PROVE ex' = [ex EXCEPT ![v] = ex'[v]]
  <2>1. ex' = [ex EXCEPT ![v] = [ex[v] EXCEPT !.pc = l]]
    BY <1>4 DEF Goto
  <2> QED
    BY <1>3, <2>1
<1>5. CASE \E s \in Steps : claimQueueTx(v, s)
  BY <1>2, <1>3, <1>5 DEF claimQueueTx
<1>6. CASE WriteFails(v)
  BY <1>2, <1>3, <1>4, <1>6 DEF WriteFails
<1>7. CASE Body(v)
  <2>1. ASSUME NEW res, BodyReturns(v, res) PROVE ex' = [ex EXCEPT ![v] = ex'[v]]
    <3>1. ex' = [ex EXCEPT ![v] = [ex[v] EXCEPT !.pc = "afterBody", !.res = res]]
      BY <2>1 DEF BodyReturns
    <3> QED
      BY <1>3, <3>1
  <2> QED
    BY <1>2, <1>4, <1>7, <2>1 DEF Body, SuspendStep
<1>8. CASE ParkStep(v) \/ Exit(v)
  BY <1>2, <1>3, <1>8 DEF ParkStep, Exit
<1>9. CASE \/ Register(v) \/ HaltCheck(v) \/ PauseCheck(v) \/ SuspendCheck(v) \/ AfterBody(v)
           \/ PauseTerminal(v) \/ Decide(v) \/ ClosingCheck(v)
  <2>1. \E l : Goto(v, l)
    BY <1>9 DEF Register, HaltCheck, PauseCheck, SuspendCheck, AfterBody, consumePause,
                PauseTerminal, Decide, ClosingCheck
  <2> QED
    BY <1>2, <1>4, <2>1
<1>10. CASE submitCompletion(v) \/ WriteStepCancelled(v) \/ RequeuePausedStep(v) \/ RetryStep(v)
  <2>1. \E l : Goto(v, l)
    BY <1>10 DEF submitCompletion, WriteStepCancelled, RequeuePausedStep, RetryStep
  <2> QED
    BY <1>2, <1>4, <2>1
<1>11. CASE recordFinalFailure(v)
  <2> DEFINE s == ex[v].step
             k == {t \in StepsOf(RunOf[s]) \ {s} : stepStatus[t] \in Active}
  <2>1. CASE runStatus[RunOf[s]] = "DELETED"
    <3>1. Goto(v, "exit")
      BY <1>11, <2>1 DEF recordFinalFailure
    <3> QED
      BY <1>2, <1>4, <3>1
  <2>2. CASE runStatus[RunOf[s]] # "DELETED"
    <3>1. ex' = [ex EXCEPT ![v].pc = "finish", ![v].res = "FAILED", ![v].kill = k]
      BY <1>11, <2>2 DEF recordFinalFailure
    <3>2. ex' = [ex EXCEPT ![v] = [ex[v] EXCEPT !.pc = "finish", !.res = "FAILED", !.kill = k]]
      BY <3>1
    <3> QED
      BY <1>2, <1>3, <3>2
  <2> QED
    BY <2>1, <2>2
<1>12. CASE completeDirect(v)
  <2> DEFINE o == RunOutcome(ex[v].step)
  <2>1. ex' = [ex EXCEPT ![v] = [ex[v] EXCEPT !.pc = IF o = None THEN "exit" ELSE "finish",
                                              !.res = IF o = None THEN @ ELSE o]]
    BY <1>12 DEF completeDirect
  <2> QED
    BY <1>2, <1>3, <2>1
<1> QED
  BY <1>5, <1>6, <1>7, <1>8, <1>9, <1>10, <1>11, <1>12 DEF OwnStep, ExecutorStep

\* An executor's own step moves no other executor, but for the contexts that
\* cancelStepContexts ends.
LEMMA OwnStepFrame ==
    ASSUME TypeOK, NEW v \in Slots, OwnStep(v), NEW w \in Slots \ {v}
    PROVE  Bystander(w)
<1>0. ex \in [Slots -> Executors]
  BY DEF TypeOK, ExecTyped
<1>1. CASE FinishRun(v)
  <2>1. ex' = [CancelContexts(ex[v].kill) EXCEPT ![v].pc = "exit", ![v].kill = {}]
    BY <1>1 DEF FinishRun
  <2>2. CancelContexts(ex[v].kill) \in [Slots -> Executors]
    BY CancelContextsTyped DEF TypeOK
  <2>3. ex'[w] = CancelContexts(ex[v].kill)[w]
    BY <2>1, <2>2
  <2> QED
    BY <2>3 DEF CancelContexts, Bystander
<1> QED
  BY <1>1, OthersUntouched DEF Bystander

\* Every step of the system but a restart leaves each executor to itself.
LEMMA SlotFrame ==
    ASSUME TypeOK, [Next]_vars, NEW w \in Slots
    PROVE  Bystander(w) \/ OwnStep(w) \/ Restart
<1>1. ASSUME NEW r \in Runs, ClientCall(r) PROVE ex' = ex
  BY <1>1 DEF ClientCall, EnqueueRegister, CancelRun, PauseRun, ResumeRun, RetryDeadLetter,
              DismissDeadLetter, purgeRunBatch
<1>2. ASSUME NEW c \in calls, CallContinues(c) PROVE ex' \in {ex, CancelContexts(c.steps)}
  BY <1>2 DEF CallContinues, EnqueueCreate, EnqueueFail, interruptLocal, PauseMark
<1>3. ASSUME NEW S PROVE CancelContexts(S)[w] \in {ex[w], [ex[w] EXCEPT !.cancelled = TRUE]}
  BY DEF CancelContexts
<1>4. ASSUME NEW v \in Slots, ExecutorStep(v) \/ Body(v) \/ WriteFails(v) PROVE Bystander(w) \/ OwnStep(w)
  BY <1>4, OwnStepFrame DEF OwnStep
<1>5. ASSUME NEW v \in Slots, NEW s \in Steps, claimQueueTx(v, s) PROVE Bystander(w) \/ OwnStep(w)
  BY <1>5, OwnStepFrame DEF OwnStep
<1>6. CASE DeliverEvent \/ RegisterTask \/ CompleteStep \/ CompletionFails \/ afterComplete
  BY <1>6 DEF DeliverEvent, RegisterTask, CompleteStep, CompletionFails, afterComplete, Bystander
<1>7. CASE Shutdown
  BY <1>7 DEF Shutdown, CloseBegin, stopCompleter, completerDone, InterruptAll, CloseRelease, Bystander
<1>8. CASE UNCHANGED vars
  BY <1>8 DEF vars, Bystander
<1> QED
  BY <1>1, <1>2, <1>3, <1>4, <1>5, <1>6, <1>7, <1>8 DEF Next, Bystander

\* Between its claim and its exit an executor keeps its step.
LEMMA OwnStepKeeps ==
    ASSUME TypeOK, NEW w \in Slots, OwnStep(w)
    PROVE  \/ ex'[w].pc = "idle"
           \/ \E s \in Steps : claimQueueTx(w, s) /\ ex'[w].step = s
           \/ ex[w].pc # "idle" /\ ex'[w].step = ex[w].step
<1>0. ex \in [Slots -> Executors] /\ ex[w] \in Executors
  BY DEF TypeOK, ExecTyped
<1>1. ASSUME NEW l, Goto(w, l) PROVE ex'[w].step = ex[w].step
  BY <1>0, <1>1 DEF Goto, Executors
<1>2. CASE FinishRun(w)
  <2> DEFINE cc == CancelContexts(ex[w].kill)
  <2>1. ex' = [cc EXCEPT ![w].pc = "exit", ![w].kill = {}] /\ ex[w].pc = "finish"
    BY <1>2 DEF FinishRun
  <2>2. cc \in [Slots -> Executors] /\ cc[w] \in Executors /\ cc[w].step = ex[w].step
    BY CancelContextsTyped DEF TypeOK
  <2> HIDE DEF cc
  <2> QED
    BY <2>1, <2>2 DEF Executors
<1>3. CASE \E s \in Steps : claimQueueTx(w, s)
  <2>1. PICK s \in Steps : claimQueueTx(w, s)
    BY <1>3
  <2>2. ex' = [ex EXCEPT ![w] = [Idle EXCEPT !.pc = "claimed", !.step = s, !.att = attempts'[s]]]
    BY <2>1 DEF claimQueueTx
  <2> QED
    BY <1>0, <2>1, <2>2 DEF Idle
<1>4. CASE ParkStep(w) \/ Exit(w)
  <2>1. ex' = [ex EXCEPT ![w] = Idle]
    BY <1>4 DEF ParkStep, Exit
  <2> QED
    BY <1>0, <2>1 DEF Idle
<1>5. CASE WriteFails(w)
  <2>1. CASE Goto(w, "exit") /\ ex[w].pc \in {"stepCancel", "requeue", "retry", "finalFail", "direct"}
    BY <1>1, <2>1
  <2>2. CASE ex' = [ex EXCEPT ![w] = Idle]
    BY <1>0, <2>2 DEF Idle
  <2> QED
    BY <1>5, <2>1, <2>2 DEF WriteFails
<1>6. CASE Body(w)
  <2>1. ASSUME NEW res, BodyReturns(w, res) PROVE ex'[w].step = ex[w].step /\ ex[w].pc = "body"
    <3>1. ex' = [ex EXCEPT ![w] = [ex[w] EXCEPT !.pc = "afterBody", !.res = res]] /\ ex[w].pc = "body"
      BY <2>1 DEF BodyReturns
    <3> QED
      BY <1>0, <3>1 DEF Executors
  <2> QED
    BY <1>1, <1>6, <2>1 DEF Body, SuspendStep
<1>7. CASE \/ Register(w) \/ HaltCheck(w) \/ PauseCheck(w) \/ SuspendCheck(w) \/ AfterBody(w)
           \/ PauseTerminal(w) \/ Decide(w) \/ ClosingCheck(w)
  <2>1. (\E l : Goto(w, l)) /\ ex[w].pc # "idle"
    BY <1>7 DEF Register, HaltCheck, PauseCheck, SuspendCheck, AfterBody, consumePause,
                PauseTerminal, Decide, ClosingCheck
  <2> QED
    BY <1>1, <2>1
<1>8. CASE submitCompletion(w) \/ WriteStepCancelled(w) \/ RequeuePausedStep(w) \/ RetryStep(w)
  <2>1. (\E l : Goto(w, l)) /\ ex[w].pc # "idle"
    BY <1>8 DEF submitCompletion, WriteStepCancelled, RequeuePausedStep, RetryStep
  <2> QED
    BY <1>1, <2>1
<1>9. CASE recordFinalFailure(w)
  <2> DEFINE s == ex[w].step
             k == {t \in StepsOf(RunOf[s]) \ {s} : stepStatus[t] \in Active}
  <2>1. ex[w].pc # "idle"
    BY <1>9 DEF recordFinalFailure
  <2>2. CASE runStatus[RunOf[s]] = "DELETED"
    BY <1>1, <1>9, <2>1, <2>2 DEF recordFinalFailure
  <2>3. CASE runStatus[RunOf[s]] # "DELETED"
    <3>1. ex' = [ex EXCEPT ![w].pc = "finish", ![w].res = "FAILED", ![w].kill = k]
      BY <1>9, <2>3 DEF recordFinalFailure
    <3> HIDE DEF k
    <3> QED
      BY <1>0, <2>1, <3>1 DEF Executors
  <2> QED
    BY <2>2, <2>3
<1>10. CASE completeDirect(w)
  <2> DEFINE o == RunOutcome(ex[w].step)
  <2>1. ex' = [ex EXCEPT ![w].pc = IF o = None THEN "exit" ELSE "finish",
                         ![w].res = IF o = None THEN @ ELSE o] /\ ex[w].pc # "idle"
    BY <1>10 DEF completeDirect
  <2> HIDE DEF o
  <2> QED
    BY <1>0, <2>1 DEF Executors
<1> QED
  BY <1>2, <1>3, <1>4, <1>5, <1>6, <1>7, <1>8, <1>9, <1>10 DEF OwnStep, ExecutorStep

\* The completer's list grows by what an executor submits and shrinks from its head.
LEMMA PendingMoves ==
    ASSUME [Next]_vars
    PROVE  \/ pending' = pending
           \/ pending' = <<>> /\ Restart
           \/ pending # <<>> /\ pending' = Tail(pending) /\ (CompleteStep \/ CompletionFails)
           \/ \E w \in Slots : submitCompletion(w) /\ pending' = Append(pending, ex[w].step)
<1> USE DEF memory
<1>1. ASSUME NEW r \in Runs, ClientCall(r) PROVE pending' = pending
  BY <1>1 DEF ClientCall, EnqueueRegister, CancelRun, PauseRun, ResumeRun, RetryDeadLetter,
              DismissDeadLetter, purgeRunBatch
<1>2. ASSUME NEW c \in calls, CallContinues(c) PROVE pending' = pending
  BY <1>2 DEF CallContinues, EnqueueCreate, EnqueueFail, interruptLocal, PauseMark
<1>3. ASSUME NEW w \in Slots, ExecutorStep(w) PROVE pending' = pending \/ submitCompletion(w)
  BY <1>3 DEF ExecutorStep, ParkStep, Register, HaltCheck, PauseCheck, SuspendCheck, AfterBody,
              consumePause, PauseTerminal, Decide, ClosingCheck, WriteStepCancelled, RequeuePausedStep,
              RetryStep, recordFinalFailure, completeDirect, FinishRun, Exit
<1>4. ASSUME NEW w \in Slots, Body(w) \/ WriteFails(w) PROVE pending' = pending
  BY <1>4 DEF Body, BodyReturns, SuspendStep, WriteFails
<1>5. ASSUME NEW w \in Slots, submitCompletion(w) PROVE pending' \in {pending, Append(pending, ex[w].step)}
  BY <1>5 DEF submitCompletion
<1>6. CASE CompleteStep \/ CompletionFails
  BY <1>6 DEF CompleteStep, CompletionFails
<1>7. CASE DeliverEvent \/ RegisterTask \/ afterComplete \/ Shutdown
  BY <1>7 DEF DeliverEvent, RegisterTask, afterComplete, Shutdown, CloseBegin, stopCompleter,
              completerDone, InterruptAll, CloseRelease
<1>8. ASSUME NEW w \in Slots, NEW s \in Steps, claimQueueTx(w, s) PROVE pending' = pending
  BY <1>8 DEF claimQueueTx
<1>9. CASE Restart
  BY <1>9 DEF Restart
<1>10. CASE UNCHANGED vars
  BY <1>10 DEF vars
<1> QED
  BY <1>1, <1>2, <1>3, <1>4, <1>5, <1>6, <1>7, <1>8, <1>9, <1>10 DEF Next

\* The step that begins the client call c on run r.
Begins(c, r) ==
    \/ EnqueueRegister(r) /\ c = [op |-> "enqueue", run |-> r, steps |-> {}]
    \/ CancelRun(r) /\ c = [op |-> "cancel", run |-> r, steps |-> RunningSteps(r)]
    \/ PauseRun(r) /\ c = [op |-> "pause", run |-> r, steps |-> RunningSteps(r)]
    \/ Replaces(r) /\ c = [op |-> "cancel", run |-> r, steps |-> RunningSteps(r)]

\* A client call in progress was there before, or this step began it.
LEMMA CallMoves ==
    ASSUME TypeOK, FreshRuns, [Next]_vars, NEW c \in calls'
    PROVE  c \in calls \/ \E r \in Runs : Begins(c, r)
<1> USE DEF memory
<1>1. ASSUME NEW r \in Runs, ResumeRun(r) \/ RetryDeadLetter(r) \/ DismissDeadLetter(r) \/ purgeRunBatch(r)
      PROVE  c \in calls
  BY <1>1 DEF ResumeRun, RetryDeadLetter, DismissDeadLetter, purgeRunBatch
<1>2. ASSUME NEW d \in calls, CallContinues(d) PROVE c \in calls \/ \E r \in Runs : Begins(c, r)
  <2>1. CASE EnqueueCreate(d)
    BY <2>1, CreatedRows DEF TypeOK, Begins
  <2>2. CASE EnqueueFail(d) \/ interruptLocal(d) \/ PauseMark(d)
    BY <2>2 DEF EnqueueFail, interruptLocal, PauseMark
  <2> QED
    BY <1>2, <2>1, <2>2 DEF CallContinues
<1>3. ASSUME NEW w \in Slots, ExecutorStep(w) PROVE c \in calls
  BY <1>3 DEF ExecutorStep, ParkStep, Register, HaltCheck, PauseCheck, SuspendCheck, AfterBody,
              consumePause, PauseTerminal, Decide, ClosingCheck, submitCompletion, WriteStepCancelled,
              RequeuePausedStep, RetryStep, recordFinalFailure, completeDirect, FinishRun, Exit
<1>4. ASSUME NEW w \in Slots, Body(w) \/ WriteFails(w) PROVE c \in calls
  BY <1>4 DEF Body, BodyReturns, SuspendStep, WriteFails
<1>5. ASSUME NEW w \in Slots, NEW s \in Steps, claimQueueTx(w, s) PROVE c \in calls
  BY <1>5 DEF claimQueueTx
<1>6. CASE DeliverEvent \/ RegisterTask \/ CompleteStep \/ CompletionFails \/ afterComplete \/ Shutdown
  BY <1>6 DEF DeliverEvent, RegisterTask, CompleteStep, CompletionFails, afterComplete, Shutdown,
              CloseBegin, stopCompleter, completerDone, InterruptAll, CloseRelease
<1>7. CASE Restart
  BY <1>7 DEF Restart
<1>8. CASE UNCHANGED vars
  BY <1>8 DEF vars
<1>9. ASSUME NEW r \in Runs, EnqueueRegister(r) \/ CancelRun(r) \/ PauseRun(r)
      PROVE  c \in calls \/ Begins(c, r)
  BY <1>9 DEF EnqueueRegister, CancelRun, PauseRun, Begins
<1> QED
  BY <1>1, <1>2, <1>3, <1>4, <1>5, <1>6, <1>7, <1>8, <1>9 DEF Next, ClientCall

-----------------------------------------------------------------------------
(* Nobody works for a run before its rows exist.                            *)

\* No transaction touches the rows of a run that is still NEW after it.
LEMMA NewRowsKept ==
    ASSUME TypeOK, StartedRuns, [Next]_vars, NEW s \in Steps, runStatus'[RunOf[s]] = "NEW"
    PROVE  stepStatus'[s] = "NEW"
<1>0. /\ StoreTyped /\ RunOf[s] \in Runs
      /\ \A w \in Slots : ex[w].pc # "idle" => ex[w].step \in Steps /\ RunOf[ex[w].step] \in Runs
  BY DEF TypeOK, ExecTyped
<1>1. runStatus[RunOf[s]] = "NEW"
  <2>1. RunMove(RunOf[s])
    BY <1>0, RunMoves
  <2> QED
    BY <2>1 DEF RunMove, Replaces, Live
<1>2. stepStatus[s] = "NEW"
  BY <1>1 DEF StartedRuns, FreshRuns
<1>3. CASE UNCHANGED rows
  BY <1>2, <1>3 DEF rows
<1>4. ASSUME NEW c \in calls, EnqueueCreate(c) PROVE stepStatus'[s] = "NEW"
  <2>1. RunOf[s] \in Runs \ {c.run} /\ s \in StepsOf(RunOf[s]) /\ ~Replaces(RunOf[s])
    BY <1>0, <1>1, <1>4, CreatedRows DEF TypeOK, StartedRuns, Replaces, StepsOf
  <2> QED
    BY <1>0, <1>2, <1>4, <2>1, CreatedRows DEF TypeOK, StartedRuns
<1>5. ASSUME NEW q \in Runs, CancelRun(q) PROVE stepStatus'[s] = "NEW"
  <2>1. q # RunOf[s]
    BY <1>1, <1>5 DEF CancelRun, Live
  <2> QED
    BY <1>2, <1>5, <2>1 DEF CancelRun, SetRun, deleteEphemeralRunTx
<1>6. ASSUME NEW q \in Runs, PauseRun(q) \/ ResumeRun(q) PROVE stepStatus'[s] = "NEW"
  BY <1>2, <1>6 DEF PauseRun, ResumeRun
<1>7. ASSUME NEW q \in Runs, RetryDeadLetter(q) \/ purgeRunBatch(q) PROVE stepStatus'[s] = "NEW"
  <2>1. q # RunOf[s]
    BY <1>1, <1>7 DEF RetryDeadLetter, purgeRunBatch, runTerminal, Terminal
  <2> QED
    BY <1>2, <1>7, <2>1 DEF RetryDeadLetter, reopenRun, purgeRunBatch, deleteEphemeralRunTx
<1>8. CASE DeliverEvent \/ InterruptAll
  BY <1>0, <1>1, <1>2, <1>8 DEF DeliverEvent, InterruptAll
<1>9. ASSUME NEW w \in Slots, NEW t \in Steps, claimQueueTx(w, t) PROVE stepStatus'[s] = "NEW"
  BY <1>0, <1>2, <1>9 DEF claimQueueTx, Fresh, StoreTyped
<1>10. ASSUME NEW w \in Slots, \/ ParkStep(w) \/ WriteStepCancelled(w) \/ RequeuePausedStep(w) \/ RetryStep(w)
                               \/ \E kind \in {"sleep", "wait", "deadline"} : SuspendStep(w, kind)
       PROVE  stepStatus'[s] = "NEW"
  BY <1>0, <1>2, <1>10 DEF ParkStep, WriteStepCancelled, StepCancelled, RequeuePausedStep, Refund, RetryStep,
                           SuspendStep, UpdateStep, StoreTyped
<1>11. ASSUME NEW w \in Slots, recordFinalFailure(w) PROVE stepStatus'[s] = "NEW"
  <2>1. ex[w].step \in Steps /\ RunOf[ex[w].step] # RunOf[s]
    BY <1>0, <1>1, <1>11 DEF recordFinalFailure, StartedRuns
  <2> QED
    BY <1>2, <1>11, <2>1 DEF recordFinalFailure, FinalFailStep, SetRun, deleteEphemeralRunTx
<1>12. ASSUME NEW t \in Steps, RunOf[t] # RunOf[s], completeStepTx(t) PROVE stepStatus'[s] = "NEW"
  <2>1. unblockReadyTx(t)[s] = "NEW"
    BY <1>0, <1>2, <1>12 DEF unblockReadyTx, StoreTyped
  <2>2. SetRun(RunOf[t], RunOutcome(t), unblockReadyTx(t)) => stepStatus'[s] = "NEW"
    BY <1>0, <1>12, <2>1, SetRunRows
  <2> QED
    BY <1>0, <1>2, <1>12, <2>1, <2>2, completeStepCases DEF rows, StoreTyped
<1>13. ASSUME NEW w \in Slots, completeDirect(w) PROVE stepStatus'[s] = "NEW"
  <2>1. ex[w].step \in Steps /\ RunOf[ex[w].step] # RunOf[s] /\ completeStepTx(ex[w].step)
    BY <1>0, <1>1, <1>13 DEF completeDirect, StartedRuns
  <2> QED
    BY <1>12, <2>1
<1>14. CASE CompleteStep
  <2>1. pending \in Seq(Steps) /\ pending # <<>> /\ completeStepTx(Head(pending))
    BY <1>14 DEF CompleteStep, TypeOK, MemoryTyped
  <2>2. Head(pending) \in Steps /\ 1 \in DOMAIN pending /\ Head(pending) = pending[1]
    BY <2>1
  <2>3. RunOf[Head(pending)] # RunOf[s]
    BY <1>1, <2>2 DEF StartedRuns
  <2> QED
    BY <1>12, <2>1, <2>2, <2>3
<1>15. CASE Restart
  <2>1. PICK keep \in BootModes : recoverInterrupted(keep)
    BY <1>15 DEF Restart
  <2> QED
    BY <1>0, <1>1, <1>2, <2>1 DEF recoverInterrupted, Cut
<1> QED
  BY <1>3, <1>4, <1>5, <1>6, <1>7, <1>8, <1>9, <1>10, <1>11, <1>13, <1>14, <1>15, RowWriters DEF RowWrite

LEMMA StartedStep == TypeOK /\ StartedRuns /\ [Next]_vars => StartedRuns'
<1> SUFFICES ASSUME TypeOK, StartedRuns, [Next]_vars PROVE StartedRuns'
  OBVIOUS
<1>0. StoreTyped /\ FreshRuns
  BY DEF TypeOK, StartedRuns
<1>1. \A r \in Runs : runStatus[r] # "NEW" => runStatus'[r] # "NEW"
  BY RunMoves DEF RunMove, Replaces, Live
<1>2. ASSUME NEW c \in calls', c.op = "enqueue"
      PROVE  c.steps = {} /\ runStatus'[c.run] = "NEW"
  <2>1. ASSUME NEW r \in Runs, Begins(c, r) PROVE c.steps = {} /\ runStatus'[c.run] = "NEW"
    <3>1. EnqueueRegister(r) /\ c = [op |-> "enqueue", run |-> r, steps |-> {}]
      BY <1>2, <2>1 DEF Begins
    <3> QED
      BY <3>1 DEF EnqueueRegister, database
  <2>2. ASSUME c \in calls PROVE c.steps = {} /\ runStatus'[c.run] = "NEW"
    <3>1. c \in Calling /\ c.run \in Runs /\ c.steps = {} /\ runStatus[c.run] = "NEW"
      BY <1>0, <1>2, <2>2 DEF TypeOK, MemoryTyped, Calling, FreshRuns
    <3>2. RunMove(c.run)
      BY <3>1, RunMoves
    <3>3. CASE runStatus'[c.run] = "NEW"
      BY <3>1, <3>3
    <3>4. CASE runStatus'[c.run] = "QUEUED"
      <4>1. PICK d \in calls : EnqueueCreate(d) /\ d.run = c.run
        BY <3>1, <3>2, <3>4 DEF RunMove, Replaces, Live, Terminal
      <4>2. d \in Calling /\ d.op = "enqueue" /\ d.steps = {} /\ c \notin {d}
        BY <1>0, <4>1 DEF EnqueueCreate, TypeOK, MemoryTyped, FreshRuns
      <4>3. c = [op |-> c.op, run |-> c.run, steps |-> c.steps] /\ d = [op |-> d.op, run |-> d.run, steps |-> d.steps]
        BY <3>1, <4>2 DEF Calling
      <4> QED
        BY <1>2, <3>1, <4>1, <4>2, <4>3
    <3> QED
      BY <3>1, <3>2, <3>3, <3>4 DEF RunMove, Replaces, Live, Terminal
  <2> QED
    BY <1>0, <2>1, <2>2, CallMoves
<1>3. FreshRuns'
  BY <1>2, NewRowsKept DEF FreshRuns
<1>4. ASSUME NEW w \in Slots, ex'[w].pc # "idle" PROVE runStatus'[RunOf[ex'[w].step]] # "NEW"
  <2>1. CASE ex[w].pc # "idle" /\ ex'[w].step = ex[w].step
    BY <1>1, <2>1 DEF StartedRuns, TypeOK, ExecTyped
  <2>2. ASSUME NEW s \in Steps, claimQueueTx(w, s), ex'[w].step = s PROVE runStatus'[RunOf[ex'[w].step]] # "NEW"
    <3>1. runStatus[RunOf[s]] # "NEW"
      BY <1>0, <2>2 DEF claimQueueTx, Fresh, FreshRuns
    <3> QED
      BY <1>1, <2>2, <3>1
  <2>3. Bystander(w) => ex'[w].pc = ex[w].pc /\ ex'[w].step = ex[w].step
    BY DEF Bystander, TypeOK, ExecTyped, Executors
  <2>4. ~ Restart
    <3>1. Restart => ex'[w] = Idle
      BY DEF Restart
    <3>2. Idle.pc = "idle"
      BY DEF Idle
    <3> QED
      BY <1>4, <3>1, <3>2
  <2> QED
    BY <1>4, <2>1, <2>2, <2>3, <2>4, SlotFrame, OwnStepKeeps
<1>5. ASSUME NEW i \in DOMAIN pending' PROVE runStatus'[RunOf[pending'[i]]] # "NEW"
  <2>0. pending \in Seq(Steps)
    BY DEF TypeOK, MemoryTyped
  <2>1. CASE \E j \in DOMAIN pending : pending'[i] = pending[j]
    BY <1>1, <2>0, <2>1 DEF StartedRuns
  <2>2. CASE \E w \in Slots : ex[w].pc # "idle" /\ pending'[i] = ex[w].step
    BY <1>1, <2>2 DEF StartedRuns, TypeOK, ExecTyped
  <2>3. CASE pending # <<>> /\ pending' = Tail(pending)
    BY <2>0, <2>1, <2>3, TailEntries
  <2>4. ASSUME NEW w \in Slots, submitCompletion(w), pending' = Append(pending, ex[w].step)
        PROVE  runStatus'[RunOf[pending'[i]]] # "NEW"
    <3>1. ex[w].pc # "idle" /\ ex[w].step \in Steps
      BY <2>4 DEF submitCompletion, TypeOK, ExecTyped
    <3>2. pending'[i] = ex[w].step \/ (i \in DOMAIN pending /\ pending'[i] = pending[i])
      BY <1>5, <2>0, <2>4, <3>1
    <3> QED
      BY <2>1, <2>2, <3>1, <3>2
  <2>5. CASE pending' = <<>>
    BY <1>5, <2>5
  <2> QED
    BY <2>1, <2>3, <2>4, <2>5, PendingMoves
<1> QED
  BY <1>3, <1>4, <1>5 DEF StartedRuns

LEMMA StartedInit == Init => StartedRuns
<1> SUFFICES ASSUME Init PROVE StartedRuns
  OBVIOUS
<1>1. \A w \in Slots : ex[w].pc = "idle"
  BY DEF Init, Idle
<1>2. DOMAIN pending = {}
  <2>1. pending = <<>>
    BY DEF Init
  <2> QED
    BY <2>1
<1> QED
  BY <1>1, <1>2 DEF Init, StartedRuns, FreshRuns

\* A run's outcome is decided once, over any number of crashes, store errors and
\* late executors: a terminal row only changes by a dead-letter retry, by the
\* recovery of an INTERRUPTED run at the next boot, or by being deleted.
THEOREM OutcomeDecidedOnce == Spec => OutcomeIsFinal
<1>1. ASSUME TypeOK, StartedRuns, [Next]_vars, NEW r \in Runs, runTerminal(r), runStatus'[r] # runStatus[r]
      PROVE  \/ runStatus'[r] = "DELETED"
             \/ runStatus[r] = "FAILED" /\ r \in dead /\ runStatus'[r] = "QUEUED"
             \/ runStatus[r] = "INTERRUPTED" /\ mode' = "up" /\ calls' = {}
  <2>1. RunMove(r)
    BY <1>1, RunMoves
  <2>2. Restart => mode' = "up" /\ calls' = {}
    BY DEF Restart
  <2> QED
    BY <1>1, <2>1, <2>2 DEF RunMove, Replaces, runTerminal, Live, Terminal
<1>2. TypeOK /\ StartedRuns /\ [Next]_vars =>
        [\A r \in Runs : runTerminal(r) /\ runStatus'[r] # runStatus[r] =>
            \/ runStatus'[r] = "DELETED"
            \/ runStatus[r] = "FAILED" /\ r \in dead /\ runStatus'[r] = "QUEUED"
            \/ runStatus[r] = "INTERRUPTED" /\ mode' = "up" /\ calls' = {}]_vars
  BY <1>1
<1> QED
  BY <1>2, TypeCorrect, StartedInit, StartedStep, PTL DEF Spec, OutcomeIsFinal

\* An ephemeral run that is over has no row left, whichever step ended it, a crash,
\* a sweep or a late failure included, unless it was replaced under its unique key:
\* then its row is CANCELLED and the run that replaced it has been inserted.
THEOREM EphemeralRunsVanish == Spec => []EphemeralLeavesNothing
<1>1. Init => EphemeralLeavesNothing
  BY DEF Init, EphemeralLeavesNothing, runTerminal, Terminal
<1>2. TypeOK /\ StartedRuns /\ EphemeralLeavesNothing /\ [Next]_vars => EphemeralLeavesNothing'
  <2> SUFFICES ASSUME TypeOK, StartedRuns, EphemeralLeavesNothing, [Next]_vars,
                      NEW r \in Ephemeral, runStatus'[r] \in Terminal
               PROVE  /\ runStatus'[r] = "CANCELLED" /\ r \in Unique
                      /\ \E q \in Unique \ {r} : runStatus'[q] # "NEW"
    BY DEF EphemeralLeavesNothing, runTerminal
  <2>1. RunMove(r)
    BY RunMoves
  <2>2. CASE Replaces(r)
    BY <2>2 DEF Replaces
  <2>3. CASE runStatus'[r] = runStatus[r]
    <3>1. runStatus[r] = "CANCELLED" /\ r \in Unique
      BY <2>3 DEF EphemeralLeavesNothing, runTerminal
    <3>2. PICK q \in Unique \ {r} : runStatus[q] # "NEW"
      BY <2>3 DEF EphemeralLeavesNothing, runTerminal
    <3>3. q \in Runs /\ RunMove(q)
      BY RunMoves
    <3>4. runStatus'[q] # "NEW"
      BY <3>2, <3>3 DEF RunMove, Replaces, Live
    <3> QED
      BY <2>3, <3>1, <3>2, <3>4
  <2> QED
    BY <2>1, <2>2, <2>3 DEF RunMove, EphemeralLeavesNothing, runTerminal, Live, Terminal
<1> QED
  BY <1>1, <1>2, TypeCorrect, StartedInit, StartedStep, PTL DEF Spec

-----------------------------------------------------------------------------
(* What a handle is told.                                                   *)

\* A row of r with status st bears out the answer o.
Backs(st, r, o) ==
    /\ o = "SUCCEEDED" => st \in {"SUCCEEDED", "DELETED"}
    /\ o = "CANCELLED" => st \in {"CANCELLED", "DELETED"}
    /\ o = "FAILED" => st \in Terminal \cup {"DELETED"} \/ r \in DeadLetter

\* Every answer given, and every answer somebody still owes, is backed.
AnswersBacked ==
    /\ \A r \in Runs : Backs(runStatus[r], r, waiters[r])
    /\ \A i \in DOMAIN finishing : Backs(runStatus[finishing[i].run], finishing[i].run, finishing[i].status)
    /\ \A w \in Slots : ex[w].pc = "finish" =>
          Backs(runStatus[RunOf[ex[w].step]], RunOf[ex[w].step], ex[w].res)
    /\ \A c \in calls : c.op = "cancel" => Backs(runStatus[c.run], c.run, "CANCELLED")
    /\ dead \subseteq DeadLetter

\* What is backed stays backed while the process lives.
LEMMA BackedStays ==
    ASSUME TypeOK, StartedRuns, dead \subseteq DeadLetter, [Next]_vars, ~Restart, NEW r \in Runs
    PROVE  \A o : Backs(runStatus[r], r, o) => Backs(runStatus'[r], r, o)
<1>1. RunMove(r)
  BY RunMoves
<1> QED
  BY <1>1 DEF RunMove, Replaces, Backs, Live, Terminal

\* The answers that this step gives.
LEMMA WaiterMoves ==
    ASSUME TypeOK, [Next]_vars, ~Restart, NEW r \in Runs
    PROVE  \/ waiters'[r] = waiters[r]
           \/ waiters'[r] \in {"open", "none", "INTERRUPTED"}
           \/ \E c \in calls : c.op = "cancel" /\ c.run = r /\ waiters'[r] = "CANCELLED"
           \/ \E w \in Slots : ex[w].pc = "finish" /\ RunOf[ex[w].step] = r /\ waiters'[r] = ex[w].res
           \/ finishing # <<>> /\ Head(finishing).run = r /\ waiters'[r] = Head(finishing).status
<1> USE DEF memory
<1>0. waiters \in [Runs -> Answers]
  BY DEF TypeOK, MemoryTyped
<1>1. ASSUME NEW q \in Runs, ClientCall(q) PROVE waiters'[r] = waiters[r] \/ waiters'[r] = "open"
  BY <1>0, <1>1 DEF ClientCall, EnqueueRegister, CancelRun, PauseRun, ResumeRun, RetryDeadLetter,
              DismissDeadLetter, purgeRunBatch
<1>2. ASSUME NEW c \in calls, EnqueueCreate(c) \/ EnqueueFail(c) \/ PauseMark(c)
      PROVE  waiters'[r] = waiters[r] \/ waiters'[r] = "none"
  BY <1>0, <1>2 DEF EnqueueCreate, EnqueueFail, PauseMark
<1>3. ASSUME NEW c \in calls, interruptLocal(c)
      PROVE  waiters'[r] = waiters[r] \/ (c.op = "cancel" /\ c.run = r /\ waiters'[r] = "CANCELLED")
  BY <1>0, <1>3 DEF interruptLocal, Release
<1>4. ASSUME NEW w \in Slots, ExecutorStep(w) PROVE waiters' = waiters \/ FinishRun(w)
  BY <1>4 DEF ExecutorStep, ParkStep, Register, HaltCheck, PauseCheck, SuspendCheck, AfterBody,
              consumePause, PauseTerminal, Decide, ClosingCheck, submitCompletion, WriteStepCancelled,
              RequeuePausedStep, RetryStep, recordFinalFailure, completeDirect, Exit
<1>5. ASSUME NEW w \in Slots, FinishRun(w)
      PROVE  \/ waiters'[r] = waiters[r]
             \/ ex[w].pc = "finish" /\ RunOf[ex[w].step] = r /\ waiters'[r] = ex[w].res
  BY <1>0, <1>5 DEF FinishRun, Release
<1>6. ASSUME NEW w \in Slots, Body(w) \/ WriteFails(w) PROVE waiters' = waiters
  BY <1>6 DEF Body, BodyReturns, SuspendStep, WriteFails
<1>7. ASSUME NEW w \in Slots, NEW s \in Steps, claimQueueTx(w, s) PROVE waiters' = waiters
  BY <1>7 DEF claimQueueTx
<1>8. CASE afterComplete
  BY <1>0, <1>8 DEF afterComplete, Release
<1>9. CASE DeliverEvent \/ RegisterTask \/ CompleteStep \/ CompletionFails \/ Shutdown
  BY <1>0, <1>9 DEF DeliverEvent, RegisterTask, CompleteStep, CompletionFails, Shutdown,
              CloseBegin, stopCompleter, completerDone, InterruptAll, CloseRelease
<1>10. CASE UNCHANGED vars
  BY <1>10 DEF vars
<1> QED
  BY <1>1, <1>2, <1>3, <1>4, <1>5, <1>6, <1>7, <1>8, <1>9, <1>10 DEF Next, CallContinues

\* completeStepTx reports an outcome only when it gives the run that outcome.
LEMMA OutcomeRecorded ==
    ASSUME TypeOK, NEW s \in Steps, completeStepTx(s), RunOutcome(s) # None
    PROVE  Backs(runStatus'[RunOf[s]], RunOf[s], RunOutcome(s))
<1>1. StoreTyped /\ RunOf[s] \in Runs
  BY DEF TypeOK
<1>2. StepDone(s)
  BY DEF RunOutcome
<1>3. ~runTerminal(RunOf[s])
  BY <1>2 DEF StepDone, runTerminal, Live, Terminal
<1>4. SetRun(RunOf[s], RunOutcome(s), unblockReadyTx(s)) /\ RunOutcome(s) \in {"SUCCEEDED", "FAILED"}
  BY <1>1, <1>2, <1>3, completeStepCases
<1>5. runStatus'[RunOf[s]] \in {RunOutcome(s), "DELETED"}
  BY <1>1, <1>4, SetRunRows
<1> QED
  BY <1>4, <1>5 DEF Backs, Terminal

LEMMA AnswersStep == TypeOK /\ StartedRuns /\ AnswersBacked /\ [Next]_vars => AnswersBacked'
<1> SUFFICES ASSUME TypeOK, StartedRuns, AnswersBacked, [Next]_vars PROVE AnswersBacked'
  OBVIOUS
<1>0. /\ dead \subseteq DeadLetter /\ finishing \in Seq(Outcomes) /\ StoreTyped
      /\ \A w \in Slots : ex[w].pc # "idle" => ex[w].step \in Steps /\ RunOf[ex[w].step] \in Runs
  BY DEF AnswersBacked, TypeOK, MemoryTyped, ExecTyped
<1>1. dead' \subseteq DeadLetter
  <2>1. ASSUME NEW r \in Runs, ClientCall(r) PROVE dead' \subseteq dead
    BY <2>1 DEF ClientCall, EnqueueRegister, CancelRun, PauseRun, ResumeRun, RetryDeadLetter,
                DismissDeadLetter, purgeRunBatch, database
  <2>2. ASSUME NEW c \in calls, CallContinues(c) PROVE dead' = dead
    BY <2>2 DEF CallContinues, EnqueueCreate, EnqueueFail, interruptLocal, PauseMark, database
  <2>3. ASSUME NEW w \in Slots, ExecutorStep(w) PROVE dead' = dead \/ recordFinalFailure(w)
    BY <2>3 DEF ExecutorStep, ParkStep, Register, HaltCheck, PauseCheck, SuspendCheck, AfterBody,
              consumePause, PauseTerminal, Decide, ClosingCheck, submitCompletion, WriteStepCancelled,
              RequeuePausedStep, RetryStep, completeDirect, FinishRun, Exit, database
  <2>4. ASSUME NEW w \in Slots, recordFinalFailure(w) PROVE dead' \subseteq dead \cup DeadLetter
    BY <2>4 DEF recordFinalFailure, FinalFailStep
  <2>5. ASSUME NEW w \in Slots, Body(w) \/ WriteFails(w) PROVE dead' = dead
    BY <2>5 DEF Body, BodyReturns, SuspendStep, WriteFails, database
  <2>6. ASSUME NEW w \in Slots, NEW s \in Steps, claimQueueTx(w, s) PROVE dead' = dead
    BY <2>6 DEF claimQueueTx
  <2>7. CASE DeliverEvent \/ RegisterTask \/ CompleteStep \/ CompletionFails \/ afterComplete \/ Shutdown \/ Restart
    BY <1>0, <2>7 DEF DeliverEvent, RegisterTask, CompleteStep, CompletionFails, afterComplete, Shutdown,
              CloseBegin, stopCompleter, completerDone, InterruptAll, CloseRelease, Restart, database
  <2>8. CASE UNCHANGED vars
    BY <1>0, <2>8 DEF vars, database
  <2> QED
    BY <1>0, <2>1, <2>2, <2>3, <2>4, <2>5, <2>6, <2>7, <2>8 DEF Next
<1>2. CASE Restart
  <2>1. /\ \A w \in Slots : ex'[w] = Idle
        /\ \A r \in Runs : waiters'[r] = "none"
        /\ finishing' = <<>> /\ calls' = {}
    BY <1>2 DEF Restart
  <2>2. Idle.pc # "finish"
    BY DEF Idle
  <2>3. DOMAIN finishing' = {}
    BY <2>1
  <2>4. \A r \in Runs : Backs(runStatus'[r], r, waiters'[r])
    BY <2>1 DEF Backs
  <2> QED
    BY <1>1, <2>1, <2>2, <2>3, <2>4 DEF AnswersBacked
<1>3. CASE ~Restart
  <2>0. \A r \in Runs : \A o : Backs(runStatus[r], r, o) => Backs(runStatus'[r], r, o)
    BY <1>0, <1>3, BackedStays
  <2>1. ASSUME NEW w \in Slots, ex'[w].pc = "finish"
        PROVE  Backs(runStatus'[RunOf[ex'[w].step]], RunOf[ex'[w].step], ex'[w].res)
    <3>0. ex \in [Slots -> Executors] /\ ex[w] \in Executors
      BY DEF TypeOK, ExecTyped
    <3>1. CASE ex[w].pc = "finish" /\ ex'[w].step = ex[w].step /\ ex'[w].res = ex[w].res
      BY <1>0, <2>0, <3>1 DEF AnswersBacked
    <3>2. Bystander(w) => ex'[w].pc = ex[w].pc /\ ex'[w].step = ex[w].step /\ ex'[w].res = ex[w].res
      BY <3>0 DEF Bystander, Executors
    <3>3. ASSUME recordFinalFailure(w) PROVE ex'[w].step = ex[w].step /\ Backs(runStatus'[RunOf[ex[w].step]], RunOf[ex[w].step], ex'[w].res)
      <4> DEFINE s == ex[w].step
                 r == RunOf[s]
                 k == {t \in StepsOf(r) \ {s} : stepStatus[t] \in Active}
                 o == IF runStatus[r] \in Live THEN "FAILED" ELSE runStatus[r]
      <4>1. s \in Steps /\ r \in Runs /\ runStatus[r] \in RunStatuses \ {"NEW"}
        BY <1>0, <3>3 DEF recordFinalFailure, StoreTyped, StartedRuns
      <4>2. CASE runStatus[r] = "DELETED"
        <5>1. Goto(w, "exit")
          BY <3>3, <4>2 DEF recordFinalFailure
        <5> QED
          BY <2>1, <3>0, <5>1 DEF Goto, Executors
      <4>3. CASE runStatus[r] # "DELETED"
        <5>1. /\ FinalFailStep(s)
              /\ ex' = [ex EXCEPT ![w].pc = "finish", ![w].res = "FAILED", ![w].kill = k]
          BY <3>3, <4>3 DEF recordFinalFailure
        <5>2. PICK st : SetRun(r, o, st)
          BY <5>1 DEF FinalFailStep
        <5>3. runStatus'[r] \in {o, "DELETED"}
          BY <1>0, <4>1, <5>2, SetRunRows
        <5> HIDE DEF k
        <5>4. ex'[w].step = ex[w].step /\ ex'[w].res = "FAILED"
          BY <3>0, <5>1 DEF Executors
        <5> QED
          BY <4>1, <4>3, <5>3, <5>4 DEF Backs, RunStatuses, Terminal
      <4> QED
        BY <4>2, <4>3
    <3>4. ASSUME completeDirect(w) PROVE ex'[w].step = ex[w].step /\ Backs(runStatus'[RunOf[ex[w].step]], RunOf[ex[w].step], ex'[w].res)
      <4> DEFINE o == RunOutcome(ex[w].step)
      <4>1. /\ ex' = [ex EXCEPT ![w].pc = IF o = None THEN "exit" ELSE "finish",
                                ![w].res = IF o = None THEN @ ELSE o]
            /\ ex[w].step \in Steps /\ completeStepTx(ex[w].step)
        BY <1>0, <3>4 DEF completeDirect
      <4>2. o # None => Backs(runStatus'[RunOf[ex[w].step]], RunOf[ex[w].step], o)
        BY <4>1, OutcomeRecorded
      <4> HIDE DEF o
      <4>3. o # None /\ ex'[w].res = o /\ ex'[w].step = ex[w].step
        BY <2>1, <3>0, <4>1 DEF Executors
      <4> QED
        BY <4>2, <4>3
    <3>5. ASSUME OwnStep(w) PROVE recordFinalFailure(w) \/ completeDirect(w)
      <4>1. ASSUME NEW l, Goto(w, l) PROVE ex'[w].pc = l
        BY <3>0, <4>1 DEF Goto, Executors
      <4>2. ASSUME ex' = [ex EXCEPT ![w] = Idle] PROVE FALSE
        BY <2>1, <3>0, <4>2 DEF Idle
      <4>3. ~ \E s \in Steps : claimQueueTx(w, s)
        <5>1. ASSUME NEW s \in Steps, claimQueueTx(w, s) PROVE FALSE
          <6>1. ex' = [ex EXCEPT ![w] = [Idle EXCEPT !.pc = "claimed", !.step = s, !.att = attempts'[s]]]
            BY <5>1 DEF claimQueueTx
          <6> QED
            BY <2>1, <3>0, <6>1 DEF Idle
        <5> QED
          BY <5>1
      <4>4. ~ Body(w)
        <5>1. ASSUME NEW res, BodyReturns(w, res) PROVE FALSE
          <6>1. ex' = [ex EXCEPT ![w] = [ex[w] EXCEPT !.pc = "afterBody", !.res = res]]
            BY <5>1 DEF BodyReturns
          <6> QED
            BY <2>1, <3>0, <6>1 DEF Executors
        <5> QED
          BY <2>1, <4>1, <5>1 DEF Body, SuspendStep
      <4>5. ~ WriteFails(w) /\ ~ ParkStep(w) /\ ~ Exit(w)
        BY <2>1, <4>1, <4>2 DEF WriteFails, ParkStep, Exit
      <4>6. ~ FinishRun(w)
        <5> DEFINE cc == CancelContexts(ex[w].kill)
        <5>1. FinishRun(w) => ex' = [cc EXCEPT ![w].pc = "exit", ![w].kill = {}]
          BY DEF FinishRun
        <5>2. cc \in [Slots -> Executors] /\ cc[w] \in Executors
          BY CancelContextsTyped DEF TypeOK
        <5> HIDE DEF cc
        <5>3. [cc EXCEPT ![w].pc = "exit", ![w].kill = {}][w].pc = "exit"
          BY <5>2 DEF Executors
        <5> QED
          BY <2>1, <5>1, <5>3
      <4>7. /\ ~ Register(w) /\ ~ HaltCheck(w) /\ ~ PauseCheck(w) /\ ~ SuspendCheck(w) /\ ~ AfterBody(w)
            /\ ~ PauseTerminal(w) /\ ~ ClosingCheck(w)
        BY <2>1, <4>1 DEF Register, HaltCheck, PauseCheck, SuspendCheck, AfterBody, consumePause, PauseTerminal,
           ClosingCheck
      <4>8. ~ Decide(w) /\ ~ submitCompletion(w) /\ ~ WriteStepCancelled(w) /\ ~ RequeuePausedStep(w) /\ ~ RetryStep(w)
        BY <2>1, <4>1 DEF Decide, Decision, submitCompletion, WriteStepCancelled, RequeuePausedStep, RetryStep
      <4> QED
        BY <3>5, <4>3, <4>4, <4>5, <4>6, <4>7, <4>8 DEF OwnStep, ExecutorStep
    <3> QED
      BY <1>3, <2>1, <3>1, <3>2, <3>3, <3>4, <3>5, SlotFrame
  <2>2. ASSUME NEW i \in DOMAIN finishing'
        PROVE  Backs(runStatus'[finishing'[i].run], finishing'[i].run, finishing'[i].status)
    <3>1. CASE \E j \in DOMAIN finishing : finishing'[i] = finishing[j]
      <4>1. PICK j \in DOMAIN finishing : finishing'[i] = finishing[j]
        BY <3>1
      <4>2. finishing[j].run \in Runs
        <5>1. finishing[j] \in Outcomes
          BY <1>0, <4>1
        <5> QED
          BY <5>1 DEF Outcomes
      <4> QED
        BY <2>0, <4>1, <4>2 DEF AnswersBacked
    <3>2. CASE finishing' = finishing
      BY <2>2, <3>1, <3>2
    <3>3. CASE afterComplete
      <4>1. finishing # <<>> /\ finishing' = Tail(finishing)
        BY <3>3 DEF afterComplete
      <4>2. i + 1 \in DOMAIN finishing /\ finishing'[i] = finishing[i + 1]
        BY <1>0, <2>2, <4>1
      <4> QED
        BY <3>1, <4>2
    <3>4. CASE CompleteStep
      <4> DEFINE s == Head(pending)
                 o == RunOutcome(s)
      <4>1. s \in Steps /\ completeStepTx(s)
        BY <3>4 DEF CompleteStep, TypeOK, MemoryTyped
      <4>2. o # None => Backs(runStatus'[RunOf[s]], RunOf[s], o)
        BY <4>1, OutcomeRecorded
      <4>3. finishing' = IF o = None THEN finishing ELSE Append(finishing, [run |-> RunOf[s], status |-> o])
        BY <3>4 DEF CompleteStep
      <4> HIDE DEF o, s
      <4>4. CASE o # None
        <5>1. \/ i \in DOMAIN finishing /\ finishing'[i] = finishing[i]
              \/ finishing'[i] = [run |-> RunOf[s], status |-> o]
          <6>1. finishing' = Append(finishing, [run |-> RunOf[s], status |-> o])
            BY <4>3, <4>4
          <6> QED
            BY <1>0, <2>2, <6>1
        <5> QED
          BY <3>1, <4>2, <4>4, <5>1
      <4> QED
        BY <3>2, <4>3, <4>4
    <3>5. CompleteStep \/ afterComplete \/ finishing' = finishing
      <4> USE DEF memory
      <4>1. ASSUME NEW r \in Runs, ClientCall(r) PROVE finishing' = finishing
        BY <4>1 DEF ClientCall, EnqueueRegister, CancelRun, PauseRun, ResumeRun, RetryDeadLetter,
                    DismissDeadLetter, purgeRunBatch
      <4>2. ASSUME NEW c \in calls, CallContinues(c) PROVE finishing' = finishing
        BY <4>2 DEF CallContinues, EnqueueCreate, EnqueueFail, interruptLocal, PauseMark
      <4>3. ASSUME NEW w \in Slots, ExecutorStep(w) PROVE finishing' = finishing
        BY <4>3 DEF ExecutorStep, ParkStep, Register, HaltCheck, PauseCheck, SuspendCheck, AfterBody,
                    consumePause, PauseTerminal, Decide, ClosingCheck, submitCompletion, WriteStepCancelled,
                    RequeuePausedStep, RetryStep, recordFinalFailure, completeDirect, FinishRun, Exit
      <4>4. ASSUME NEW w \in Slots, Body(w) \/ WriteFails(w) PROVE finishing' = finishing
        BY <4>4 DEF Body, BodyReturns, SuspendStep, WriteFails
      <4>5. ASSUME NEW w \in Slots, NEW s \in Steps, claimQueueTx(w, s) PROVE finishing' = finishing
        BY <4>5 DEF claimQueueTx
      <4>6. CASE DeliverEvent \/ RegisterTask \/ CompletionFails \/ Shutdown
        BY <4>6 DEF DeliverEvent, RegisterTask, CompletionFails, Shutdown, CloseBegin, stopCompleter,
                    completerDone, InterruptAll, CloseRelease
      <4>7. CASE UNCHANGED vars
        BY <4>7 DEF vars
      <4> QED
        BY <1>3, <4>1, <4>2, <4>3, <4>4, <4>5, <4>6, <4>7 DEF Next
    <3> QED
      BY <3>2, <3>3, <3>4, <3>5
  <2>3. ASSUME NEW c \in calls', c.op = "cancel" PROVE Backs(runStatus'[c.run], c.run, "CANCELLED")
    <3>1. CASE c \in calls
      BY <2>0, <2>3, <3>1 DEF AnswersBacked, TypeOK, MemoryTyped, Calling
    <3>2. ASSUME NEW r \in Runs, Begins(c, r) PROVE Backs(runStatus'[c.run], c.run, "CANCELLED")
      <4>1. (CancelRun(r) \/ Replaces(r)) /\ c.run = r
        BY <2>3, <3>2 DEF Begins
      <4>2. runStatus'[r] \in {"CANCELLED", "DELETED"}
        BY <1>0, <4>1, SetRunRows DEF CancelRun, Replaces
      <4> QED
        BY <4>1, <4>2 DEF Backs
    <3> QED
      BY <3>1, <3>2, CallMoves DEF StartedRuns
  <2>4. ASSUME NEW r \in Runs PROVE Backs(runStatus'[r], r, waiters'[r])
    <3>1. CASE waiters'[r] = waiters[r]
      BY <2>0, <3>1 DEF AnswersBacked
    <3>2. CASE waiters'[r] \in {"open", "none", "INTERRUPTED"}
      BY <3>2 DEF Backs
    <3>3. CASE \E c \in calls : c.op = "cancel" /\ c.run = r /\ waiters'[r] = "CANCELLED"
      BY <2>0, <3>3 DEF AnswersBacked
    <3>4. CASE \E w \in Slots : ex[w].pc = "finish" /\ RunOf[ex[w].step] = r /\ waiters'[r] = ex[w].res
      BY <2>0, <3>4 DEF AnswersBacked
    <3>5. CASE finishing # <<>> /\ Head(finishing).run = r /\ waiters'[r] = Head(finishing).status
      <4>1. 1 \in DOMAIN finishing /\ Head(finishing) = finishing[1]
        BY <1>0, <3>5
      <4> QED
        BY <2>0, <3>5, <4>1 DEF AnswersBacked
    <3> QED
      BY <1>3, <3>1, <3>2, <3>3, <3>4, <3>5, WaiterMoves
  <2> QED
    BY <1>1, <2>1, <2>2, <2>3, <2>4 DEF AnswersBacked
<1> QED
  BY <1>2, <1>3

\* What a handle reports is what the database holds, whoever reported it and
\* however late: the completer, a failing executor, Cancel or Close.
THEOREM HandlesTellTheTruth == Spec => []WaiterBacked
<1>1. Init => AnswersBacked
  <2> SUFFICES ASSUME Init PROVE AnswersBacked
    OBVIOUS
  <2>1. \A w \in Slots : ex[w].pc = "idle"
    BY DEF Init, Idle
  <2>2. DOMAIN finishing = {}
    <3>1. finishing = <<>>
      BY DEF Init
    <3> QED
      BY <3>1
  <2>3. \A r \in Runs : Backs(runStatus[r], r, waiters[r])
    BY DEF Init, Backs
  <2> QED
    BY <2>1, <2>2, <2>3 DEF Init, AnswersBacked
<1>2. AnswersBacked => WaiterBacked
  BY DEF AnswersBacked, WaiterBacked, Backs
<1> QED
  BY <1>1, <1>2, AnswersStep, TypeCorrect, StartedInit, StartedStep, PTL DEF Spec

-----------------------------------------------------------------------------
(* Close.                                                                   *)

\* Close records and answers everything it was handed before its sweep, and
\* leaves no handle open, even if its deadline passes with executors still at work.
THEOREM CloseIsComplete == Spec => []CloseLeavesNothing
<1>1. Init => CloseLeavesNothing
  BY DEF Init, CloseLeavesNothing
<1>2. TypeOK /\ CloseLeavesNothing /\ [Next]_vars => CloseLeavesNothing'
  <2> SUFFICES ASSUME TypeOK, CloseLeavesNothing, [Next]_vars PROVE CloseLeavesNothing'
    OBVIOUS
  <2> USE DEF memory
  <2> DEFINE late == mode \in {"stopped", "swept", "closed"}
  <2>1. CASE UNCHANGED <<mode, pending, finishing, waiters>>
    BY <2>1 DEF CloseLeavesNothing
  <2>2. CASE mode = "up" /\ mode' = mode
    BY <2>2 DEF CloseLeavesNothing
  <2>3. ASSUME NEW r \in Runs, ClientCall(r) PROVE CloseLeavesNothing'
    <3>1. CASE EnqueueRegister(r)
      BY <2>2, <3>1 DEF EnqueueRegister
    <3>2. CASE CancelRun(r) \/ PauseRun(r) \/ ResumeRun(r) \/ RetryDeadLetter(r) \/ DismissDeadLetter(r) \/ purgeRunBatch(r)
      BY <2>1, <3>2 DEF CancelRun, PauseRun, ResumeRun, RetryDeadLetter, DismissDeadLetter, purgeRunBatch
    <3> QED
      BY <2>3, <3>1, <3>2 DEF ClientCall
  <2>4. CASE /\ UNCHANGED <<mode, pending, finishing>>
             /\ \A r \in Runs : waiters[r] # "open" => waiters'[r] # "open"
    BY <2>4 DEF CloseLeavesNothing
  <2>5. \A r \in Runs, q \in Runs, o \in Terminal : waiters[r] # "open" => Release(q, o)[r] # "open"
    BY DEF Release, Terminal
  <2>6. ASSUME NEW c \in calls, CallContinues(c) PROVE CloseLeavesNothing'
    <3>1. c.run \in Runs /\ waiters \in [Runs -> Answers]
      BY DEF TypeOK, MemoryTyped, Calling
    <3>2. CASE EnqueueCreate(c) \/ PauseMark(c)
      BY <2>1, <3>2 DEF EnqueueCreate, PauseMark
    <3>3. CASE EnqueueFail(c)
      BY <2>4, <3>1, <3>3 DEF EnqueueFail
    <3>4. CASE interruptLocal(c)
      BY <2>4, <2>5, <3>1, <3>4 DEF interruptLocal, Terminal
    <3> QED
      BY <2>6, <3>2, <3>3, <3>4 DEF CallContinues
  <2>7. ASSUME NEW w \in Slots, ExecutorStep(w) PROVE CloseLeavesNothing'
    <3>1. CASE submitCompletion(w)
      <4>1. CASE mode \in {"up", "closing"}
        BY <3>1, <4>1 DEF submitCompletion, CloseLeavesNothing
      <4>2. CASE mode \notin {"up", "closing"}
        BY <2>1, <3>1, <4>2 DEF submitCompletion
      <4> QED
        BY <4>1, <4>2
    <3>2. CASE FinishRun(w)
      <4>1. RunOf[ex[w].step] \in Runs /\ ex[w].res \in Terminal
        BY <3>2 DEF FinishRun, TypeOK, ExecTyped, Terminal
      <4> QED
        BY <2>4, <2>5, <3>2, <4>1 DEF FinishRun
    <3>3. CASE ~submitCompletion(w) /\ ~FinishRun(w)
      <4>1. UNCHANGED <<mode, pending, finishing, waiters>>
        BY <2>7, <3>3 DEF ExecutorStep, ParkStep, Register, HaltCheck, PauseCheck, SuspendCheck, AfterBody,
              consumePause, PauseTerminal, Decide, ClosingCheck, WriteStepCancelled,
              RequeuePausedStep, RetryStep, recordFinalFailure, completeDirect, Exit
      <4> QED
        BY <2>1, <4>1
    <3> QED
      BY <3>1, <3>2, <3>3
  <2>8. ASSUME NEW w \in Slots, Body(w) \/ WriteFails(w) PROVE CloseLeavesNothing'
    BY <2>1, <2>8 DEF Body, BodyReturns, SuspendStep, WriteFails
  <2>9. ASSUME NEW w \in Slots, NEW s \in Steps, claimQueueTx(w, s) PROVE CloseLeavesNothing'
    BY <2>1, <2>9 DEF claimQueueTx
  <2>10. CASE CompleteStep \/ CompletionFails
    <3>1. ~late /\ mode' = mode
      BY <2>10 DEF CompleteStep, CompletionFails, CloseLeavesNothing
    <3> QED
      BY <3>1 DEF CloseLeavesNothing
  <2>11. CASE afterComplete
    <3>1. ~late /\ mode' = mode
      BY <2>11 DEF afterComplete, CloseLeavesNothing
    <3> QED
      BY <3>1 DEF CloseLeavesNothing
  <2>12. CASE DeliverEvent \/ RegisterTask
    BY <2>1, <2>12 DEF DeliverEvent, RegisterTask
  <2>13. CASE CloseBegin \/ stopCompleter \/ completerDone \/ InterruptAll
    BY <2>13 DEF CloseBegin, stopCompleter, completerDone, InterruptAll, CloseLeavesNothing
  <2>14. CASE CloseRelease
    BY <2>14 DEF CloseRelease, CloseLeavesNothing
  <2>15. CASE Restart
    BY <2>15 DEF Restart, CloseLeavesNothing
  <2>16. CASE UNCHANGED vars
    BY <2>1, <2>16 DEF vars
  <2> QED
    BY <2>3, <2>6, <2>7, <2>8, <2>9, <2>10, <2>11, <2>12, <2>13, <2>14, <2>15, <2>16 DEF Next, Shutdown
<1> QED
  BY <1>1, <1>2, TypeCorrect, PTL DEF Spec

-----------------------------------------------------------------------------
(* What a step's row may become, and by whom.                               *)

\* The completion of step s: by the completer, or by its executor directly.
Completes(s) == \/ CompleteStep /\ s = Head(pending)
                \/ \E w \in Slots : completeDirect(w) /\ ex[w].step = s

\* The moves of a step's row: deleted with its run, inserted, revived or replaced
\* with it, claimed, handed back, suspended, woken, unblocked, completed, abandoned,
\* failed, swept by Close, recovered at boot.  Nothing else.
StepMove(s) ==
    LET r == RunOf[s]
        was == stepStatus[s]
        is == stepStatus'[s]
    IN  \/ is = was
        \/ is = "DELETED" /\ runStatus'[r] = "DELETED"
        \/ /\ is = (IF Deps[s] = {} THEN "QUEUED" ELSE "BLOCKED") /\ runStatus'[r] = "QUEUED"
           /\ (\E c \in calls : c.run = r /\ EnqueueCreate(c)) \/ RetryDeadLetter(r)
        \/ was \in {"QUEUED", "SUSPENDED"} /\ is = "RUNNING" /\ \E w \in Slots : claimQueueTx(w, s)
        \/ was = "RUNNING" /\ is = "QUEUED" /\ \E w \in Slots :
              (ParkStep(w) \/ RequeuePausedStep(w) \/ RetryStep(w)) /\ ex[w].step = s
        \/ was = "RUNNING" /\ is = "SUSPENDED" /\ \E w \in Slots, kind \in {"sleep", "wait", "deadline"} :
              SuspendStep(w, kind) /\ ex[w].step = s
        \/ was = "SUSPENDED" /\ is = "QUEUED" /\ DeliverEvent /\ runStatus[r] \in Live
        \/ /\ was = "BLOCKED" /\ is = "QUEUED"
           /\ \E d \in Deps[s] : Completes(d) /\ StepDone(d)
           /\ \A d \in Deps[s] : stepStatus'[d] = "SUCCEEDED"
        \/ StepDone(s) /\ is = "SUCCEEDED" /\ Completes(s)
        \/ was \in {"QUEUED", "RUNNING"} /\ is = "CANCELLED" /\ Completes(s) /\ runTerminal(r)
        \/ was \in {"QUEUED", "RUNNING", "SUSPENDED"} /\ is = "CANCELLED" /\ \E w \in Slots :
              WriteStepCancelled(w) /\ ex[w].step = s
        \/ was \in {"QUEUED", "BLOCKED", "SUSPENDED"} /\ is = "CANCELLED" /\ CancelRun(r)
        \/ was \in Active /\ is = "CANCELLED" /\ Replaces(r)
        \/ was \in Active /\ is = "CANCELLED" /\ \E w \in Slots :
              recordFinalFailure(w) /\ ex[w].step # s /\ RunOf[ex[w].step] = r /\ runStatus[r] # "DELETED"
        \/ is = "FAILED" /\ \E w \in Slots :
              recordFinalFailure(w) /\ ex[w].step = s /\ runStatus[r] # "DELETED"
        \/ was = "RUNNING" /\ is = "INTERRUPTED" /\ InterruptAll
        \/ was \in {"RUNNING", "INTERRUPTED", "SUSPENDED"} /\ is \in {"QUEUED", "FAILED"} /\ Restart

LEMMA completeStepMovesStep ==
    ASSUME TypeOK, NEW t \in Steps, Completes(t), completeStepTx(t), NEW s \in Steps
    PROVE  StepMove(s)
<1>0. StoreTyped /\ RunOf[t] \in Runs /\ stepStatus \in [Steps -> StepStatuses]
  BY DEF TypeOK, StoreTyped
<1>1. CASE stepStatus'[s] = stepStatus[s]
  BY <1>1 DEF StepMove
<1>2. CASE /\ runTerminal(RunOf[t]) /\ runStatus' = runStatus
           /\ stepStatus' = [stepStatus EXCEPT ![t] =
                 IF stepStatus[t] \in {"QUEUED", "RUNNING"} THEN "CANCELLED" ELSE stepStatus[t]]
  BY <1>0, <1>2 DEF StepMove
<1> DEFINE st == unblockReadyTx(t)
<1>3. ASSUME StepDone(t), stepStatus'[s] = st[s],
             \A d \in Deps[s] : stepStatus'[d] = st[d] \/ stepStatus'[s] = "DELETED"
      PROVE  StepMove(s)
  <2>1. CASE s = t
    <3>1. st[s] = "SUCCEEDED"
      BY <1>0, <2>1 DEF unblockReadyTx
    <3> QED
      BY <1>3, <2>1, <3>1 DEF StepMove
  <2>2. CASE s # t /\ st[s] # stepStatus[s]
    <3>1. /\ st[s] = "QUEUED" /\ stepStatus[s] = "BLOCKED" /\ t \in Deps[s]
          /\ \A d \in Deps[s] : [stepStatus EXCEPT ![t] = "SUCCEEDED"][d] = "SUCCEEDED"
      BY <1>0, <2>2 DEF unblockReadyTx
    <3>2. \A d \in Deps[s] : st[d] = "SUCCEEDED"
      BY <1>0, <3>1 DEF unblockReadyTx
    <3> HIDE DEF st
    <3> QED
      BY <1>3, <3>1, <3>2 DEF StepMove
  <2> QED
    BY <1>1, <1>3, <2>1, <2>2
<1>4. CASE /\ StepDone(t) /\ RunOutcome(t) \in {"SUCCEEDED", "FAILED"}
           /\ SetRun(RunOf[t], RunOutcome(t), st)
  <2> HIDE DEF st
  <2>1. CASE RunOf[t] \in Ephemeral /\ RunOf[s] = RunOf[t]
    <3>1. stepStatus'[s] = "DELETED" /\ runStatus'[RunOf[s]] = "DELETED"
      BY <1>0, <1>4, <2>1, SetRunRows
    <3> QED
      BY <3>1 DEF StepMove
  <2>2. CASE ~(RunOf[t] \in Ephemeral /\ RunOf[s] = RunOf[t])
    <3>1. stepStatus'[s] = st[s] /\ \A d \in Deps[s] : stepStatus'[d] = st[d]
      BY <1>0, <1>4, <2>2, SetRunRows
    <3> QED
      BY <1>3, <1>4, <3>1
  <2> QED
    BY <2>1, <2>2
<1>5. CASE StepDone(t) /\ stepStatus' = st
  BY <1>3, <1>5
<1> QED
  BY <1>0, <1>1, <1>2, <1>4, <1>5, completeStepCases DEF rows

LEMMA StepMoves ==
    ASSUME TypeOK, StartedRuns, [Next]_vars, NEW s \in Steps
    PROVE  StepMove(s)
<1>0. /\ StoreTyped /\ RunOf[s] \in Runs /\ stepStatus \in [Steps -> StepStatuses]
      /\ \A w \in Slots : ex[w].pc # "idle" => ex[w].step \in Steps /\ RunOf[ex[w].step] \in Runs
  BY DEF TypeOK, ExecTyped, StoreTyped
<1>1. CASE stepStatus'[s] = stepStatus[s]
  BY <1>1 DEF StepMove
<1>2. ASSUME NEW c \in calls, EnqueueCreate(c) PROVE StepMove(s)
  <2>1. MemoryTyped /\ FreshRuns /\ s \in StepsOf(RunOf[s])
    BY DEF TypeOK, StartedRuns, StepsOf
  <2>2. CASE RunOf[s] = c.run
    BY <1>0, <1>2, <2>1, <2>2, CreatedRows DEF StepMove
  <2>3. CASE Replaces(RunOf[s])
    BY <1>1, <2>1, <2>3 DEF StepMove, Replaces
  <2> QED
    BY <1>0, <1>1, <1>2, <2>1, <2>2, <2>3, CreatedRows
<1>3. ASSUME NEW q \in Runs, CancelRun(q) PROVE StepMove(s)
  <2> DEFINE st == [t \in Steps |-> IF RunOf[t] = q /\ stepStatus[t] \in {"QUEUED", "BLOCKED", "SUSPENDED"}
                                    THEN "CANCELLED" ELSE stepStatus[t]]
  <2>1. SetRun(q, "CANCELLED", st)
    BY <1>3 DEF CancelRun
  <2>2. /\ runStatus'[q] = IF q \in Ephemeral THEN "DELETED" ELSE "CANCELLED"
        /\ q \notin Ephemeral => stepStatus'[s] = st[s]
        /\ q \in Ephemeral => stepStatus'[s] = IF RunOf[s] = q THEN "DELETED" ELSE st[s]
    BY <1>0, <2>1, SetRunRows
  <2> QED
    BY <1>3, <2>2 DEF StepMove
<1>4. ASSUME NEW q \in Runs, RetryDeadLetter(q) PROVE StepMove(s)
  <2>1. CASE RunOf[s] = q
    <3>1. runStatus'[RunOf[s]] = "QUEUED" /\ stepStatus'[s] = IF Deps[s] = {} THEN "QUEUED" ELSE "BLOCKED"
      BY <1>0, <1>4, <2>1 DEF RetryDeadLetter, reopenRun, StoreTyped
    <3> QED
      BY <1>4, <2>1, <3>1 DEF StepMove
  <2> QED
    BY <1>1, <1>4, <2>1 DEF RetryDeadLetter, reopenRun
<1>5. ASSUME NEW q \in Runs, PauseRun(q) \/ ResumeRun(q) PROVE StepMove(s)
  BY <1>1, <1>5 DEF PauseRun, ResumeRun
<1>6. ASSUME NEW q \in Runs, purgeRunBatch(q) PROVE StepMove(s)
  BY <1>0, <1>6 DEF purgeRunBatch, deleteEphemeralRunTx, StoreTyped, StepMove
<1>7. CASE DeliverEvent
  <2>1. \/ stepStatus'[s] = stepStatus[s]
        \/ stepStatus[s] = "SUSPENDED" /\ stepStatus'[s] = "QUEUED" /\ runStatus[RunOf[s]] \in Live
    BY <1>7 DEF DeliverEvent
  <2> QED
    BY <1>7, <2>1 DEF StepMove
<1>8. ASSUME NEW w \in Slots, NEW t \in Steps, claimQueueTx(w, t) PROVE StepMove(s)
  <2>1. stepStatus' = [stepStatus EXCEPT ![t] = "RUNNING"] /\ stepStatus[t] \in {"QUEUED", "SUSPENDED"}
    BY <1>8 DEF claimQueueTx, Fresh
  <2> QED
    BY <1>0, <1>8, <2>1 DEF StepMove
<1>9. ASSUME NEW w \in Slots, ParkStep(w) \/ RequeuePausedStep(w) \/ RetryStep(w) PROVE StepMove(s)
  <2>1. /\ ex[w].step \in Steps
        /\ stepStatus' = [stepStatus EXCEPT ![ex[w].step] = IF stepStatus[ex[w].step] \in {"RUNNING"} THEN "QUEUED" ELSE stepStatus[ex[w].step]]
    BY <1>0, <1>9 DEF ParkStep, RequeuePausedStep, RetryStep, Refund, UpdateStep
  <2>2. \/ stepStatus'[s] = stepStatus[s]
        \/ s = ex[w].step /\ stepStatus[s] = "RUNNING" /\ stepStatus'[s] = "QUEUED"
    BY <1>0, <2>1
  <2> QED
    BY <1>9, <2>2 DEF StepMove
<1>10. ASSUME NEW w \in Slots, WriteStepCancelled(w) PROVE StepMove(s)
  <2>1. \/ stepStatus'[s] = stepStatus[s]
        \/ s = ex[w].step /\ stepStatus[s] \in {"QUEUED", "RUNNING", "SUSPENDED"} /\ stepStatus'[s] = "CANCELLED"
    BY <1>0, <1>10 DEF WriteStepCancelled, StepCancelled, UpdateStep
  <2> QED
    BY <1>10, <2>1 DEF StepMove
<1>11. ASSUME NEW w \in Slots, NEW kind \in {"sleep", "wait", "deadline"}, SuspendStep(w, kind) PROVE StepMove(s)
  <2>1. \/ stepStatus'[s] = stepStatus[s]
        \/ s = ex[w].step /\ stepStatus[s] = "RUNNING" /\ stepStatus'[s] = "SUSPENDED"
    BY <1>0, <1>11 DEF SuspendStep
  <2> QED
    BY <1>11, <2>1 DEF StepMove
<1>12. ASSUME NEW w \in Slots, recordFinalFailure(w) PROVE StepMove(s)
  <2> DEFINE u == ex[w].step
             r == RunOf[u]
             st == [t \in Steps |-> IF t = u THEN "FAILED"
                                    ELSE IF RunOf[t] = r /\ stepStatus[t] \in Active THEN "CANCELLED"
                                    ELSE stepStatus[t]]
             o == IF runStatus[r] \in Live THEN "FAILED" ELSE runStatus[r]
  <2>1. u \in Steps /\ r \in Runs
    BY <1>0, <1>12 DEF recordFinalFailure
  <2>2. CASE runStatus[r] = "DELETED"
    BY <1>1, <1>12, <2>2 DEF recordFinalFailure
  <2>3. CASE runStatus[r] # "DELETED"
    <3>1. SetRun(r, o, st)
      BY <1>12, <2>3 DEF recordFinalFailure, FinalFailStep
    <3>2. /\ r \in Ephemeral => runStatus'[r] = "DELETED"
          /\ r \notin Ephemeral => stepStatus'[s] = st[s]
          /\ r \in Ephemeral => stepStatus'[s] = IF RunOf[s] = r THEN "DELETED" ELSE st[s]
      BY <1>0, <2>1, <3>1, SetRunRows
    <3>3. \/ stepStatus'[s] = "DELETED" /\ runStatus'[RunOf[s]] = "DELETED"
          \/ stepStatus'[s] = st[s]
      BY <3>2
    <3>4. CASE stepStatus'[s] = st[s]
      BY <1>12, <2>3, <3>4 DEF StepMove
    <3> QED
      BY <3>3, <3>4 DEF StepMove
  <2> QED
    BY <2>2, <2>3
<1>13. ASSUME NEW w \in Slots, completeDirect(w) PROVE StepMove(s)
  <2>1. ex[w].step \in Steps /\ Completes(ex[w].step) /\ completeStepTx(ex[w].step)
    BY <1>0, <1>13 DEF completeDirect, Completes
  <2> QED
    BY <2>1, completeStepMovesStep
<1>14. CASE CompleteStep
  <2>1. Head(pending) \in Steps /\ Completes(Head(pending)) /\ completeStepTx(Head(pending))
    BY <1>14 DEF CompleteStep, Completes, TypeOK, MemoryTyped
  <2> QED
    BY <2>1, completeStepMovesStep
<1>15. CASE InterruptAll
  <2>1. \/ stepStatus'[s] = stepStatus[s]
        \/ stepStatus'[s] = "DELETED" /\ runStatus'[RunOf[s]] = "DELETED"
        \/ stepStatus[s] = "RUNNING" /\ stepStatus'[s] = "INTERRUPTED"
    BY <1>0, <1>15 DEF InterruptAll
  <2> QED
    BY <1>15, <2>1 DEF StepMove
<1>16. CASE Restart
  <2>1. PICK keep \in BootModes : recoverInterrupted(keep)
    BY <1>16 DEF Restart
  <2>2. \/ stepStatus'[s] = stepStatus[s]
        \/ stepStatus'[s] = "DELETED" /\ runStatus'[RunOf[s]] = "DELETED"
        \/ stepStatus[s] \in {"RUNNING", "INTERRUPTED", "SUSPENDED"} /\ stepStatus'[s] \in {"QUEUED", "FAILED"}
    BY <1>0, <2>1 DEF recoverInterrupted, Cut
  <2> QED
    BY <1>16, <2>2 DEF StepMove
<1>17. CASE UNCHANGED rows
  BY <1>1, <1>17 DEF rows
<1> QED
  BY <1>2, <1>3, <1>4, <1>5, <1>6, <1>7, <1>8, <1>9, <1>10, <1>11, <1>12, <1>13, <1>14, <1>15, <1>16, <1>17,
     RowWriters DEF RowWrite

\* A run is deleted together with its steps.
LEMMA DeletesWhole ==
    ASSUME TypeOK, StartedRuns, [Next]_vars, NEW s \in Steps,
           runStatus[RunOf[s]] # "DELETED", runStatus'[RunOf[s]] = "DELETED"
    PROVE  stepStatus'[s] = "DELETED"
<1> DEFINE r == RunOf[s]
<1>0. /\ StoreTyped /\ r \in Runs
      /\ \A w \in Slots : ex[w].pc # "idle" => ex[w].step \in Steps /\ RunOf[ex[w].step] \in Runs
  BY DEF TypeOK, ExecTyped
<1>1. ASSUME NEW q \in Runs, NEW o, o # "DELETED", NEW st, SetRun(q, o, st) PROVE stepStatus'[s] = "DELETED"
  BY <1>0, <1>1, SetRunRows
<1>2. ASSUME NEW q \in Runs, CancelRun(q) PROVE stepStatus'[s] = "DELETED"
  BY <1>1, <1>2 DEF CancelRun
<1>3. ASSUME NEW q \in Runs, purgeRunBatch(q) PROVE stepStatus'[s] = "DELETED"
  BY <1>0, <1>3 DEF purgeRunBatch, deleteEphemeralRunTx, StoreTyped
<1>4. ASSUME NEW t \in Steps, completeStepTx(t) PROVE stepStatus'[s] = "DELETED"
  <2>1. RunOf[t] \in Runs
    OBVIOUS
  <2>2. /\ RunOutcome(t) \in {"SUCCEEDED", "FAILED"}
        /\ SetRun(RunOf[t], RunOutcome(t), unblockReadyTx(t))
    BY <1>0, <1>4, completeStepCases DEF rows
  <2> QED
    BY <1>1, <2>1, <2>2
<1>5. ASSUME NEW w \in Slots, recordFinalFailure(w) PROVE stepStatus'[s] = "DELETED"
  <2> DEFINE q == RunOf[ex[w].step]
  <2>1. q \in Runs
    BY <1>0, <1>5 DEF recordFinalFailure
  <2>2. runStatus[q] # "DELETED" /\ FinalFailStep(ex[w].step)
    BY <1>0, <1>5 DEF recordFinalFailure
  <2>3. PICK st : SetRun(q, IF runStatus[q] \in Live THEN "FAILED" ELSE runStatus[q], st)
    BY <2>2 DEF FinalFailStep
  <2> QED
    BY <1>1, <2>1, <2>2, <2>3
<1>6. ASSUME NEW w \in Slots, completeDirect(w) PROVE stepStatus'[s] = "DELETED"
  BY <1>0, <1>4, <1>6 DEF completeDirect
<1>7. CASE CompleteStep
  <2>1. Head(pending) \in Steps /\ completeStepTx(Head(pending))
    BY <1>7 DEF CompleteStep, TypeOK, MemoryTyped
  <2> QED
    BY <1>4, <2>1
<1>8. CASE InterruptAll
  BY <1>0, <1>8 DEF InterruptAll
<1>9. CASE Restart
  <2>1. PICK keep \in BootModes : recoverInterrupted(keep)
    BY <1>9 DEF Restart
  <2> QED
    BY <1>0, <2>1 DEF recoverInterrupted
<1>10. CASE UNCHANGED rows \/ DeliverEvent
  BY <1>10 DEF rows, DeliverEvent
<1>11. ASSUME NEW c \in calls, EnqueueCreate(c) PROVE FALSE
  BY <1>0, <1>11, CreatedRows DEF TypeOK, StartedRuns, Replaces
<1>12. ASSUME NEW q \in Runs, PauseRun(q) \/ ResumeRun(q) \/ RetryDeadLetter(q) PROVE FALSE
  BY <1>0, <1>12 DEF PauseRun, ResumeRun, RetryDeadLetter, reopenRun, StoreTyped
<1>13. ASSUME NEW w \in Slots, NEW t \in Steps, claimQueueTx(w, t) PROVE FALSE
  BY <1>0, <1>13 DEF claimQueueTx, StoreTyped
<1>14. ASSUME NEW w \in Slots, \/ ParkStep(w) \/ WriteStepCancelled(w) \/ RequeuePausedStep(w) \/ RetryStep(w)
                               \/ \E kind \in {"sleep", "wait", "deadline"} : SuspendStep(w, kind)
       PROVE  FALSE
  BY <1>14 DEF ParkStep, WriteStepCancelled, RequeuePausedStep, RetryStep, SuspendStep
<1> QED
  BY <1>2, <1>3, <1>5, <1>6, <1>7, <1>8, <1>9, <1>10, <1>11, <1>12, <1>13, <1>14, RowWriters DEF RowWrite

LEMMA DeletedStep == TypeOK /\ StartedRuns /\ DeletedRuns /\ [Next]_vars => DeletedRuns'
<1> SUFFICES ASSUME TypeOK, StartedRuns, DeletedRuns, [Next]_vars, NEW s \in Steps, runStatus'[RunOf[s]] = "DELETED"
             PROVE  stepStatus'[s] = "DELETED"
  BY DEF DeletedRuns
<1>1. CASE runStatus[RunOf[s]] = "DELETED"
  <2>1. StepMove(s) /\ stepStatus[s] = "DELETED"
    BY <1>1, StepMoves DEF DeletedRuns
  <2> QED
    BY <1>1, <2>1 DEF StepMove, StepDone, Active
<1> QED
  BY <1>1, DeletesWhole

-----------------------------------------------------------------------------
(* No RUNNING row without somebody who answers for it.                      *)

Answering == Holding \cup {"stepCancel"}

\* Somebody answers for step s.
Owned(s) == \/ \E w \in Slots : ex[w].step = s /\ ex[w].pc \in Answering
            \/ \E i \in DOMAIN pending : pending[i] = s

\* Without store errors the engine never orphans a RUNNING row while it is up.
NoStoreErrors == budget["storeError"] = 0
RowsOwned == /\ NoStoreErrors
             /\ mode = "up" => \A s \in Steps : stepStatus[s] = "RUNNING" => Owned(s)

LEMMA BudgetShrinks ==
    ASSUME TypeOK, [Next]_vars, NEW op \in Ops, budget[op] = 0
    PROVE  budget'[op] = 0
<1>0. budget \in [Ops -> Nat]
  BY DEF TypeOK, EngineTyped
<1>1. ASSUME NEW o \in Ops, Spend(o) PROVE budget'[op] = 0
  BY <1>0, <1>1 DEF Spend
<1>2. ASSUME NEW r \in Runs, ClientCall(r) PROVE budget' = budget \/ \E o \in Ops : Spend(o)
  BY <1>2 DEF ClientCall, EnqueueRegister, CancelRun, PauseRun, ResumeRun, RetryDeadLetter,
              DismissDeadLetter, purgeRunBatch, Ops
<1>3. ASSUME NEW c \in calls, CallContinues(c) PROVE budget' = budget \/ \E o \in Ops : Spend(o)
  BY <1>3 DEF CallContinues, EnqueueCreate, EnqueueFail, interruptLocal, PauseMark, StoreFails, Ops
<1>4. ASSUME NEW w \in Slots, ExecutorStep(w) PROVE budget' = budget
  BY <1>4 DEF ExecutorStep, ParkStep, Register, HaltCheck, PauseCheck, SuspendCheck, AfterBody,
              consumePause, PauseTerminal, Decide, ClosingCheck, submitCompletion, WriteStepCancelled,
              RequeuePausedStep, RetryStep, recordFinalFailure, completeDirect, FinishRun, Exit
<1>5. ASSUME NEW w \in Slots, Body(w) \/ WriteFails(w) PROVE budget' = budget \/ \E o \in Ops : Spend(o)
  BY <1>5 DEF Body, BodyReturns, SuspendStep, WriteFails, StoreFails, Ops
<1>6. ASSUME NEW w \in Slots, NEW s \in Steps, claimQueueTx(w, s) PROVE budget' = budget
  BY <1>6 DEF claimQueueTx
<1>7. CASE DeliverEvent \/ RegisterTask \/ CompleteStep \/ CompletionFails \/ afterComplete
  BY <1>1, <1>7 DEF DeliverEvent, RegisterTask, CompleteStep, CompletionFails, afterComplete, Ops
<1>8. CASE Shutdown \/ Restart
  BY <1>1, <1>8 DEF Shutdown, CloseBegin, stopCompleter, completerDone, InterruptAll, CloseRelease, Restart, Ops
<1>9. CASE UNCHANGED vars
  BY <1>9 DEF vars
<1> QED
  BY <1>1, <1>2, <1>3, <1>4, <1>5, <1>6, <1>7, <1>8, <1>9 DEF Next

\* A completion settles a RUNNING row of a run that exists.
LEMMA CompletionSettles ==
    ASSUME TypeOK, StartedRuns, DeletedRuns, NEW s \in Steps, stepStatus[s] = "RUNNING", completeStepTx(s)
    PROVE  stepStatus'[s] # "RUNNING"
<1>0. StoreTyped /\ RunOf[s] \in Runs /\ runStatus[RunOf[s]] \in RunStatuses /\ stepStatus \in [Steps -> StepStatuses]
  BY DEF TypeOK, StoreTyped
<1>1. runStatus[RunOf[s]] \notin {"NEW", "DELETED"}
  BY DEF StartedRuns, FreshRuns, DeletedRuns
<1>2. runTerminal(RunOf[s]) \/ StepDone(s)
  BY <1>0, <1>1 DEF runTerminal, StepDone, RunStatuses
<1>3. unblockReadyTx(s)[s] = "SUCCEEDED"
  BY <1>0 DEF unblockReadyTx
<1>4. CASE /\ runTerminal(RunOf[s]) /\ runStatus' = runStatus
           /\ stepStatus' = [stepStatus EXCEPT ![s] =
                 IF stepStatus[s] \in {"QUEUED", "RUNNING"} THEN "CANCELLED" ELSE stepStatus[s]]
  BY <1>0, <1>4
<1>5. CASE stepStatus' = unblockReadyTx(s)
  BY <1>3, <1>5
<1>6. CASE SetRun(RunOf[s], RunOutcome(s), unblockReadyTx(s))
  BY <1>0, <1>3, <1>6, SetRunRows
<1> QED
  BY <1>0, <1>2, <1>4, <1>5, <1>6, completeStepCases

\* An executor that stops answering for its RUNNING row has settled it or handed it on.
LEMMA OwnerSettles ==
    ASSUME TypeOK, StartedRuns, DeletedRuns, NoStoreErrors, mode = "up", NEW w \in Slots, OwnStep(w),
           ex[w].pc \in Answering, stepStatus[ex[w].step] = "RUNNING", stepStatus'[ex[w].step] = "RUNNING"
    PROVE  \/ ex'[w].pc \in Answering /\ ex'[w].step = ex[w].step
           \/ pending' = Append(pending, ex[w].step)
<1> DEFINE s == ex[w].step
<1>0. /\ StoreTyped /\ s \in Steps /\ RunOf[s] \in Runs /\ ex \in [Slots -> Executors] /\ ex[w] \in Executors
      /\ stepStatus \in [Steps -> StepStatuses]
  BY DEF TypeOK, ExecTyped, StoreTyped, Answering, Holding
<1>1. ASSUME NEW l \in Answering, Goto(w, l) PROVE ex'[w].pc \in Answering /\ ex'[w].step = s
  BY <1>0, <1>1 DEF Goto, Executors
<1>2. ~ ParkStep(w) /\ ~ RequeuePausedStep(w) /\ ~ RetryStep(w)
  BY <1>0 DEF ParkStep, RequeuePausedStep, RetryStep, Refund, UpdateStep
<1>3. ~ WriteStepCancelled(w)
  BY <1>0 DEF WriteStepCancelled, StepCancelled, UpdateStep
<1>4. ~ \E kind \in {"sleep", "wait", "deadline"} : SuspendStep(w, kind)
  BY <1>0 DEF SuspendStep
<1>5. ~ completeDirect(w)
  BY <1>0, CompletionSettles DEF completeDirect
<1>6. ~ recordFinalFailure(w)
  <2> DEFINE st == [t \in Steps |-> IF t = s THEN "FAILED"
                                    ELSE IF RunOf[t] = RunOf[s] /\ stepStatus[t] \in Active THEN "CANCELLED"
                                    ELSE stepStatus[t]]
             o == IF runStatus[RunOf[s]] \in Live THEN "FAILED" ELSE runStatus[RunOf[s]]
  <2>1. runStatus[RunOf[s]] # "DELETED"
    BY <1>0 DEF DeletedRuns
  <2>2. recordFinalFailure(w) => SetRun(RunOf[s], o, st)
    BY <2>1 DEF recordFinalFailure, FinalFailStep
  <2>3. st[s] = "FAILED"
    BY <1>0
  <2> HIDE DEF st, o
  <2> QED
    BY <1>0, <2>2, <2>3, SetRunRows
<1>7. ~ WriteFails(w)
  BY DEF WriteFails, StoreFails, StoreOpen, Spend, NoStoreErrors
<1>8. ~ FinishRun(w) /\ ~ Exit(w) /\ ~ SuspendCheck(w) /\ ~ \E t \in Steps : claimQueueTx(w, t)
  BY DEF FinishRun, Exit, SuspendCheck, claimQueueTx, Answering, Holding
<1>9. CASE submitCompletion(w)
  BY <1>9 DEF submitCompletion
<1>10. CASE \/ Register(w) \/ HaltCheck(w) \/ PauseCheck(w) \/ AfterBody(w) \/ PauseTerminal(w) \/ Decide(w) \/ ClosingCheck(w)
  <2>1. \E l \in Answering : Goto(w, l)
    BY <1>10 DEF Register, HaltCheck, PauseCheck, AfterBody, consumePause, PauseTerminal, Decide, Decision,
                 ClosingCheck, Answering, Holding
  <2> QED
    BY <1>1, <2>1
<1>11. ASSUME NEW res, BodyReturns(w, res) PROVE ex'[w].pc \in Answering /\ ex'[w].step = s
  <2>1. ex' = [ex EXCEPT ![w] = [ex[w] EXCEPT !.pc = "afterBody", !.res = res]]
    BY <1>11 DEF BodyReturns
  <2> QED
    BY <1>0, <2>1 DEF Executors, Answering, Holding
<1> QED
  BY <1>2, <1>3, <1>4, <1>5, <1>6, <1>7, <1>8, <1>9, <1>10, <1>11 DEF OwnStep, ExecutorStep, Body

LEMMA RowsOwnedStep == TypeOK /\ StartedRuns /\ DeletedRuns /\ RowsOwned /\ [Next]_vars => RowsOwned'
<1> SUFFICES ASSUME TypeOK, StartedRuns, DeletedRuns, RowsOwned, [Next]_vars PROVE RowsOwned'
  OBVIOUS
<1>0. NoStoreErrors /\ NoStoreErrors'
  BY BudgetShrinks DEF RowsOwned, NoStoreErrors, Ops
<1>1. ASSUME mode' = "up", NEW s \in Steps, stepStatus'[s] = "RUNNING" PROVE Owned(s)'
  <2>0. /\ pending \in Seq(Steps) /\ ex \in [Slots -> Executors] /\ stepStatus \in [Steps -> StepStatuses]
        /\ RunOf[s] \in Runs
    BY DEF TypeOK, MemoryTyped, ExecTyped, StoreTyped
  <2>1. ~ Restart
    <3>1. ASSUME NEW keep \in BootModes, recoverInterrupted(keep) PROVE FALSE
      BY <1>1, <2>0, <3>1 DEF recoverInterrupted, Cut
    <3> QED
      BY <3>1 DEF Restart
  <2>2. mode = "up"
    <3>1. mode' = mode \/ Shutdown
      <4>1. ASSUME NEW r \in Runs, ClientCall(r) PROVE mode' = mode
        BY <4>1 DEF ClientCall, EnqueueRegister, CancelRun, PauseRun, ResumeRun, RetryDeadLetter,
                    DismissDeadLetter, purgeRunBatch
      <4>2. ASSUME NEW c \in calls, CallContinues(c) PROVE mode' = mode
        BY <4>2 DEF CallContinues, EnqueueCreate, EnqueueFail, interruptLocal, PauseMark
      <4>3. ASSUME NEW w \in Slots, ExecutorStep(w) PROVE mode' = mode
        BY <4>3 DEF ExecutorStep, ParkStep, Register, HaltCheck, PauseCheck, SuspendCheck, AfterBody,
                    consumePause, PauseTerminal, Decide, ClosingCheck, submitCompletion, WriteStepCancelled,
                    RequeuePausedStep, RetryStep, recordFinalFailure, completeDirect, FinishRun, Exit
      <4>4. ASSUME NEW w \in Slots, Body(w) \/ WriteFails(w) PROVE mode' = mode
        BY <4>4 DEF Body, BodyReturns, SuspendStep, WriteFails
      <4>5. ASSUME NEW w \in Slots, NEW t \in Steps, claimQueueTx(w, t) PROVE mode' = mode
        BY <4>5 DEF claimQueueTx
      <4>6. CASE DeliverEvent \/ RegisterTask \/ CompleteStep \/ CompletionFails \/ afterComplete
        BY <4>6 DEF DeliverEvent, RegisterTask, CompleteStep, CompletionFails, afterComplete
      <4>7. CASE UNCHANGED vars
        BY <4>7 DEF vars
      <4> QED
        BY <2>1, <4>1, <4>2, <4>3, <4>4, <4>5, <4>6, <4>7 DEF Next
    <3> QED
      BY <1>1, <3>1 DEF Shutdown, CloseBegin, stopCompleter, completerDone, InterruptAll, CloseRelease
  <2>3. StepMove(s)
    BY StepMoves
  <2>4. CASE \E w \in Slots : claimQueueTx(w, s)
    <3>1. PICK w \in Slots : claimQueueTx(w, s)
      BY <2>4
    <3>2. ex' = [ex EXCEPT ![w] = [Idle EXCEPT !.pc = "claimed", !.step = s, !.att = attempts'[s]]]
      BY <3>1 DEF claimQueueTx
    <3>3. ex'[w].step = s /\ ex'[w].pc = "claimed"
      BY <2>0, <3>2 DEF Idle
    <3> QED
      BY <3>3 DEF Owned, Answering, Holding
  <2>5. CASE stepStatus[s] = "RUNNING"
    <3>1. Owned(s)
      BY <2>2, <2>5 DEF RowsOwned
    <3>2. ASSUME NEW w \in Slots, ex[w].step = s, ex[w].pc \in Answering PROVE Owned(s)'
      <4>1. Bystander(w) => ex'[w].pc = ex[w].pc /\ ex'[w].step = ex[w].step
        BY <2>0, BystanderFields
      <4>2. CASE Bystander(w)
        BY <3>2, <4>1, <4>2 DEF Owned
      <4>3. CASE OwnStep(w)
        <5>1. \/ ex'[w].pc \in Answering /\ ex'[w].step = s
              \/ pending' = Append(pending, s)
          BY <1>0, <1>1, <2>2, <2>5, <3>2, <4>3, OwnerSettles
        <5>2. ASSUME pending' = Append(pending, s) PROVE \E i \in DOMAIN pending' : pending'[i] = s
          BY <2>0, <5>2
        <5> QED
          BY <5>1, <5>2 DEF Owned
      <4> QED
        BY <2>1, <4>2, <4>3, SlotFrame
    <3>3. ASSUME NEW i \in DOMAIN pending, pending[i] = s PROVE \E j \in DOMAIN pending' : pending'[j] = s
      <4>1. CASE pending' = pending
        BY <3>3, <4>1
      <4>2. ASSUME NEW t \in Steps, pending' = Append(pending, t) PROVE \E j \in DOMAIN pending' : pending'[j] = s
        <5>1. i \in DOMAIN pending' /\ pending'[i] = pending[i]
          BY <2>0, <3>3, <4>2
        <5> QED
          BY <3>3, <5>1
      <4>3. CASE pending # <<>> /\ pending' = Tail(pending) /\ CompleteStep
        <5>1. CASE i = 1
          <6>1. completeStepTx(s)
            BY <2>0, <3>3, <4>3, <5>1 DEF CompleteStep
          <6> QED
            BY <1>1, <2>5, <6>1, CompletionSettles
        <5>2. CASE i # 1
          <6>1. i - 1 \in DOMAIN pending' /\ pending'[i - 1] = pending[i]
            BY <2>0, <3>3, <4>3, <5>2
          <6> QED
            BY <3>3, <6>1
        <5> QED
          BY <5>1, <5>2
      <4>4. ~ CompletionFails
        BY <1>0 DEF CompletionFails, Spend, NoStoreErrors
      <4>5. ASSUME NEW w \in Slots, submitCompletion(w) PROVE ex[w].step \in Steps
        BY <4>5 DEF submitCompletion, TypeOK, ExecTyped
      <4> QED
        BY <2>1, <4>1, <4>2, <4>3, <4>4, <4>5, PendingMoves
    <3> QED
      BY <3>1, <3>2, <3>3 DEF Owned
  <2> QED
    BY <1>1, <2>1, <2>3, <2>4, <2>5 DEF StepMove
<1> QED
  BY <1>0, <1>1 DEF RowsOwned

LEMMA DeletedInit == Init => DeletedRuns
BY DEF Init, DeletedRuns

\* Without store errors no RUNNING row is ever orphaned while the engine is up,
\* over crashes, closes, cancels and revivals: an executor or the completer still
\* answers for it, so the row is not left to the next boot.
THEOREM NoRowOrphaned ==
    ASSUME Budget["storeError"] = 0
    PROVE  Spec => []RunningIsOwned
<1>1. Init => RowsOwned
  BY DEF Init, RowsOwned, NoStoreErrors
<1>2. RowsOwned => RunningIsOwned
  BY DEF RowsOwned, RunningIsOwned, Owned, Answering
<1> QED
  BY <1>1, <1>2, RowsOwnedStep, TypeCorrect, StartedInit, StartedStep, DeletedInit, DeletedStep, PTL DEF Spec

-----------------------------------------------------------------------------
(* The moves of an executor.                                                *)

\* The executor in slot w goes to l and is otherwise as it was.
Goes(w, l) == /\ ex'[w].pc = l /\ ex'[w].res = ex[w].res /\ ex'[w].kill = ex[w].kill

\* The step an executor takes by itself: freed, claimed, or one stage further
\* with its step, its attempt number and its context as they were.
ExecMove(w) ==
    \/ ex'[w] = Idle /\ (Exit(w) \/ ex[w].pc = "claimed")
    \/ \E s \in Steps : /\ claimQueueTx(w, s)
                        /\ ex'[w] = [Idle EXCEPT !.pc = "claimed", !.step = s, !.att = attempts'[s]]
    \/ FinishRun(w) /\ ex'[w].pc = "exit" /\ ex'[w].step = ex[w].step /\ ex'[w].kill = {}
    \/ /\ ex'[w].step = ex[w].step /\ ex'[w].att = ex[w].att /\ ex'[w].cancelled = ex[w].cancelled
       /\ \/ Register(w) /\ Goes(w, IF ex[w].step \in haltSteps THEN "halted" ELSE "pauseCheck")
          \/ HaltCheck(w) /\ Goes(w, IF runTerminal(RunOf[ex[w].step]) THEN "stepCancel" ELSE "pauseCheck")
          \/ PauseCheck(w) /\ Goes(w, IF ex[w].step \in pauseSteps THEN "requeue" ELSE "body")
          \/ SuspendCheck(w) /\ Goes(w, IF runTerminal(RunOf[ex[w].step]) THEN "stepCancel" ELSE "exit")
          \/ AfterBody(w) /\ Goes(w, IF ex[w].step \in pauseSteps /\ ex[w].res = "canceled"
                                     THEN "pauseTerminal" ELSE "decide")
          \/ PauseTerminal(w) /\ Goes(w, IF runTerminal(RunOf[ex[w].step]) THEN "decide" ELSE "requeue")
          \/ Decide(w) /\ Goes(w, Decision(w))
          \/ ClosingCheck(w) /\ Goes(w, IF mode # "up" THEN "exit" ELSE IF AttemptsLeft(w) THEN "retry" ELSE "finalFail")
          \/ submitCompletion(w) /\ Goes(w, IF mode \in {"up", "closing"} THEN "exit" ELSE "direct")
          \/ (WriteStepCancelled(w) \/ RequeuePausedStep(w) \/ RetryStep(w)) /\ Goes(w, "exit")
          \/ (\E kind \in {"sleep", "wait", "deadline"} : SuspendStep(w, kind)) /\ Goes(w, "suspended")
          \/ WriteFails(w) /\ ex[w].pc \in {"stepCancel", "requeue", "retry", "finalFail", "direct"} /\ Goes(w, "exit")
          \/ recordFinalFailure(w) /\ runStatus[RunOf[ex[w].step]] = "DELETED" /\ Goes(w, "exit")
          \/ /\ recordFinalFailure(w) /\ runStatus[RunOf[ex[w].step]] # "DELETED" /\ ex'[w].pc = "finish"
             /\ ex'[w].kill = {t \in StepsOf(RunOf[ex[w].step]) \ {ex[w].step} : stepStatus[t] \in Active}
          \/ completeDirect(w) /\ ex'[w].pc \in {"exit", "finish"} /\ ex'[w].kill = ex[w].kill
          \/ \E res \in {"ok", "err", "canceled", "veto"} :
                BodyReturns(w, res) /\ ex'[w].pc = "afterBody" /\ ex'[w].res = res /\ ex'[w].kill = ex[w].kill

LEMMA GotoFields ==
    ASSUME ExecTyped, NEW w \in Slots, NEW l, Goto(w, l)
    PROVE  /\ ex'[w].step = ex[w].step /\ ex'[w].att = ex[w].att /\ ex'[w].cancelled = ex[w].cancelled
           /\ Goes(w, l)
<1>1. ex \in [Slots -> Executors] /\ ex[w] \in Executors
  BY DEF ExecTyped
<1>2. ex' = [ex EXCEPT ![w] = [ex[w] EXCEPT !.pc = l]]
  BY DEF Goto
<1>3. ex'[w] = [ex[w] EXCEPT !.pc = l]
  BY <1>1, <1>2
<1> QED
  BY <1>1, <1>3 DEF Executors, Goes

\* A direct write is the last thing its executor does before it answers and exits.
LEMMA DirectLeaves ==
    ASSUME TypeOK, NEW w \in Slots, completeDirect(w)
    PROVE  ex'[w].pc \in {"exit", "finish"}
<1> DEFINE o == RunOutcome(ex[w].step)
<1>0. ex \in [Slots -> Executors] /\ ex[w] \in Executors
  BY DEF TypeOK, ExecTyped
<1>1. ex' = [ex EXCEPT ![w].pc = IF o = None THEN "exit" ELSE "finish", ![w].res = IF o = None THEN @ ELSE o]
  BY DEF completeDirect
<1> HIDE DEF o
<1> QED
  BY <1>0, <1>1 DEF Executors

LEMMA ExecMoves ==
    ASSUME TypeOK, NEW w \in Slots, OwnStep(w)
    PROVE  ExecMove(w)
<1>0. ExecTyped /\ ex \in [Slots -> Executors] /\ ex[w] \in Executors
  BY DEF TypeOK, ExecTyped
<1> DEFINE Kept == ex'[w].step = ex[w].step /\ ex'[w].att = ex[w].att /\ ex'[w].cancelled = ex[w].cancelled
<1>1. ASSUME NEW l, Goto(w, l) PROVE Kept /\ Goes(w, l)
  BY <1>0, <1>1, GotoFields
<1>2. CASE FinishRun(w)
  <2> DEFINE cc == CancelContexts(ex[w].kill)
  <2>1. ex' = [cc EXCEPT ![w].pc = "exit", ![w].kill = {}]
    BY <1>2 DEF FinishRun
  <2>2. cc \in [Slots -> Executors] /\ cc[w] \in Executors /\ cc[w].step = ex[w].step
    BY CancelContextsTyped DEF TypeOK
  <2> HIDE DEF cc
  <2>3. ex'[w].pc = "exit" /\ ex'[w].step = ex[w].step /\ ex'[w].kill = {}
    BY <2>1, <2>2 DEF Executors
  <2> QED
    BY <1>2, <2>3 DEF ExecMove
<1>3. CASE \E s \in Steps : claimQueueTx(w, s)
  <2>1. PICK s \in Steps : claimQueueTx(w, s)
    BY <1>3
  <2>2. ex' = [ex EXCEPT ![w] = [Idle EXCEPT !.pc = "claimed", !.step = s, !.att = attempts'[s]]]
    BY <2>1 DEF claimQueueTx
  <2>3. ex'[w] = [Idle EXCEPT !.pc = "claimed", !.step = s, !.att = attempts'[s]]
    BY <1>0, <2>2
  <2> QED
    BY <2>1, <2>3 DEF ExecMove
<1>4. CASE ParkStep(w) \/ Exit(w)
  <2>1. ex' = [ex EXCEPT ![w] = Idle] /\ (Exit(w) \/ ex[w].pc = "claimed")
    BY <1>4 DEF ParkStep, Exit
  <2>2. ex'[w] = Idle
    BY <1>0, <2>1
  <2> QED
    BY <2>1, <2>2 DEF ExecMove
<1>5. CASE WriteFails(w)
  <2>1. CASE Goto(w, "exit") /\ ex[w].pc \in {"stepCancel", "requeue", "retry", "finalFail", "direct"}
    BY <1>1, <1>5, <2>1 DEF ExecMove
  <2>2. CASE ex' = [ex EXCEPT ![w] = Idle] /\ ex[w].pc = "claimed"
    <3>1. ex'[w] = Idle
      BY <1>0, <2>2
    <3> QED
      BY <2>2, <3>1 DEF ExecMove
  <2> QED
    BY <1>5, <2>1, <2>2 DEF WriteFails
<1>6. CASE Body(w)
  <2>1. ASSUME NEW res \in {"ok", "err", "canceled", "veto"}, BodyReturns(w, res) PROVE ExecMove(w)
    <3>1. ex' = [ex EXCEPT ![w] = [ex[w] EXCEPT !.pc = "afterBody", !.res = res]]
      BY <2>1 DEF BodyReturns
    <3>2. ex'[w] = [ex[w] EXCEPT !.pc = "afterBody", !.res = res]
      BY <1>0, <3>1
    <3>3. Kept /\ ex'[w].pc = "afterBody" /\ ex'[w].res = res /\ ex'[w].kill = ex[w].kill
      BY <1>0, <3>2 DEF Executors
    <3> QED
      BY <2>1, <3>3 DEF ExecMove
  <2>2. ASSUME NEW kind \in {"sleep", "wait", "deadline"}, SuspendStep(w, kind) PROVE ExecMove(w)
    <3>1. Kept /\ Goes(w, "suspended")
      BY <1>1, <2>2 DEF SuspendStep
    <3> QED
      BY <2>2, <3>1 DEF ExecMove
  <2> QED
    BY <1>6, <2>1, <2>2 DEF Body
<1>7. CASE Register(w)
  <2>1. Kept /\ Goes(w, IF ex[w].step \in haltSteps THEN "halted" ELSE "pauseCheck")
    BY <1>1, <1>7 DEF Register
  <2> QED
    BY <1>7, <2>1 DEF ExecMove
<1>8. CASE HaltCheck(w)
  <2>1. Kept /\ Goes(w, IF runTerminal(RunOf[ex[w].step]) THEN "stepCancel" ELSE "pauseCheck")
    BY <1>1, <1>8 DEF HaltCheck
  <2> QED
    BY <1>8, <2>1 DEF ExecMove
<1>9. CASE PauseCheck(w)
  <2>1. Kept /\ Goes(w, IF ex[w].step \in pauseSteps THEN "requeue" ELSE "body")
    BY <1>1, <1>9 DEF PauseCheck, consumePause
  <2> QED
    BY <1>9, <2>1 DEF ExecMove
<1>10. CASE SuspendCheck(w)
  <2>1. Kept /\ Goes(w, IF runTerminal(RunOf[ex[w].step]) THEN "stepCancel" ELSE "exit")
    BY <1>1, <1>10 DEF SuspendCheck
  <2> QED
    BY <1>10, <2>1 DEF ExecMove
<1>11. CASE AfterBody(w)
  <2> DEFINE l == IF ex[w].step \in pauseSteps THEN IF ex[w].res = "canceled" THEN "pauseTerminal" ELSE "decide"
                                               ELSE "decide"
  <2>1. Goto(w, l)
    BY <1>11 DEF AfterBody, consumePause
  <2>2. l = IF ex[w].step \in pauseSteps /\ ex[w].res = "canceled" THEN "pauseTerminal" ELSE "decide"
    OBVIOUS
  <2> HIDE DEF l
  <2>3. Kept /\ Goes(w, l)
    BY <1>1, <2>1
  <2> QED
    BY <1>11, <2>2, <2>3 DEF ExecMove
<1>12. CASE PauseTerminal(w)
  <2>1. Kept /\ Goes(w, IF runTerminal(RunOf[ex[w].step]) THEN "decide" ELSE "requeue")
    BY <1>1, <1>12 DEF PauseTerminal
  <2> QED
    BY <1>12, <2>1 DEF ExecMove
<1>13. CASE Decide(w)
  <2>1. Kept /\ Goes(w, Decision(w))
    BY <1>1, <1>13 DEF Decide
  <2> QED
    BY <1>13, <2>1 DEF ExecMove
<1>14. CASE ClosingCheck(w)
  <2>1. Kept /\ Goes(w, IF mode # "up" THEN "exit" ELSE IF AttemptsLeft(w) THEN "retry" ELSE "finalFail")
    BY <1>1, <1>14 DEF ClosingCheck
  <2> QED
    BY <1>14, <2>1 DEF ExecMove
<1>15. CASE submitCompletion(w)
  <2>1. Goto(w, IF mode \in {"up", "closing"} THEN "exit" ELSE "direct")
    BY <1>15 DEF submitCompletion
  <2>2. Kept /\ Goes(w, IF mode \in {"up", "closing"} THEN "exit" ELSE "direct")
    BY <1>1, <2>1
  <2> QED
    BY <1>15, <2>2 DEF ExecMove
<1>16. CASE WriteStepCancelled(w) \/ RequeuePausedStep(w) \/ RetryStep(w)
  <2>1. Kept /\ Goes(w, "exit")
    BY <1>1, <1>16 DEF WriteStepCancelled, RequeuePausedStep, RetryStep
  <2> QED
    BY <1>16, <2>1 DEF ExecMove
<1>17. CASE recordFinalFailure(w)
  <2> DEFINE k == {t \in StepsOf(RunOf[ex[w].step]) \ {ex[w].step} : stepStatus[t] \in Active}
  <2>1. CASE runStatus[RunOf[ex[w].step]] = "DELETED"
    <3>1. Kept /\ Goes(w, "exit")
      BY <1>1, <1>17, <2>1 DEF recordFinalFailure
    <3> QED
      BY <1>17, <2>1, <3>1 DEF ExecMove
  <2>2. CASE runStatus[RunOf[ex[w].step]] # "DELETED"
    <3>1. ex' = [ex EXCEPT ![w].pc = "finish", ![w].res = "FAILED", ![w].kill = k]
      BY <1>17, <2>2 DEF recordFinalFailure
    <3> HIDE DEF k
    <3>2. Kept /\ ex'[w].pc = "finish" /\ ex'[w].kill = k
      BY <1>0, <3>1 DEF Executors
    <3> QED
      BY <1>17, <2>2, <3>2 DEF ExecMove, k
  <2> QED
    BY <2>1, <2>2
<1>18. CASE completeDirect(w)
  <2> DEFINE o == RunOutcome(ex[w].step)
  <2>1. ex' = [ex EXCEPT ![w].pc = IF o = None THEN "exit" ELSE "finish",
                         ![w].res = IF o = None THEN @ ELSE o]
    BY <1>18 DEF completeDirect
  <2> HIDE DEF o
  <2>2. Kept /\ ex'[w].pc \in {"exit", "finish"} /\ ex'[w].kill = ex[w].kill
    BY <1>0, <2>1 DEF Executors
  <2> QED
    BY <1>18, <2>2 DEF ExecMove
<1> QED
  BY <1>2, <1>3, <1>4, <1>5, <1>6, <1>7, <1>8, <1>9, <1>10, <1>11, <1>12, <1>13, <1>14, <1>15, <1>16,
     <1>17, <1>18 DEF OwnStep, ExecutorStep

-----------------------------------------------------------------------------
(* The stages of Close, and how a run ends.                                 *)

ModeMove ==
    \/ mode' = mode
    \/ Restart /\ mode' = "up"
    \/ CloseBegin /\ mode = "up" /\ mode' = "closing"
    \/ stopCompleter /\ mode = "closing" /\ mode' = "draining"
    \/ completerDone /\ mode = "draining" /\ mode' = "stopped"
    \/ InterruptAll /\ mode = "stopped" /\ mode' = "swept"
    \/ CloseRelease /\ mode = "swept" /\ mode' = "closed"

LEMMA ModeMoves == ASSUME [Next]_vars PROVE ModeMove
<1>1. ASSUME NEW r \in Runs, ClientCall(r) PROVE mode' = mode
  BY <1>1 DEF ClientCall, EnqueueRegister, CancelRun, PauseRun, ResumeRun, RetryDeadLetter,
              DismissDeadLetter, purgeRunBatch
<1>2. ASSUME NEW c \in calls, CallContinues(c) PROVE mode' = mode
  BY <1>2 DEF CallContinues, EnqueueCreate, EnqueueFail, interruptLocal, PauseMark
<1>3. ASSUME NEW w \in Slots, ExecutorStep(w) PROVE mode' = mode
  BY <1>3 DEF ExecutorStep, ParkStep, Register, HaltCheck, PauseCheck, SuspendCheck, AfterBody,
              consumePause, PauseTerminal, Decide, ClosingCheck, submitCompletion, WriteStepCancelled,
              RequeuePausedStep, RetryStep, recordFinalFailure, completeDirect, FinishRun, Exit
<1>4. ASSUME NEW w \in Slots, Body(w) \/ WriteFails(w) PROVE mode' = mode
  BY <1>4 DEF Body, BodyReturns, SuspendStep, WriteFails
<1>5. ASSUME NEW w \in Slots, NEW t \in Steps, claimQueueTx(w, t) PROVE mode' = mode
  BY <1>5 DEF claimQueueTx
<1>6. CASE DeliverEvent \/ RegisterTask \/ CompleteStep \/ CompletionFails \/ afterComplete
  BY <1>6 DEF DeliverEvent, RegisterTask, CompleteStep, CompletionFails, afterComplete, ModeMove
<1>7. CASE UNCHANGED vars
  BY <1>7 DEF vars, ModeMove
<1>8. CASE Shutdown \/ Restart
  BY <1>8 DEF Shutdown, CloseBegin, stopCompleter, completerDone, InterruptAll, CloseRelease, Restart, ModeMove
<1> QED
  BY <1>1, <1>2, <1>3, <1>4, <1>5, <1>6, <1>7, <1>8 DEF Next, ModeMove

\* What a completion leaves of a run that it ended.
LEMMA CompletionEnds ==
    ASSUME TypeOK, NEW t \in Steps, completeStepTx(t), runStatus'[RunOf[t]] # runStatus[RunOf[t]],
           runStatus'[RunOf[t]] # "DELETED"
    PROVE  /\ StepDone(t) /\ runStatus'[RunOf[t]] \in {"SUCCEEDED", "FAILED"}
           /\ \A s \in StepsOf(RunOf[t]) : stepStatus'[s] \notin Active
           /\ runStatus'[RunOf[t]] = "SUCCEEDED" => \A s \in StepsOf(RunOf[t]) : stepStatus'[s] # "FAILED"
<1> DEFINE st == unblockReadyTx(t)
           of == StepsOf(RunOf[t])
<1>0. StoreTyped /\ RunOf[t] \in Runs
  BY DEF TypeOK
<1>1. StepDone(t) /\ RunOutcome(t) \in {"SUCCEEDED", "FAILED"} /\ SetRun(RunOf[t], RunOutcome(t), st)
  BY <1>0, completeStepCases DEF rows
<1>2. stepStatus' = st /\ runStatus'[RunOf[t]] = RunOutcome(t)
  BY <1>0, <1>1, SetRunRows
<1>3. None # RunOutcome(t) => ~ \E s \in of : st[s] \in Active
  BY DEF RunOutcome
<1>4. RunOutcome(t) # None
  BY <1>1, <1>0 DEF completeStepTx, SetRun
<1>5. RunOutcome(t) = "SUCCEEDED" => ~ \E s \in of : st[s] = "FAILED"
  BY <1>1, <1>4 DEF RunOutcome
<1> HIDE DEF st
<1> QED
  BY <1>1, <1>2, <1>3, <1>4, <1>5

\* A run that is cancelled, fails or succeeds takes its waiting and suspended
\* steps with it; if it succeeds, by the completion of one of its steps, nothing
\* of it is active or FAILED.
LEMMA RunEnds ==
    ASSUME TypeOK, StartedRuns, [Next]_vars, ~Restart, NEW r \in Runs,
           runStatus[r] \in Live, runStatus'[r] \in {"SUCCEEDED", "FAILED", "CANCELLED"},
           NEW s \in StepsOf(r)
    PROVE  /\ stepStatus'[s] \notin {"QUEUED", "BLOCKED", "SUSPENDED"}
           /\ runStatus'[r] = "SUCCEEDED" =>
                 /\ stepStatus'[s] \notin Active \cup {"FAILED"}
                 /\ \E t \in StepsOf(r) : Completes(t) /\ StepDone(t)
<1> DEFINE Goal == /\ stepStatus'[s] \notin {"QUEUED", "BLOCKED", "SUSPENDED"}
                   /\ runStatus'[r] = "SUCCEEDED" =>
                         /\ stepStatus'[s] \notin Active \cup {"FAILED"}
                         /\ \E t \in StepsOf(r) : Completes(t) /\ StepDone(t)
<1>0. /\ StoreTyped /\ s \in Steps /\ RunOf[s] = r /\ stepStatus \in [Steps -> StepStatuses]
      /\ \A w \in Slots : ex[w].pc # "idle" => ex[w].step \in Steps /\ RunOf[ex[w].step] \in Runs
      /\ runStatus'[r] # runStatus[r] /\ runStatus'[r] # "DELETED"
  BY DEF TypeOK, ExecTyped, StoreTyped, StepsOf, Live
<1>1. ASSUME NEW q \in Runs, CancelRun(q) PROVE Goal
  <2> DEFINE st == [t \in Steps |-> IF RunOf[t] = q /\ stepStatus[t] \in {"QUEUED", "BLOCKED", "SUSPENDED"}
                                    THEN "CANCELLED" ELSE stepStatus[t]]
  <2>1. SetRun(q, "CANCELLED", st)
    BY <1>1 DEF CancelRun
  <2>2. r = q /\ runStatus'[r] = "CANCELLED" /\ stepStatus' = st
    BY <1>0, <2>1, SetRunRows
  <2> QED
    BY <1>0, <2>2
<1>2. ASSUME NEW w \in Slots, recordFinalFailure(w) PROVE Goal
  <2> DEFINE u == ex[w].step
             q == RunOf[u]
             st == [t \in Steps |-> IF t = u THEN "FAILED"
                                    ELSE IF RunOf[t] = q /\ stepStatus[t] \in Active THEN "CANCELLED"
                                    ELSE stepStatus[t]]
             o == IF runStatus[q] \in Live THEN "FAILED" ELSE runStatus[q]
  <2>1. u \in Steps /\ q \in Runs
    BY <1>0, <1>2 DEF recordFinalFailure
  <2>2. SetRun(q, o, st)
    BY <1>0, <1>2 DEF recordFinalFailure, FinalFailStep
  <2>3. r = q /\ runStatus'[r] = o /\ stepStatus' = st
    BY <1>0, <2>1, <2>2, SetRunRows
  <2>4. runStatus'[r] = "FAILED" /\ stepStatus'[s] \notin Active
    BY <1>0, <2>3 DEF Active
  <2> QED
    BY <2>4 DEF Active
<1>3. ASSUME NEW t \in Steps, Completes(t), completeStepTx(t) PROVE Goal
  <2>1. RunOf[t] = r
    <3>1. \A q \in Runs \ {RunOf[t]} : runStatus'[q] = runStatus[q]
      BY <1>0, <1>3, completeStepCases, SetRunRows DEF rows
    <3> QED
      BY <1>0, <3>1
  <2>2. /\ StepDone(t) /\ stepStatus'[s] \notin Active
        /\ runStatus'[r] = "SUCCEEDED" => stepStatus'[s] # "FAILED"
    BY <1>0, <1>3, <2>1, CompletionEnds DEF StepsOf
  <2> QED
    BY <1>3, <2>1, <2>2 DEF Active, StepsOf
<1>4. ASSUME NEW w \in Slots, completeDirect(w) PROVE Goal
  <2>1. ex[w].step \in Steps /\ Completes(ex[w].step) /\ completeStepTx(ex[w].step)
    BY <1>0, <1>4 DEF completeDirect, Completes
  <2> QED
    BY <1>3, <2>1
<1>5. CASE CompleteStep
  <2>1. Head(pending) \in Steps /\ Completes(Head(pending)) /\ completeStepTx(Head(pending))
    BY <1>5 DEF CompleteStep, Completes, TypeOK, MemoryTyped
  <2> QED
    BY <1>3, <2>1
<1>6. ASSUME NEW c \in calls, EnqueueCreate(c) PROVE Goal
  <2>1. Replaces(r)
    BY <1>0, <1>6, CreatedRows DEF TypeOK, StartedRuns, Live
  <2> QED
    BY <2>1 DEF Replaces, Active
<1>7. ASSUME NEW q \in Runs, PauseRun(q) \/ ResumeRun(q) \/ RetryDeadLetter(q) \/ purgeRunBatch(q) PROVE FALSE
  BY <1>0, <1>7 DEF PauseRun, ResumeRun, RetryDeadLetter, reopenRun, purgeRunBatch, StoreTyped
<1>8. ASSUME NEW w \in Slots, NEW t \in Steps, claimQueueTx(w, t) PROVE FALSE
  BY <1>0, <1>8 DEF claimQueueTx, StoreTyped
<1>9. ASSUME NEW w \in Slots, \/ ParkStep(w) \/ WriteStepCancelled(w) \/ RequeuePausedStep(w) \/ RetryStep(w)
                              \/ \E kind \in {"sleep", "wait", "deadline"} : SuspendStep(w, kind)
      PROVE  FALSE
  BY <1>0, <1>9 DEF ParkStep, WriteStepCancelled, RequeuePausedStep, RetryStep, SuspendStep
<1>10. ASSUME DeliverEvent \/ InterruptAll PROVE FALSE
  <2>1. ~DeliverEvent
    BY <1>0 DEF DeliverEvent
  <2>2. InterruptAll => runStatus'[r] \in {"DELETED", "INTERRUPTED", runStatus[r]}
    BY DEF InterruptAll
  <2> QED
    BY <1>0, <1>10, <2>1, <2>2
<1> QED
  BY <1>0, <1>1, <1>2, <1>4, <1>5, <1>6, <1>7, <1>8, <1>9, <1>10, RowWriters DEF RowWrite, rows

-----------------------------------------------------------------------------
(* A suspension is not left behind by the end of its run.                   *)

\* Close, crashes and store errors are excluded: each may take the executor away
\* between the suspension and the check that follows it.
Undisturbed == /\ budget["restart"] = 0 /\ budget["storeError"] = 0 /\ budget["close"] = 0
               /\ mode = "up"

LEMMA UndisturbedStep == TypeOK /\ Undisturbed /\ [Next]_vars => Undisturbed' /\ ~Restart
<1> SUFFICES ASSUME TypeOK, Undisturbed, [Next]_vars PROVE Undisturbed' /\ ~Restart
  OBVIOUS
<1>1. budget'["restart"] = 0 /\ budget'["storeError"] = 0 /\ budget'["close"] = 0
  BY BudgetShrinks DEF Undisturbed, Ops
<1>2. ~Restart /\ ~CloseBegin
  BY DEF Restart, CloseBegin, Spend, Undisturbed
<1>3. mode' = "up"
  BY <1>2, ModeMoves DEF ModeMove, Undisturbed
<1> QED
  BY <1>1, <1>2, <1>3 DEF Undisturbed

\* The executor that follows up the suspension of s.
FollowsUp(w, s) == ex[w].step = s /\ ex[w].pc \in {"suspended", "stepCancel"}

LEMMA SuspensionStep ==
    ASSUME TypeOK, StartedRuns, Undisturbed, SuspensionConverges, [Next]_vars
    PROVE  SuspensionConverges'
<1>0. Undisturbed' /\ ~Restart
  BY UndisturbedStep
<1> SUFFICES ASSUME NEW s \in Steps, stepStatus'[s] = "SUSPENDED", runStatus'[RunOf[s]] \in Terminal
             PROVE  \E w \in Slots : FollowsUp(w, s)'
  BY DEF SuspensionConverges, runTerminal, FollowsUp
<1> DEFINE r == RunOf[s]
<1>1. StepMove(s) /\ r \in Runs /\ RunMove(r) /\ s \in StepsOf(r) /\ ex \in [Slots -> Executors] /\ ExecTyped
  BY StepMoves, RunMoves DEF StepsOf, TypeOK, ExecTyped
<1>2. CASE stepStatus[s] # "SUSPENDED"
  <2>1. PICK w \in Slots, kind \in {"sleep", "wait", "deadline"} : SuspendStep(w, kind) /\ ex[w].step = s
    BY <1>0, <1>1, <1>2 DEF StepMove
  <2>2. ex'[w].step = ex[w].step /\ Goes(w, "suspended")
    BY <1>1, <2>1, GotoFields DEF SuspendStep
  <2> QED
    BY <2>1, <2>2 DEF FollowsUp, Goes
<1>3. CASE stepStatus[s] = "SUSPENDED"
  <2>1. runStatus[r] \in Terminal
    <3>1. CASE runStatus[r] \in Live /\ runStatus'[r] \in {"SUCCEEDED", "FAILED", "CANCELLED"}
      BY <1>0, <1>1, <3>1, RunEnds
    <3>2. runStatus'[r] # "INTERRUPTED" \/ runStatus[r] = "INTERRUPTED"
      <4>1. mode' # "swept"
        BY <1>0 DEF Undisturbed
      <4> QED
        BY <1>1, <4>1 DEF RunMove, Replaces, Live, Terminal
    <3> QED
      BY <1>0, <1>1, <3>1, <3>2 DEF RunMove, Replaces, Live, Terminal
  <2>2. PICK w \in Slots : FollowsUp(w, s)
    BY <1>3, <2>1 DEF SuspensionConverges, runTerminal, FollowsUp
  <2>3. CASE Bystander(w)
    <3>1. ex'[w].pc = ex[w].pc /\ ex'[w].step = ex[w].step
      BY <1>1, <2>3, BystanderFields
    <3> QED
      BY <2>2, <3>1 DEF FollowsUp
  <2>4. CASE OwnStep(w)
    <3>1. ExecMove(w)
      BY <2>4, ExecMoves
    <3>2. ~ WriteStepCancelled(w)
      BY <1>1, <2>2 DEF WriteStepCancelled, StepCancelled, UpdateStep, FollowsUp, TypeOK, StoreTyped
    <3>3. ~ WriteFails(w)
      BY DEF WriteFails, StoreFails, StoreOpen, Spend, Undisturbed
    <3>4. CASE SuspendCheck(w) /\ ex'[w].step = ex[w].step
               /\ Goes(w, IF runTerminal(RunOf[ex[w].step]) THEN "stepCancel" ELSE "exit")
      BY <2>1, <2>2, <3>4 DEF FollowsUp, Goes, runTerminal
    <3>5. ex[w].pc \in {"suspended", "stepCancel"} => SuspendCheck(w) /\ ex'[w].step = ex[w].step
               /\ Goes(w, IF runTerminal(RunOf[ex[w].step]) THEN "stepCancel" ELSE "exit")
      BY <3>1, <3>2, <3>3 DEF ExecMove, Exit, claimQueueTx, FinishRun, Register, HaltCheck, PauseCheck,
            AfterBody, PauseTerminal, Decide, ClosingCheck, submitCompletion, RequeuePausedStep,
            RetryStep, SuspendStep, recordFinalFailure, completeDirect, BodyReturns
    <3> QED
      BY <2>2, <3>4, <3>5 DEF FollowsUp
  <2> QED
    BY <1>0, <2>3, <2>4, SlotFrame
<1> QED
  BY <1>2, <1>3

\* While the process stays up and the store answers, no suspension outlives its
\* run: a step that suspends after its run was cancelled, failed or succeeded
\* still has its executor there to cancel it, in any order of the two.
THEOREM NoSuspensionOutlivesRun ==
    ASSUME Budget["restart"] = 0, Budget["storeError"] = 0, Budget["close"] = 0
    PROVE  Spec => []SuspensionConverges
<1>1. Init => Undisturbed
  BY DEF Init, Undisturbed
<1>2. Init => SuspensionConverges
  BY DEF Init, SuspensionConverges
<1> QED
  BY <1>1, <1>2, UndisturbedStep, SuspensionStep, TypeCorrect, StartedInit, StartedStep, PTL DEF Spec

-----------------------------------------------------------------------------
(* Finished work is kept.                                                   *)

\* Nobody still owes the outcome of a step that has SUCCEEDED.
SettledRows ==
    /\ \A w \in Slots : ex[w].pc \in Holding => stepStatus[ex[w].step] # "SUCCEEDED"
    /\ \A i \in DOMAIN pending : stepStatus[pending[i]] # "SUCCEEDED"

\* A step of a run has one owner, and the rows of a run come and go with it.
Custody == StartedRuns /\ DeletedRuns /\ Ownership /\ SettledRows

\* A holder was one before, or claims its step now.
LEMMA HolderMoves ==
    ASSUME TypeOK, [Next]_vars, NEW w \in Slots, ex'[w].pc \in Holding
    PROVE  \/ /\ ex[w].pc \in Holding /\ ex'[w].step = ex[w].step /\ ex[w].step \in Steps
              /\ ex'[w].att = ex[w].att
           \/ \E s \in Steps : claimQueueTx(w, s) /\ ex'[w].step = s /\ ex'[w].att = attempts'[s]
<1>0. ex \in [Slots -> Executors] /\ ex[w] \in Executors /\ (ex[w].pc # "idle" => ex[w].step \in Steps)
  BY DEF TypeOK, ExecTyped
<1>1. CASE Bystander(w)
  <2>1. ex'[w].pc = ex[w].pc /\ ex'[w].step = ex[w].step /\ ex'[w].att = ex[w].att
    BY <1>0, <1>1, BystanderFields
  <2> QED
    BY <1>0, <2>1 DEF Holding
<1>2. CASE OwnStep(w)
  <2>1. ExecMove(w)
    BY <1>2, ExecMoves
  <2>2. ex'[w] # Idle
    <3>1. Idle.pc = "idle"
      BY DEF Idle
    <3> QED
      BY <3>1 DEF Holding
  <2>3. CASE \E s \in Steps : /\ claimQueueTx(w, s)
                              /\ ex'[w] = [Idle EXCEPT !.pc = "claimed", !.step = s, !.att = attempts'[s]]
    BY <2>3 DEF Idle
  <2>4. CASE ~ \E s \in Steps : /\ claimQueueTx(w, s)
                                /\ ex'[w] = [Idle EXCEPT !.pc = "claimed", !.step = s, !.att = attempts'[s]]
    <3>1. ex'[w].step = ex[w].step /\ ex'[w].att = ex[w].att
      BY <2>1, <2>2, <2>4 DEF ExecMove, Holding
    <3>2. ex[w].pc \in Holding
      BY <2>1, <2>2, <2>4 DEF ExecMove, Goes, Holding, FinishRun, Register, HaltCheck, PauseCheck, SuspendCheck,
            AfterBody, PauseTerminal, Decide, Decision, ClosingCheck, submitCompletion,
            RetryStep, SuspendStep, recordFinalFailure, completeDirect, BodyReturns
    <3> QED
      BY <1>0, <3>1, <3>2 DEF Holding
  <2> QED
    BY <2>1, <2>2, <2>3, <2>4 DEF ExecMove
<1>3. CASE Restart
  <2>1. ex'[w] = Idle /\ Idle.pc = "idle"
    BY <1>3 DEF Restart, Idle
  <2> QED
    BY <2>1 DEF Holding
<1> QED
  BY <1>1, <1>2, <1>3, SlotFrame

\* What the completer has to record it had before, or got from a holder.
LEMMA PendingEntries ==
    ASSUME TypeOK, [Next]_vars, NEW i \in DOMAIN pending'
    PROVE  \/ /\ \E j \in DOMAIN pending : pending'[i] = pending[j] /\ (CompleteStep => j # 1)
              /\ pending'[i] \in Steps
           \/ \E w \in Slots : submitCompletion(w) /\ pending'[i] = ex[w].step /\ ex[w].step \in Steps
<1>0. pending \in Seq(Steps)
  BY DEF TypeOK, MemoryTyped
<1>1. CASE pending' = pending
  <2>1. CompleteStep => pending' = Tail(pending) /\ pending # <<>>
    BY DEF CompleteStep
  <2>2. ~CompleteStep
    BY <1>0, <1>1, <2>1
  <2> QED
    BY <1>0, <1>1, <2>2
<1>2. CASE pending' = <<>>
  BY <1>2
<1>3. CASE pending # <<>> /\ pending' = Tail(pending)
  <2>1. i + 1 \in DOMAIN pending /\ pending'[i] = pending[i + 1] /\ i \in Nat /\ i # 0
    BY <1>0, <1>3
  <2> QED
    BY <1>0, <2>1
<1>4. ASSUME NEW w \in Slots, submitCompletion(w), pending' = Append(pending, ex[w].step)
      PROVE  \/ (\E j \in DOMAIN pending : pending'[i] = pending[j] /\ (CompleteStep => j # 1)) /\ pending'[i] \in Steps
             \/ pending'[i] = ex[w].step /\ ex[w].step \in Steps
  <2>1. ex[w].step \in Steps
    BY <1>4 DEF submitCompletion, TypeOK, ExecTyped
  <2>2. (i \in DOMAIN pending /\ pending'[i] = pending[i]) \/ pending'[i] = ex[w].step
    BY <1>0, <1>4, <2>1
  <2>3. ~CompleteStep
    <3>1. CompleteStep => pending' = Tail(pending) /\ pending # <<>>
      BY DEF CompleteStep
    <3>2. Len(Append(pending, ex[w].step)) = Len(pending) + 1
      BY <1>0, <2>1
    <3>3. pending # <<>> => Len(Tail(pending)) = Len(pending) - 1 /\ Len(pending) \in Nat
      BY <1>0
    <3> QED
      BY <1>0, <1>4, <3>1, <3>2, <3>3
  <2> QED
    BY <1>0, <2>1, <2>2, <2>3
<1> QED
  BY <1>1, <1>2, <1>3, <1>4, PendingMoves

LEMMA NothingRevived ==
    ASSUME Custody, NEW r
    PROVE  ~RetryDeadLetter(r)
<1>1. RetryDeadLetter(r) => budget["retryDead"] > 0 /\ r \in dead
  BY DEF RetryDeadLetter, Spend
<1>2. budget["retryDead"] = 0 \/ dead = {}
  BY DEF Custody, Ownership, NoRevival
<1>3. ~(0 > 0)
  OBVIOUS
<1> QED
  BY <1>1, <1>2, <1>3

\* Only RetryDeadLetter makes a FAILED run QUEUED.
LEMMA RevivesByRetry ==
    ASSUME TypeOK, StartedRuns, [Next]_vars, NEW r \in Runs, runStatus[r] = "FAILED", runStatus'[r] = "QUEUED"
    PROVE  RetryDeadLetter(r)
<1>0. StoreTyped
  BY DEF TypeOK
<1>1. ASSUME NEW q \in Runs, NEW o \in {"SUCCEEDED", "FAILED", "CANCELLED"}, NEW st, SetRun(q, o, st) PROVE FALSE
  BY <1>0, <1>1, SetRunRows
<1>2. ASSUME NEW q \in Runs, CancelRun(q) PROVE FALSE
  BY <1>1, <1>2 DEF CancelRun
<1>3. ASSUME NEW q \in Runs, PauseRun(q) \/ ResumeRun(q) \/ purgeRunBatch(q) PROVE FALSE
  BY <1>0, <1>3 DEF PauseRun, ResumeRun, purgeRunBatch, StoreTyped
<1>4. ASSUME NEW q \in Runs, RetryDeadLetter(q) PROVE RetryDeadLetter(r)
  BY <1>0, <1>4 DEF RetryDeadLetter, reopenRun, StoreTyped
<1>5. ASSUME NEW t \in Steps, completeStepTx(t) PROVE FALSE
  <2>1. RunOf[t] \in Runs
    OBVIOUS
  <2> QED
    BY <1>0, <1>1, <1>5, <2>1, completeStepCases DEF rows
<1>6. ASSUME NEW w \in Slots, recordFinalFailure(w) PROVE FALSE
  <2> DEFINE q == RunOf[ex[w].step]
             o == IF runStatus[q] \in Live THEN "FAILED" ELSE runStatus[q]
  <2>1. q \in Runs /\ o # "QUEUED"
    BY <1>6 DEF recordFinalFailure, TypeOK, ExecTyped, Live
  <2>2. FinalFailStep(ex[w].step)
    BY <1>0, <1>6 DEF recordFinalFailure
  <2>3. PICK st : SetRun(q, o, st)
    BY <2>2 DEF FinalFailStep
  <2> QED
    BY <1>0, <2>1, <2>3, SetRunRows
<1>7. ASSUME NEW w \in Slots, completeDirect(w) PROVE FALSE
  BY <1>5, <1>7 DEF completeDirect, TypeOK, ExecTyped
<1>8. CASE CompleteStep
  BY <1>5, <1>8 DEF CompleteStep, TypeOK, MemoryTyped
<1>9. ASSUME NEW c \in calls, EnqueueCreate(c) PROVE FALSE
  BY <1>0, <1>9, CreatedRows DEF TypeOK, StartedRuns, Replaces, Live
<1>10. ASSUME NEW w \in Slots, NEW t \in Steps, claimQueueTx(w, t) PROVE FALSE
  BY <1>0, <1>10 DEF claimQueueTx, StoreTyped
<1>11. ASSUME NEW w \in Slots, \/ ParkStep(w) \/ WriteStepCancelled(w) \/ RequeuePausedStep(w) \/ RetryStep(w)
                               \/ \E kind \in {"sleep", "wait", "deadline"} : SuspendStep(w, kind)
       PROVE  FALSE
  BY <1>11 DEF ParkStep, WriteStepCancelled, RequeuePausedStep, RetryStep, SuspendStep
<1>12. CASE DeliverEvent \/ InterruptAll \/ UNCHANGED rows
  BY <1>12 DEF DeliverEvent, InterruptAll, rows
<1>13. CASE Restart
  <2>1. PICK keep \in BootModes : recoverInterrupted(keep)
    BY <1>13 DEF Restart
  <2> QED
    BY <1>0, <2>1 DEF recoverInterrupted, Cut
<1> QED
  BY <1>2, <1>3, <1>4, <1>6, <1>7, <1>8, <1>9, <1>10, <1>11, <1>12, <1>13, RowWriters DEF RowWrite

\* A SUCCEEDED row stays, or goes with its run.
LEMMA SucceededStays ==
    ASSUME TypeOK, Custody, [Next]_vars, NEW s \in Steps, stepStatus[s] = "SUCCEEDED"
    PROVE  stepStatus'[s] \in {"SUCCEEDED", "DELETED"}
<1>1. StepMove(s)
  BY StepMoves DEF Custody
<1>2. ~RetryDeadLetter(RunOf[s])
  BY NothingRevived
<1>3. ASSUME NEW c \in calls, c.run = RunOf[s], EnqueueCreate(c) PROVE FALSE
  BY <1>3 DEF EnqueueCreate, Custody, StartedRuns, FreshRuns
<1>4. ASSUME NEW w \in Slots, recordFinalFailure(w), ex[w].step = s PROVE FALSE
  BY <1>4 DEF recordFinalFailure, Holding, Custody, SettledRows
<1> QED
  BY <1>1, <1>2, <1>3, <1>4 DEF StepMove, Active, StepDone

\* A row becomes SUCCEEDED only when its one owner has it recorded.
LEMMA SuccessMoves ==
    ASSUME TypeOK, Custody, [Next]_vars, NEW s \in Steps, stepStatus[s] # "SUCCEEDED", stepStatus'[s] = "SUCCEEDED"
    PROVE  StepDone(s) /\ Completes(s)
<1>1. StepMove(s)
  BY StepMoves DEF Custody
<1> QED
  BY <1>1 DEF StepMove

LEMMA SettledStep ==
    ASSUME TypeOK, Custody, [Next]_vars
    PROVE  SettledRows'
<1>0. SingleExecution /\ pending \in Seq(Steps) /\ stepStatus \in [Steps -> StepStatuses]
  BY DEF Custody, Ownership, TypeOK, MemoryTyped, StoreTyped
<1>1. ASSUME NEW s \in Steps, stepStatus'[s] = "SUCCEEDED", NEW w \in Slots, ex'[w].pc \in Holding, ex'[w].step = s
      PROVE  FALSE
  <2>1. ASSUME claimQueueTx(w, s) PROVE FALSE
    BY <1>0, <1>1, <2>1 DEF claimQueueTx
  <2>2. ex[w].pc \in Holding /\ ex[w].step = s
    BY <1>1, <2>1, HolderMoves
  <2>3. StepDone(s) /\ Completes(s)
    BY <1>1, <2>2, SuccessMoves DEF Custody, SettledRows
  <2>4. CASE CompleteStep /\ s = Head(pending)
    <3>1. 1 \in DOMAIN pending /\ pending[1] = s
      BY <1>0, <2>4 DEF CompleteStep
    <3> QED
      BY <1>0, <2>2, <3>1 DEF SingleExecution
  <2>5. ASSUME NEW v \in Slots, completeDirect(v), ex[v].step = s PROVE FALSE
    <3>1. v = w
      BY <1>0, <2>2, <2>5 DEF SingleExecution, completeDirect, Holding
    <3>3. ex'[w].pc \in {"exit", "finish"}
      BY <1>1, <2>5, <3>1, DirectLeaves
    <3> QED
      BY <1>1, <3>3 DEF Holding
  <2> QED
    BY <2>3, <2>4, <2>5 DEF Completes
<1>2. ASSUME NEW i \in DOMAIN pending', stepStatus'[pending'[i]] = "SUCCEEDED" PROVE FALSE
  <2> DEFINE s == pending'[i]
  <2>1. ASSUME NEW w \in Slots, submitCompletion(w), s = ex[w].step, s \in Steps PROVE FALSE
    <3>1. stepStatus'[s] = stepStatus[s] /\ ex[w].pc = "decide"
      BY <2>1 DEF submitCompletion, database
    <3> QED
      BY <1>2, <2>1, <3>1 DEF Custody, SettledRows, Holding
  <2>2. PICK j \in DOMAIN pending : s = pending[j] /\ (CompleteStep => j # 1) /\ s \in Steps
    BY <2>1, PendingEntries
  <2>3. StepDone(s) /\ Completes(s)
    BY <1>2, <2>2, SuccessMoves DEF Custody, SettledRows
  <2>4. CASE CompleteStep /\ s = Head(pending)
    <3>1. 1 \in DOMAIN pending /\ pending[1] = s
      BY <1>0, <2>4 DEF CompleteStep
    <3> QED
      BY <1>0, <2>2, <2>4, <3>1 DEF SingleExecution
  <2>5. ASSUME NEW v \in Slots, completeDirect(v), ex[v].step = s PROVE FALSE
    BY <1>0, <2>2, <2>5 DEF SingleExecution, completeDirect, Holding
  <2> QED
    BY <2>3, <2>4, <2>5 DEF Completes
<1>3. ASSUME NEW w \in Slots, ex'[w].pc \in Holding PROVE ex'[w].step \in Steps
  BY <1>3, HolderMoves
<1> QED
  BY <1>1, <1>2, <1>3 DEF SettledRows

LEMMA CustodyStep == TypeOK /\ Custody /\ [Next]_vars => Custody'
BY OwnershipStep, StartedStep, DeletedStep, SettledStep DEF Custody

LEMMA CustodyInit ==
    ASSUME Budget["retryDead"] = 0 \/ DeadLetter = {}, Init
    PROVE  Custody
<1>1. (\A w \in Slots : ex[w] = Idle) /\ pending = <<>> /\ calls = {}
  BY DEF Init
<1>2. Idle.pc \notin Holding
  BY DEF Idle, Holding
<1>3. DOMAIN pending = {}
  BY <1>1
<1>4. SingleExecution /\ HeldRows /\ SettledRows
  BY <1>1, <1>2, <1>3 DEF SingleExecution, HeldRows, SettledRows
<1>5. FreshRuns /\ NoRevival
  BY <1>1 DEF Init, FreshRuns, NoRevival
<1> QED
  BY <1>4, <1>5, StartedInit, DeletedInit DEF Custody, Ownership

\* Finished work is never redone, over crashes, closes, cancels, store errors and
\* late failures: as long as no dead-lettered run is revived, a SUCCEEDED step
\* stays SUCCEEDED until its run is deleted.
THEOREM FinishedWorkKept ==
    ASSUME Budget["retryDead"] = 0 \/ DeadLetter = {}
    PROVE  Spec => CompletedStepKept
<1> DEFINE K == \A s \in Steps : stepStatus[s] = "SUCCEEDED" =>
                  \/ stepStatus'[s] \in {"SUCCEEDED", "DELETED"}
                  \/ RunOf[s] \in dead /\ RunOf[s] \notin dead'
<1>1. TypeOK /\ Custody /\ [Next]_vars => [K]_vars
  BY SucceededStays
<1>2. Init => Custody
  BY CustodyInit
<1> QED
  BY <1>1, <1>2, CustodyStep, TypeCorrect, PTL DEF Spec, CompletedStepKept

-----------------------------------------------------------------------------
(* The order of the dependencies.                                           *)

\* DependencyOrder with the states a crash or a close puts between: a swept step
\* had its dependencies, a swept run missed no release.
Begun == {"QUEUED", "RUNNING", "SUSPENDED", "SUCCEEDED", "INTERRUPTED"}
OrderKept ==
    \A s \in Steps :
        /\ stepStatus[s] \in Begun => \A d \in Deps[s] : stepStatus[d] = "SUCCEEDED"
        /\ stepStatus[s] = "BLOCKED" /\ runStatus[RunOf[s]] \in Live \cup {"INTERRUPTED"}
             => \E d \in Deps[s] : stepStatus[d] # "SUCCEEDED"

\* The completion of a step releases each dependent that waited for it alone.
LEMMA CompletionReleases ==
    ASSUME StoreTyped, NEW t \in Steps, completeStepTx(t), StepDone(t), NEW s \in Steps, t \in Deps[s],
           stepStatus[s] = "BLOCKED", \A d \in Deps[s] : stepStatus'[d] = "SUCCEEDED"
    PROVE  stepStatus'[s] # "BLOCKED"
<1> DEFINE st == unblockReadyTx(t)
           done == [stepStatus EXCEPT ![t] = "SUCCEEDED"]
<1>0. stepStatus \in [Steps -> StepStatuses] /\ RunOf[t] = RunOf[s] /\ RunOf[t] \in Runs
  BY DEF StoreTyped
<1>1. ~runTerminal(RunOf[t])
  BY DEF StepDone, runTerminal, Live, Terminal
<1>2. stepStatus' = st \/ SetRun(RunOf[t], RunOutcome(t), st)
  BY <1>1, completeStepCases
<1>3. stepStatus' = st \/ stepStatus'[s] = "DELETED"
  BY <1>0, <1>2, SetRunRows
<1>4. CASE stepStatus' = st
  <2>1. \A d \in Deps[s] : d \in Steps /\ (st[d] = "QUEUED" \/ st[d] = done[d])
    BY <1>0 DEF unblockReadyTx
  <2>2. \A d \in Deps[s] : done[d] = "SUCCEEDED"
    BY <1>4, <2>1
  <2>3. s # t /\ done[s] = "BLOCKED"
    BY <1>0 DEF StepDone
  <2>4. st[s] = "QUEUED"
    BY <1>0, <2>2, <2>3 DEF unblockReadyTx
  <2> QED
    BY <1>4, <2>4
<1> QED
  BY <1>3, <1>4

LEMMA CompletesTx ==
    ASSUME TypeOK, NEW s, Completes(s)
    PROVE  s \in Steps /\ completeStepTx(s)
<1>1. CASE CompleteStep /\ s = Head(pending)
  BY <1>1 DEF CompleteStep, TypeOK, MemoryTyped
<1>2. ASSUME NEW w \in Slots, completeDirect(w), ex[w].step = s PROVE s \in Steps /\ completeStepTx(s)
  BY <1>2 DEF completeDirect, TypeOK, ExecTyped
<1> QED
  BY <1>1, <1>2 DEF Completes

LEMMA OrderStep ==
    ASSUME TypeOK, Custody, OrderKept, [Next]_vars
    PROVE  OrderKept'
<1>0. /\ StoreTyped /\ stepStatus \in [Steps -> StepStatuses] /\ Custody' /\ StartedRuns
      /\ \A s \in Steps : RunOf[s] \in Runs
  BY CustodyStep DEF TypeOK, StoreTyped, Custody
<1>1. ASSUME NEW s \in Steps, NEW d \in Deps[s], stepStatus[d] = "SUCCEEDED", stepStatus'[s] # "DELETED"
      PROVE  stepStatus'[d] = "SUCCEEDED"
  <2>1. d \in Steps /\ RunOf[d] = RunOf[s] /\ StepMove(d)
    BY <1>0, StepMoves
  <2>2. CASE stepStatus'[d] = "DELETED"
    <3>1. runStatus'[RunOf[s]] = "DELETED"
      BY <1>1, <2>1, <2>2 DEF StepMove
    <3> QED
      BY <1>0, <1>1, <3>1 DEF Custody, DeletedRuns
  <2> QED
    BY <1>1, <2>1, <2>2, SucceededStays
<1>2. ASSUME NEW s \in Steps, stepStatus'[s] \in Begun, NEW d \in Deps[s]
      PROVE  stepStatus'[d] = "SUCCEEDED"
  <2>1. StepMove(s)
    BY <1>0, StepMoves
  <2>2. CASE stepStatus[s] \in Begun
    BY <1>1, <1>2, <2>2 DEF OrderKept, Begun
  <2>3. CASE stepStatus[s] \notin Begun
    BY <1>2, <2>1, <2>3 DEF StepMove, Begun, StepDone
  <2> QED
    BY <2>2, <2>3
<1>3. ASSUME NEW s \in Steps, stepStatus'[s] = "BLOCKED", runStatus'[RunOf[s]] \in Live \cup {"INTERRUPTED"},
             \A d \in Deps[s] : stepStatus'[d] = "SUCCEEDED"
      PROVE  FALSE
  <2>1. StepMove(s) /\ RunMove(RunOf[s])
    BY <1>0, StepMoves, RunMoves
  <2>2. ASSUME NEW c \in calls, c.run = RunOf[s], EnqueueCreate(c) PROVE FALSE
    <3>1. \A t \in StepsOf(RunOf[s]) : stepStatus'[t] = IF Deps[t] = {} THEN "QUEUED" ELSE "BLOCKED"
      BY <1>0, <2>2, CreatedRows DEF TypeOK, StartedRuns
    <3>2. stepStatus'[s] = IF Deps[s] = {} THEN "QUEUED" ELSE "BLOCKED"
      BY <3>1 DEF StepsOf
    <3>3. PICK d \in Deps[s] : TRUE
      BY <1>3, <3>2
    <3>4. d \in StepsOf(RunOf[s])
      BY <1>0 DEF StepsOf
    <3> QED
      BY <1>3, <3>1, <3>4
  <2>3. ~RetryDeadLetter(RunOf[s])
    BY NothingRevived
  <2>4. stepStatus[s] = "BLOCKED"
    BY <1>3, <2>1, <2>2, <2>3 DEF StepMove
  <2>5. runStatus[RunOf[s]] \in Live \cup {"INTERRUPTED"}
    <3>1. runStatus[RunOf[s]] # "NEW"
      BY <2>4 DEF Custody, StartedRuns, FreshRuns
    <3>2. ASSUME runStatus[RunOf[s]] = "FAILED", RunOf[s] \in dead, RunOf[s] \notin dead', runStatus'[RunOf[s]] = "QUEUED"
          PROVE  FALSE
      BY <1>0, <3>2, RevivesByRetry, NothingRevived
    <3> QED
      BY <1>3, <2>1, <3>1, <3>2 DEF RunMove, Replaces, Live, Terminal
  <2>6. PICK d \in Deps[s] : stepStatus[d] # "SUCCEEDED"
    BY <2>4, <2>5 DEF OrderKept
  <2>7. d \in Steps /\ stepStatus'[d] = "SUCCEEDED"
    BY <1>0, <1>3
  <2>8. StepDone(d) /\ Completes(d)
    BY <2>6, <2>7, SuccessMoves
  <2> QED
    BY <1>0, <1>3, <2>4, <2>7, <2>8, CompletesTx, CompletionReleases
<1> QED
  BY <1>2, <1>3 DEF OrderKept

\* Dependency order, over crashes, closes, pauses and store errors: as long as no
\* dead-lettered run is revived, a step runs only after all of its dependencies
\* have SUCCEEDED, and no BLOCKED step of a live run missed its release.
THEOREM DependenciesInOrder ==
    ASSUME Budget["retryDead"] = 0 \/ DeadLetter = {}
    PROVE  Spec => []DependencyOrder
<1>1. Init => OrderKept
  BY ZenonT(60) DEF Init, OrderKept, Begun
<1>2. Init => Custody
  BY CustodyInit
<1>3. OrderKept => DependencyOrder
  BY DEF OrderKept, DependencyOrder, Begun
<1> QED
  BY <1>1, <1>2, <1>3, OrderStep, CustodyStep, TypeCorrect, PTL DEF Spec

-----------------------------------------------------------------------------
(* A run succeeds as a whole.                                               *)

SweptModes == {"swept", "closed"}

\* INTERRUPTED is what Close leaves for the next boot, and only RUNNING rows are.
SweptRows ==
    /\ \A r \in Runs : runStatus[r] = "INTERRUPTED" => mode \in SweptModes
    /\ \A s \in Steps : stepStatus[s] = "INTERRUPTED" => mode \in SweptModes
    /\ mode \in SweptModes => \A s \in Steps : stepStatus[s] # "RUNNING"

LEMMA SweptStep ==
    ASSUME TypeOK, StartedRuns, SweptRows, [Next]_vars
    PROVE  SweptRows'
<1>0. ModeMove /\ StoreTyped /\ \A s \in Steps : RunOf[s] \in Runs
  BY ModeMoves DEF TypeOK
<1>1. ASSUME mode \in SweptModes, ~Restart PROVE mode' \in SweptModes
  BY <1>0, <1>1 DEF ModeMove, SweptModes
<1>2. CASE Restart
  <2>1. PICK keep \in BootModes : recoverInterrupted(keep)
    BY <1>2 DEF Restart
  <2>2. /\ \A r \in Runs : runStatus'[r] # "INTERRUPTED"
        /\ \A s \in Steps : stepStatus'[s] # "INTERRUPTED"
    BY <1>0, <2>1 DEF recoverInterrupted, Cut
  <2>3. mode' = "up"
    BY <1>2 DEF Restart
  <2> QED
    BY <2>2, <2>3 DEF SweptRows, SweptModes
<1>3. CASE ~Restart
  <2>1. ASSUME NEW r \in Runs, runStatus'[r] = "INTERRUPTED" PROVE mode' \in SweptModes
    BY <1>1, <1>3, <2>1, RunMoves DEF RunMove, Replaces, Live, SweptRows, SweptModes
  <2>2. ASSUME NEW s \in Steps, stepStatus'[s] = "INTERRUPTED" PROVE mode' \in SweptModes
    <3>1. stepStatus[s] = "INTERRUPTED" \/ InterruptAll
      BY <1>3, <2>2, StepMoves DEF StepMove
    <3> QED
      BY <1>1, <1>3, <3>1 DEF SweptRows, InterruptAll, SweptModes
  <2>3. ASSUME mode' \in SweptModes, NEW s \in Steps, stepStatus'[s] = "RUNNING" PROVE FALSE
    <3>1. ASSUME NEW w \in Slots, claimQueueTx(w, s) PROVE FALSE
      BY <2>3, <3>1 DEF claimQueueTx, SweptModes
    <3>2. stepStatus[s] = "RUNNING"
      BY <1>3, <2>3, <3>1, StepMoves DEF StepMove
    <3>3. InterruptAll
      BY <1>0, <1>3, <2>3, <3>2 DEF ModeMove, SweptRows, SweptModes
    <3> QED
      BY <2>3, <3>3 DEF InterruptAll
  <2> QED
    BY <2>1, <2>2, <2>3 DEF SweptRows
<1> QED
  BY <1>2, <1>3

\* A late success finds its row swept: after the sweep nothing is recorded.
LEMMA NothingRecordedAfterSweep ==
    ASSUME TypeOK, Custody, SweptRows, CloseLeavesNothing, mode \in SweptModes, NEW s \in Steps, Completes(s)
    PROVE  stepStatus[s] \notin {"QUEUED", "RUNNING"}
<1>1. ~CompleteStep
  BY DEF CompleteStep, CloseLeavesNothing, SweptModes
<1>2. PICK w \in Slots : completeDirect(w) /\ ex[w].step = s
  BY <1>1 DEF Completes
<1>3. stepStatus[s] \in Held
  BY <1>2 DEF completeDirect, Holding, Custody, Ownership, HeldRows
<1> QED
  BY <1>3 DEF SweptRows, Held, Terminal

\* No executor outlives the drain: there is no Close, or it has no deadline.
Drains ==
    \/ budget["close"] = 0 /\ mode = "up"
    \/ budget["timeout"] = 0 /\ (mode \notin {"up", "closing"} => \A w \in Slots : ex[w].pc = "idle")

\* Nothing suspends so late that the check after the suspension finds the sweep's
\* INTERRUPTED instead of the outcome it looks for: no step suspends, or no
\* executor outlives the drain.
Orderly ==
    \/ budget["suspend"] = 0 /\ \A w \in Slots : ex[w].pc # "suspended"
    \/ Drains

LEMMA OrderlyStep ==
    ASSUME TypeOK, Orderly, [Next]_vars
    PROVE  Orderly' /\ (Drains => Drains')
<1>0. /\ \A op \in {"suspend", "close", "timeout"} : budget[op] = 0 => budget'[op] = 0
      /\ \A w \in Slots : ex[w] \in Executors
      /\ Idle.pc = "idle" /\ (Restart => \A w \in Slots : ex'[w] = Idle)
  <2>1. Restart => \A w \in Slots : ex'[w] = Idle
    BY DEF Restart
  <2>2. Idle.pc = "idle"
    BY DEF Idle
  <2> QED
    BY <2>1, <2>2, BudgetShrinks DEF Ops, TypeOK, ExecTyped
<1>1. ASSUME budget["suspend"] = 0, \A w \in Slots : ex[w].pc # "suspended" PROVE Orderly'
  <2>1. ASSUME NEW w \in Slots, ex'[w].pc = "suspended" PROVE FALSE
    <3>1. ASSUME NEW kind, SuspendStep(w, kind) PROVE FALSE
      BY <1>1, <3>1 DEF SuspendStep, Spend
    <3>2. ~Bystander(w)
      BY <1>0, <1>1, <2>1, BystanderFields
    <3>3. CASE OwnStep(w)
      <4>1. ExecMove(w) /\ ex'[w] # Idle
        BY <1>0, <2>1, <3>3, ExecMoves
      <4>2. \A s \in Steps : ex'[w] # [Idle EXCEPT !.pc = "claimed", !.step = s, !.att = attempts'[s]]
        BY <2>1 DEF Idle
      <4> QED
        BY <2>1, <3>1, <4>1, <4>2 DEF ExecMove, Goes, Decision
    <3> QED
      BY <1>0, <2>1, <3>2, <3>3, SlotFrame
  <2> QED
    BY <1>0, <1>1, <2>1 DEF Orderly
<1>2. ASSUME budget["close"] = 0, mode = "up" PROVE Drains'
  <2>1. ~CloseBegin
    BY <1>2 DEF CloseBegin, Spend
  <2>2. mode' = "up"
    BY <1>2, <2>1, ModeMoves DEF ModeMove
  <2> QED
    BY <1>0, <1>2, <2>2 DEF Drains
<1>3. ASSUME budget["timeout"] = 0, mode \notin {"up", "closing"} => \A w \in Slots : ex[w].pc = "idle"
      PROVE  Drains'
  <2>1. ASSUME mode' \notin {"up", "closing"}, NEW w \in Slots PROVE ex'[w].pc = "idle"
    <3>1. CASE mode \in {"up", "closing"}
      <4>1. stopCompleter
        BY <2>1, <3>1, ModeMoves DEF ModeMove
      <4>2. ~Spend("timeout")
        BY <1>3 DEF Spend
      <4> QED
        BY <4>1, <4>2 DEF stopCompleter
    <3>2. CASE mode \notin {"up", "closing"}
      <4>1. ex[w].pc = "idle" /\ ~ \E s \in Steps : claimQueueTx(w, s)
        BY <1>3, <3>2 DEF claimQueueTx
      <4>2. ~OwnStep(w)
        BY <4>1 DEF OwnStep, ExecutorStep, Body, WriteFails, ParkStep, Register, HaltCheck, PauseCheck, SuspendCheck,
              AfterBody, PauseTerminal, Decide, ClosingCheck, submitCompletion, WriteStepCancelled, RequeuePausedStep,
              RetryStep, SuspendStep, recordFinalFailure, completeDirect, BodyReturns, FinishRun, Exit
      <4>3. CASE Bystander(w)
        BY <1>0, <4>1, <4>3, BystanderFields
      <4> QED
        BY <1>0, <4>2, <4>3, SlotFrame
    <3> QED
      BY <3>1, <3>2
  <2> QED
    BY <1>0, <1>3, <2>1 DEF Drains
<1> QED
  BY <1>1, <1>2, <1>3 DEF Orderly, Drains

\* An executor on its way to abandon its step has a run that is over; if Close's
\* sweep ended it, there is nothing left to abandon.
CancelsDead ==
    \A w \in Slots : ex[w].pc = "stepCancel" =>
        /\ runStatus[RunOf[ex[w].step]] \in Terminal \cup {"DELETED"}
        /\ runStatus[RunOf[ex[w].step]] = "INTERRUPTED" =>
              stepStatus[ex[w].step] \notin {"QUEUED", "RUNNING", "SUSPENDED"}

LEMMA CancelsDeadStep ==
    ASSUME TypeOK, Custody, SweptRows, Orderly, CancelsDead, [Next]_vars
    PROVE  CancelsDead'
<1> SUFFICES ASSUME NEW w \in Slots, ex'[w].pc = "stepCancel"
             PROVE  /\ runStatus'[RunOf[ex'[w].step]] \in Terminal \cup {"DELETED"}
                    /\ runStatus'[RunOf[ex'[w].step]] = "INTERRUPTED" =>
                          stepStatus'[ex'[w].step] \notin {"QUEUED", "RUNNING", "SUSPENDED"}
  BY DEF CancelsDead
<1>0. ex[w] \in Executors /\ (ex[w].pc # "idle" => ex[w].step \in Steps) /\ Idle.pc = "idle" /\ StartedRuns
  BY DEF TypeOK, ExecTyped, Custody, Idle
<1>1. ~Restart
  <2>1. Restart => ex'[w] = Idle
    BY DEF Restart
  <2> QED
    BY <1>0, <2>1
<1>2. CASE Bystander(w)
  <2> DEFINE s == ex[w].step
             r == RunOf[s]
  <2>1. ex[w].pc = "stepCancel" /\ ex'[w].step = s
    BY <1>0, <1>2, BystanderFields
  <2>2. s \in Steps /\ r \in Runs /\ StepMove(s) /\ RunMove(r)
    BY <1>0, <2>1, StepMoves, RunMoves
  <2>3. runStatus[r] \in Terminal \cup {"DELETED"}
    BY <2>1 DEF CancelsDead
  <2>4. ~(runStatus[r] = "FAILED" /\ runStatus'[r] = "QUEUED")
    BY <1>0, <2>2, RevivesByRetry, NothingRevived
  <2>5. runStatus'[r] \in Terminal \cup {"DELETED"} /\ (runStatus'[r] = "INTERRUPTED" => runStatus[r] = "INTERRUPTED")
    BY <1>1, <2>2, <2>3, <2>4 DEF RunMove, Replaces, Live, Terminal
  <2>6. ASSUME runStatus'[r] = "INTERRUPTED" PROVE stepStatus'[s] \notin {"QUEUED", "RUNNING", "SUSPENDED"}
    <3>1. runStatus[r] = "INTERRUPTED" /\ stepStatus[s] \notin {"QUEUED", "RUNNING", "SUSPENDED"}
      BY <2>1, <2>5, <2>6 DEF CancelsDead
    <3>2. ASSUME NEW d \in Deps[s], StepDone(d) PROVE FALSE
      <4>1. RunOf[d] = r
        BY <2>2
      <4> QED
        BY <3>1, <3>2, <4>1 DEF StepDone, Live
    <3> QED
      BY <1>1, <2>2, <2>6, <3>1, <3>2 DEF StepMove
  <2> QED
    BY <2>1, <2>5, <2>6
<1>3. CASE OwnStep(w)
  <2> DEFINE s == ex[w].step
             r == RunOf[s]
  <2>1. ExecMove(w) /\ ex'[w] # Idle
    BY <1>0, <1>3, ExecMoves
  <2>2. \A t \in Steps : ex'[w] # [Idle EXCEPT !.pc = "claimed", !.step = t, !.att = attempts'[t]]
    BY DEF Idle
  <2>3. ex'[w].step = s /\ (HaltCheck(w) \/ SuspendCheck(w) \/ Decide(w)) /\ runTerminal(r)
    BY <2>1, <2>2 DEF ExecMove, Goes, Decision
  <2>4. /\ runStatus' = runStatus /\ stepStatus' = stepStatus /\ s \in Steps /\ r \in Runs
        /\ ex[w].pc \in {"halted", "suspended", "decide"}
    BY <1>0, <2>3 DEF HaltCheck, SuspendCheck, Decide, database
  <2>5. ASSUME runStatus[r] = "INTERRUPTED" PROVE stepStatus[s] \notin {"QUEUED", "RUNNING", "SUSPENDED"}
    <3>1. mode \in SweptModes /\ stepStatus[s] # "RUNNING"
      BY <2>4, <2>5 DEF SweptRows
    <3>2. ex[w].pc # "suspended"
      BY <3>1 DEF Orderly, Drains, SweptModes
    <3>3. stepStatus[s] \in Held
      BY <2>4, <3>2 DEF Custody, Ownership, HeldRows, Holding
    <3> QED
      BY <3>1, <3>3 DEF Held, Terminal
  <2> QED
    BY <2>3, <2>4, <2>5 DEF runTerminal
<1> QED
  BY <1>1, <1>2, <1>3, SlotFrame

\* A final failure writes its own row FAILED and ends a live run.
LEMMA FinalFailureWrites ==
    ASSUME TypeOK, NEW w \in Slots, recordFinalFailure(w), NEW r \in Runs, RunOf[ex[w].step] = r,
           runStatus[r] # "DELETED", runStatus'[r] # "DELETED"
    PROVE  /\ ex[w].step \in Steps /\ stepStatus'[ex[w].step] = "FAILED"
           /\ runStatus'[r] = IF runStatus[r] \in Live THEN "FAILED" ELSE runStatus[r]
<1> DEFINE u == ex[w].step
           st == [t \in Steps |-> IF t = u THEN "FAILED"
                                  ELSE IF RunOf[t] = r /\ stepStatus[t] \in Active THEN "CANCELLED"
                                  ELSE stepStatus[t]]
           o == IF runStatus[r] \in Live THEN "FAILED" ELSE runStatus[r]
<1>1. u \in Steps /\ StoreTyped
  BY DEF recordFinalFailure, TypeOK, ExecTyped
<1>2. SetRun(r, o, st)
  BY DEF recordFinalFailure, FinalFailStep
<1>3. stepStatus' = st /\ runStatus'[r] = o
  BY <1>1, <1>2, SetRunRows
<1> QED
  BY <1>1, <1>3

\* The rows of a run that is not over: nothing abandoned, or something FAILED.
Whole == Active \cup {"SUCCEEDED", "INTERRUPTED"}

Sound == Custody /\ SweptRows /\ Orderly /\ CancelsDead /\ CloseLeavesNothing

\* A step of a run that is not over is abandoned only together with the run, or,
\* after the sweep, together with a FAILED step.
LEMMA Abandons ==
    ASSUME TypeOK, Sound, [Next]_vars, NEW s \in Steps, runStatus[RunOf[s]] \in Live \cup {"INTERRUPTED"},
           stepStatus[s] \in Whole, stepStatus'[s] \notin Whole
    PROVE  \/ runStatus'[RunOf[s]] \in {"FAILED", "CANCELLED", "DELETED"}
           \/ /\ runStatus[RunOf[s]] = "INTERRUPTED"
              /\ \E w \in Slots : recordFinalFailure(w) /\ RunOf[ex[w].step] = RunOf[s]
              /\ \E f \in StepsOf(RunOf[s]) : stepStatus'[f] = "FAILED"
           \/ Restart /\ stepStatus'[s] = "FAILED" /\ \E keep \in BootModes : ~keep
<1> DEFINE r == RunOf[s]
<1>0. StepMove(s) /\ r \in Runs /\ StoreTyped
  BY StepMoves DEF Sound, Custody, TypeOK
<1>1. ASSUME Completes(s), runTerminal(r), stepStatus[s] \in {"QUEUED", "RUNNING"} PROVE FALSE
  <2>1. runStatus[r] = "INTERRUPTED"
    BY <1>1 DEF runTerminal, Live, Terminal
  <2>2. mode \in SweptModes
    BY <1>0, <2>1 DEF Sound, SweptRows
  <2> QED
    BY <1>1, <2>2, NothingRecordedAfterSweep DEF Sound
<1>2. ASSUME NEW w \in Slots, WriteStepCancelled(w), ex[w].step = s, stepStatus[s] \in {"QUEUED", "RUNNING", "SUSPENDED"}
      PROVE  FALSE
  BY <1>2 DEF WriteStepCancelled, Sound, CancelsDead, Live, Terminal
<1>3. ASSUME CancelRun(r) \/ Replaces(r) PROVE runStatus'[r] \in {"CANCELLED", "DELETED"}
  BY <1>0, <1>3, SetRunRows DEF CancelRun, Replaces
<1>4. ASSUME NEW w \in Slots, recordFinalFailure(w), RunOf[ex[w].step] = r, runStatus[r] # "DELETED",
             runStatus'[r] \notin {"FAILED", "DELETED"}
      PROVE  runStatus[r] = "INTERRUPTED" /\ \E f \in StepsOf(r) : stepStatus'[f] = "FAILED"
  BY <1>0, <1>4, FinalFailureWrites DEF StepsOf
<1>5. ASSUME Restart, stepStatus'[s] = "FAILED" PROVE \E keep \in BootModes : ~keep
  <2>1. PICK keep \in BootModes : recoverInterrupted(keep)
    BY <1>5 DEF Restart
  <2> QED
    BY <1>0, <1>5, <2>1 DEF recoverInterrupted, Cut, Whole, Active
<1>6. runStatus'[r] = "DELETED" \/ stepStatus'[s] \in {"CANCELLED", "FAILED"}
  BY <1>0 DEF StepMove, Whole, Active
<1>7. \/ Completes(s) /\ runTerminal(r) /\ stepStatus[s] \in {"QUEUED", "RUNNING"}
      \/ \E w \in Slots : /\ WriteStepCancelled(w) /\ ex[w].step = s
                          /\ stepStatus[s] \in {"QUEUED", "RUNNING", "SUSPENDED"}
      \/ CancelRun(r) \/ Replaces(r)
      \/ \E w \in Slots : recordFinalFailure(w) /\ RunOf[ex[w].step] = r /\ runStatus[r] # "DELETED"
      \/ Restart /\ stepStatus'[s] = "FAILED"
      \/ runStatus'[r] = "DELETED"
  BY <1>0, <1>6 DEF StepMove, Whole, Active
<1> QED
  BY <1>1, <1>2, <1>3, <1>4, <1>5, <1>7

Unfinished == Live \cup {"INTERRUPTED"}

\* A run is unfinished from its insert on, and once over it stays over.
LEMMA UnfinishedMoves ==
    ASSUME TypeOK, Custody, [Next]_vars, NEW r \in Runs, runStatus'[r] \in Unfinished
    PROVE  \/ runStatus[r] \in Unfinished
           \/ /\ runStatus[r] = "NEW"
              /\ \A s \in StepsOf(r) : stepStatus'[s] \in {"QUEUED", "BLOCKED"}
<1>1. RunMove(r) /\ StartedRuns
  BY RunMoves DEF Custody
<1>2. ~(runStatus[r] = "FAILED" /\ runStatus'[r] = "QUEUED")
  BY <1>1, RevivesByRetry, NothingRevived
<1>3. ASSUME NEW c \in calls, c.run = r, EnqueueCreate(c)
      PROVE  \A s \in StepsOf(r) : stepStatus'[s] \in {"QUEUED", "BLOCKED"}
  BY <1>1, <1>3, CreatedRows DEF TypeOK, StartedRuns
<1> QED
  BY <1>1, <1>2, <1>3 DEF RunMove, Replaces, Unfinished, Live, Terminal

LEMMA FailedStays ==
    ASSUME TypeOK, Custody, [Next]_vars, NEW s \in Steps, stepStatus[s] = "FAILED", runStatus'[RunOf[s]] # "DELETED"
    PROVE  stepStatus'[s] = "FAILED"
<1>1. StepMove(s)
  BY StepMoves DEF Custody
<1>2. ~RetryDeadLetter(RunOf[s])
  BY NothingRevived
<1>3. ASSUME NEW c \in calls, c.run = RunOf[s], EnqueueCreate(c) PROVE FALSE
  BY <1>3 DEF EnqueueCreate, Custody, StartedRuns, FreshRuns
<1> QED
  BY <1>1, <1>2, <1>3 DEF StepMove, Active, StepDone

WholeRuns ==
    \A r \in Runs : runStatus[r] \in Unfinished =>
        \/ \E f \in StepsOf(r) : stepStatus[f] = "FAILED"
        \/ \A s \in StepsOf(r) : stepStatus[s] \in Whole

LEMMA WholeStep ==
    ASSUME TypeOK, Sound, WholeRuns, [Next]_vars
    PROVE  WholeRuns'
<1> SUFFICES ASSUME NEW r \in Runs, runStatus'[r] \in Unfinished, NEW s \in StepsOf(r), stepStatus'[s] \notin Whole
             PROVE  \E f \in StepsOf(r) : stepStatus'[f] = "FAILED"
  BY DEF WholeRuns, StepsOf
<1>0. Custody /\ s \in Steps /\ RunOf[s] = r
  BY DEF Sound, StepsOf
<1>1. runStatus[r] \in Unfinished
  BY <1>0, UnfinishedMoves DEF Whole, Active
<1>2. ASSUME NEW f \in StepsOf(r), stepStatus[f] = "FAILED" PROVE stepStatus'[f] = "FAILED"
  <2>1. f \in Steps /\ RunOf[f] = r /\ runStatus'[r] # "DELETED"
    BY DEF StepsOf, Unfinished, Live
  <2> QED
    BY <1>0, <1>2, <2>1, FailedStays
<1>3. CASE \A t \in StepsOf(r) : stepStatus[t] \in Whole
  <2>1. stepStatus[s] \in Whole /\ runStatus[RunOf[s]] \in Live \cup {"INTERRUPTED"}
    BY <1>0, <1>1, <1>3 DEF Unfinished
  <2>2. runStatus'[RunOf[s]] \notin {"FAILED", "CANCELLED", "DELETED"}
    BY <1>0 DEF Unfinished, Live
  <2> QED
    BY <1>0, <2>1, <2>2, Abandons
<1> QED
  BY <1>1, <1>2, <1>3 DEF WholeRuns

LEMMA SucceededStep ==
    ASSUME TypeOK, Sound, WholeRuns, SucceededMeansAll, [Next]_vars
    PROVE  SucceededMeansAll'
<1> SUFFICES ASSUME NEW r \in Runs, runStatus'[r] = "SUCCEEDED", NEW s \in StepsOf(r)
             PROVE  stepStatus'[s] = "SUCCEEDED"
  BY DEF SucceededMeansAll, StepsOf
<1>0. Custody /\ StartedRuns /\ s \in Steps /\ RunOf[s] = r /\ RunMove(r) /\ StepMove(s) /\ StoreTyped
  BY RunMoves, StepMoves DEF Sound, Custody, StepsOf, TypeOK
<1>1. CASE runStatus[r] = "SUCCEEDED"
  <2>1. stepStatus[s] = "SUCCEEDED"
    BY <1>1 DEF SucceededMeansAll
  <2>2. stepStatus'[s] # "DELETED"
    BY <1>0, <2>1 DEF StepMove
  <2> QED
    BY <1>0, <2>1, <2>2, SucceededStays
<1>2. CASE runStatus[r] # "SUCCEEDED"
  <2>1. runStatus[r] \in Live /\ ~Restart
    <3>1. ASSUME NEW keep \in BootModes, recoverInterrupted(keep) PROVE FALSE
      BY <1>2, <3>1 DEF recoverInterrupted, Cut
    <3> QED
      BY <1>0, <1>2, <3>1 DEF RunMove, Replaces, Live, Restart
  <2>2. PICK t \in StepsOf(r) : Completes(t) /\ StepDone(t)
    BY <1>0, <2>1, RunEnds
  <2>3. \A u \in StepsOf(r) : stepStatus'[u] \notin Active \cup {"FAILED"}
    BY <1>0, <2>1, RunEnds
  <2>4. ASSUME NEW f \in StepsOf(r), stepStatus[f] = "FAILED" PROVE FALSE
    BY <1>0, <2>3, <2>4, FailedStays DEF StepsOf
  <2>5. stepStatus[s] \in Whole
    BY <2>1, <2>4 DEF WholeRuns, Unfinished
  <2>6. stepStatus'[s] \in Whole
    BY <1>0, <2>1, <2>5, Abandons DEF Live
  <2>7. stepStatus'[s] # "INTERRUPTED"
    <3>1. mode \notin SweptModes
      BY <2>2, NothingRecordedAfterSweep DEF Sound, StepsOf, StepDone
    <3>2. ~InterruptAll
      BY <1>2 DEF InterruptAll
    <3> QED
      BY <1>0, <2>1, <3>1, <3>2 DEF StepMove, Sound, SweptRows
  <2> QED
    BY <2>3, <2>6, <2>7 DEF Whole
<1> QED
  BY <1>1, <1>2

LEMMA SoundStep == TypeOK /\ Sound /\ CloseLeavesNothing' /\ [Next]_vars => Sound'
BY CustodyStep, SweptStep, OrderlyStep, CancelsDeadStep DEF Sound, Custody

LEMMA SoundInit ==
    ASSUME Budget["retryDead"] = 0 \/ DeadLetter = {},
           Budget["suspend"] = 0 \/ Budget["close"] = 0 \/ Budget["timeout"] = 0,
           Init
    PROVE  Custody /\ SweptRows /\ Orderly /\ CancelsDead
<1>1. \A w \in Slots : ex[w] = Idle
  BY DEF Init
<1>2. Idle.pc = "idle"
  BY DEF Idle
<1>3. Orderly /\ CancelsDead
  BY <1>1, <1>2 DEF Init, Orderly, Drains, CancelsDead
<1>4. SweptRows
  BY DEF Init, SweptRows, SweptModes
<1> QED
  BY <1>3, <1>4, CustodyInit

\* A run is reported SUCCEEDED only if every one of its steps is, over crashes,
\* recoveries, pauses, cancels and store errors: as long as no dead-lettered run
\* is revived and no step can suspend under a Close that gives up waiting.
THEOREM SuccessIsWhole ==
    ASSUME Budget["retryDead"] = 0 \/ DeadLetter = {},
           Budget["suspend"] = 0 \/ Budget["close"] = 0 \/ Budget["timeout"] = 0
    PROVE  Spec => []SucceededMeansAll
<1>1. Init => Custody /\ SweptRows /\ Orderly /\ CancelsDead
  BY SoundInit
<1>2. Init => WholeRuns /\ SucceededMeansAll
  BY DEF Init, WholeRuns, SucceededMeansAll, Unfinished, Live
<1>3. Custody /\ SweptRows /\ Orderly /\ CancelsDead /\ CloseLeavesNothing => Sound
  BY DEF Sound
<1> QED
  BY <1>1, <1>2, <1>3, SoundStep, WholeStep, SucceededStep, TypeCorrect, CloseIsComplete, PTL DEF Spec

-----------------------------------------------------------------------------
(* A live run is never stranded.                                            *)

\* A workflow is a nonempty acyclic graph of steps: what Build accepts.
Acyclic == \A S \in SUBSET Steps : S # {} => \E s \in S : Deps[s] \cap S = {}
Workflow == Acyclic /\ \A r \in Runs : StepsOf(r) # {}

\* Boot recovery takes the cut rows up again.
Resumes == BootModes \subseteq {TRUE} \/ budget["restart"] = 0

\* Every row of an unfinished run is part of its work, and some of it is left.
WorkLeft ==
    \A r \in Runs : runStatus[r] \in Unfinished =>
        /\ \A s \in StepsOf(r) : stepStatus[s] \in Whole
        /\ \E s \in StepsOf(r) : stepStatus[s] # "SUCCEEDED"

\* The completion that leaves a run unfinished leaves one of its steps active.
LEMMA CompletionLeavesWork ==
    ASSUME TypeOK, NEW t \in Steps, completeStepTx(t), StepDone(t), runStatus'[RunOf[t]] \in Unfinished
    PROVE  \E s \in StepsOf(RunOf[t]) : stepStatus'[s] \in Active
<1>0. StoreTyped /\ RunOf[t] \in Runs /\ ~runTerminal(RunOf[t])
  BY DEF TypeOK, StepDone, runTerminal, Live, Terminal
<1>1. RunOutcome(t) = None /\ stepStatus' = unblockReadyTx(t)
  BY <1>0, completeStepCases, SetRunRows DEF Unfinished, Live
<1> QED
  BY <1>1, NoneAssumption DEF RunOutcome

LEMMA WorkStep ==
    ASSUME TypeOK, Sound, Drains, Resumes, WorkLeft, \A r \in Runs : StepsOf(r) # {}, [Next]_vars
    PROVE  WorkLeft'
<1> SUFFICES ASSUME NEW r \in Runs, runStatus'[r] \in Unfinished
             PROVE  /\ \A s \in StepsOf(r) : stepStatus'[s] \in Whole
                    /\ \E s \in StepsOf(r) : stepStatus'[s] # "SUCCEEDED"
  BY DEF WorkLeft, StepsOf
<1>0. Custody /\ StartedRuns
  BY DEF Sound, Custody
<1>1. CASE \A s \in StepsOf(r) : stepStatus'[s] \in {"QUEUED", "BLOCKED"}
  BY <1>1 DEF Whole, Active
<1>2. CASE runStatus[r] \in Unfinished
  <2>1. ASSUME NEW s \in StepsOf(r) PROVE stepStatus'[s] \in Whole
    <3>1. s \in Steps /\ RunOf[s] = r /\ stepStatus[s] \in Whole
      BY <1>2 DEF WorkLeft, StepsOf
    <3>2. runStatus'[r] \notin {"FAILED", "CANCELLED", "DELETED"} /\ runStatus[r] \in Live \cup {"INTERRUPTED"}
      BY <1>2 DEF Unfinished, Live
    <3>3. ASSUME runStatus[r] = "INTERRUPTED", NEW w \in Slots, recordFinalFailure(w) PROVE FALSE
      <4>1. mode \in SweptModes
        BY <3>3 DEF Sound, SweptRows
      <4>2. ex[w].pc = "idle"
        BY <4>1 DEF Drains, SweptModes
      <4> QED
        BY <3>3, <4>2 DEF recordFinalFailure
    <3>4. ASSUME Restart, NEW keep \in BootModes, ~keep PROVE FALSE
      <4>1. budget["restart"] > 0
        BY <3>4 DEF Restart, Spend
      <4>2. budget["restart"] # 0
        BY <4>1
      <4> QED
        BY <3>4, <4>2 DEF Resumes
    <3> QED
      BY <3>1, <3>2, <3>3, <3>4, Abandons
  <2>2. \E s \in StepsOf(r) : stepStatus'[s] # "SUCCEEDED"
    <3> SUFFICES ASSUME \A s \in StepsOf(r) : stepStatus'[s] = "SUCCEEDED" PROVE FALSE
      OBVIOUS
    <3>1. PICK s \in StepsOf(r) : stepStatus[s] # "SUCCEEDED"
      BY <1>2 DEF WorkLeft
    <3>2. s \in Steps /\ RunOf[s] = r /\ StepDone(s) /\ Completes(s)
      BY <1>0, <3>1, SuccessMoves DEF StepsOf
    <3>3. completeStepTx(s)
      BY <3>2, CompletesTx
    <3>4. PICK t \in StepsOf(r) : stepStatus'[t] \in Active
      BY <3>2, <3>3, CompletionLeavesWork
    <3> QED
      BY <3>4 DEF Active
  <2> QED
    BY <2>1, <2>2
<1> QED
  BY <1>0, <1>1, <1>2, UnfinishedMoves

\* Where work is left, the first unfinished step in the order of the dependencies
\* is not BLOCKED: it can move.
LEMMA WorkMoves == Workflow /\ SweptRows /\ OrderKept /\ WorkLeft => NoStrandedRun
<1> SUFFICES ASSUME Workflow, SweptRows, OrderKept, WorkLeft, mode = "up", NEW r \in Runs, runStatus[r] \in Live
             PROVE  \E s \in StepsOf(r) : stepStatus[s] \in {"QUEUED", "RUNNING", "SUSPENDED"}
  BY DEF NoStrandedRun
<1> DEFINE U == {s \in StepsOf(r) : stepStatus[s] # "SUCCEEDED"}
<1>1. U \in SUBSET Steps /\ U # {}
  BY DEF WorkLeft, Unfinished, StepsOf
<1>2. PICK m \in U : Deps[m] \cap U = {}
  <2> HIDE DEF U
  <2> QED
    BY <1>1 DEF Workflow, Acyclic
<1>3. m \in Steps /\ RunOf[m] = r /\ stepStatus[m] # "SUCCEEDED" /\ stepStatus[m] \in Whole
  BY <1>2 DEF WorkLeft, Unfinished, StepsOf
<1>4. \A d \in Deps[m] : d \in StepsOf(r) /\ d \notin U
  BY <1>2, <1>3 DEF StepsOf
<1>5. \A d \in Deps[m] : stepStatus[d] = "SUCCEEDED"
  BY <1>4
<1>6. stepStatus[m] # "BLOCKED"
  BY <1>3, <1>5 DEF OrderKept
<1>7. stepStatus[m] # "INTERRUPTED"
  BY <1>3 DEF SweptRows, SweptModes
<1> QED
  BY <1>3, <1>6, <1>7 DEF Whole, Active, StepsOf

\* No live run is ever stranded: while the engine is up it has a step that can
\* move, over crashes, pauses, store errors and late answers.  The workflow must
\* be acyclic and not empty; excluded are revivals, a Close that gives up waiting
\* for its executors, and a boot that fails the cut rows instead of resuming them.
THEOREM NoRunStranded ==
    ASSUME Workflow,
           Budget["retryDead"] = 0 \/ DeadLetter = {},
           Budget["close"] = 0 \/ Budget["timeout"] = 0,
           Budget["restart"] = 0 \/ BootModes \subseteq {TRUE}
    PROVE  Spec => []NoStrandedRun
<1>1. Init => Custody /\ SweptRows /\ Orderly /\ CancelsDead
  BY SoundInit
<1>2. Init => WorkLeft /\ OrderKept /\ Resumes
  BY ZenonT(60) DEF Init, WorkLeft, OrderKept, Begun, Resumes, Unfinished, Live
<1>3. Init => Drains
  <2> SUFFICES ASSUME Init PROVE Drains
    OBVIOUS
  <2>1. mode = "up" /\ budget = Budget
    BY DEF Init
  <2> QED
    BY <2>1 DEF Drains
<1>4. Custody /\ SweptRows /\ Orderly /\ CancelsDead /\ CloseLeavesNothing => Sound
  BY DEF Sound
<1>5. TypeOK /\ Resumes /\ [Next]_vars => Resumes'
  BY BudgetShrinks DEF Resumes, Ops
<1>6. TypeOK /\ Sound /\ Drains /\ Resumes /\ WorkLeft /\ [Next]_vars => WorkLeft'
  BY WorkStep DEF Workflow
<1>7. TypeOK /\ Sound /\ Drains /\ [Next]_vars => Drains'
  BY OrderlyStep DEF Sound
<1>8. Sound /\ OrderKept /\ TypeOK /\ [Next]_vars => OrderKept'
  BY OrderStep DEF Sound
<1>9. Sound /\ OrderKept /\ WorkLeft => NoStrandedRun
  BY WorkMoves DEF Sound
<1> QED
  BY <1>1, <1>2, <1>3, <1>4, <1>5, <1>6, <1>7, <1>8, <1>9, SoundStep, TypeCorrect, CloseIsComplete, PTL DEF Spec

-----------------------------------------------------------------------------
(* What an attempt is charged for.                                          *)

\* The counters of a step: charged by a claim, handed back by a park or a pause,
\* an error charged by the body.
CountMove(s) ==
    /\ \/ attempts'[s] = attempts[s]
       \/ \E w \in Slots : claimQueueTx(w, s) /\ Fresh(s) /\ attempts'[s] = attempts[s] + 1
       \/ /\ stepStatus[s] = "RUNNING" /\ attempts'[s] = attempts[s] - 1 /\ attempts[s] > 0
          /\ \E w \in Slots : (ParkStep(w) \/ RequeuePausedStep(w)) /\ ex[w].step = s
    /\ \/ fails'[s] = fails[s]
       \/ /\ fails'[s] = fails[s] + 1
          /\ \E w \in Slots : BodyReturns(w, "err") /\ ex[w].step = s

LEMMA CountMoves ==
    ASSUME TypeOK, Custody, [Next]_vars, NEW s \in Steps
    PROVE  CountMove(s)
<1>0. /\ attempts \in [Steps -> Nat] /\ fails \in [Steps -> Nat]
      /\ \A w \in Slots : ex[w].pc # "idle" => ex[w].step \in Steps
  BY DEF TypeOK, StoreTyped, ExecTyped
<1>1. CASE attempts' = attempts /\ fails' = fails
  BY <1>1 DEF CountMove
<1>2. ASSUME NEW r \in Runs, ClientCall(r) PROVE attempts' = attempts /\ fails' = fails
  <2>1. ~RetryDeadLetter(r)
    BY NothingRevived
  <2> QED
    BY <1>2, <2>1 DEF ClientCall, EnqueueRegister, CancelRun, PauseRun, ResumeRun,
                      DismissDeadLetter, purgeRunBatch, database
<1>3. ASSUME NEW c \in calls, CallContinues(c) PROVE attempts' = attempts /\ fails' = fails
  BY <1>3 DEF CallContinues, EnqueueCreate, EnqueueFail, interruptLocal, PauseMark, database
<1>4. ASSUME NEW w \in Slots, ParkStep(w) \/ RequeuePausedStep(w) PROVE CountMove(s)
  <2>1. Refund(ex[w].step) /\ fails' = fails /\ ex[w].step \in Steps
    BY <1>0, <1>4 DEF ParkStep, RequeuePausedStep
  <2>2. \/ attempts'[s] = attempts[s]
        \/ /\ stepStatus[s] = "RUNNING" /\ attempts'[s] = attempts[s] - 1 /\ attempts[s] > 0 /\ ex[w].step = s
    BY <1>0, <2>1 DEF Refund
  <2> QED
    BY <1>4, <2>1, <2>2 DEF CountMove
<1>5. ASSUME NEW w \in Slots, ExecutorStep(w) PROVE ParkStep(w) \/ RequeuePausedStep(w) \/ (attempts' = attempts /\ fails' = fails)
  BY <1>5 DEF ExecutorStep, Register, HaltCheck, PauseCheck, SuspendCheck, AfterBody,
              consumePause, PauseTerminal, Decide, ClosingCheck, submitCompletion, WriteStepCancelled,
              RetryStep, recordFinalFailure, completeDirect, FinishRun, Exit, database
<1>6. ASSUME NEW w \in Slots, NEW res, BodyReturns(w, res) PROVE CountMove(s)
  <2>1. /\ attempts' = attempts /\ ex[w].step \in Steps
        /\ fails' = [fails EXCEPT ![ex[w].step] = IF res = "err" THEN @ + 1 ELSE @]
    BY <1>0, <1>6 DEF BodyReturns, database
  <2>2. fails'[s] = fails[s] \/ (fails'[s] = fails[s] + 1 /\ res = "err" /\ ex[w].step = s)
    BY <1>0, <2>1
  <2> QED
    BY <1>6, <2>1, <2>2 DEF CountMove
<1>7. ASSUME NEW w \in Slots, NEW kind, SuspendStep(w, kind) PROVE attempts' = attempts /\ fails' = fails
  BY <1>7 DEF SuspendStep
<1>8. ASSUME NEW w \in Slots, WriteFails(w) PROVE attempts' = attempts /\ fails' = fails
  BY <1>8 DEF WriteFails, database
<1>9. ASSUME NEW w \in Slots, NEW t \in Steps, claimQueueTx(w, t) PROVE CountMove(s)
  <2>1. fails' = fails /\ (attempts' = attempts \/ (Fresh(t) /\ attempts' = [attempts EXCEPT ![t] = @ + 1]))
    BY <1>9 DEF claimQueueTx
  <2>2. attempts'[s] = attempts[s] \/ (s = t /\ Fresh(s) /\ attempts'[s] = attempts[s] + 1)
    BY <1>0, <2>1
  <2> QED
    BY <1>9, <2>1, <2>2 DEF CountMove
<1>10. CASE DeliverEvent \/ RegisterTask \/ CompleteStep \/ CompletionFails \/ afterComplete
  BY <1>1, <1>10 DEF DeliverEvent, RegisterTask, CompleteStep, CompletionFails, afterComplete, database
<1>11. CASE Shutdown \/ Restart
  BY <1>1, <1>11 DEF Shutdown, CloseBegin, stopCompleter, completerDone, InterruptAll, CloseRelease, Restart, database
<1>12. CASE UNCHANGED vars
  BY <1>1, <1>12 DEF vars, database
<1> QED
  BY <1>1, <1>2, <1>3, <1>4, <1>5, <1>6, <1>7, <1>8, <1>9, <1>10, <1>11, <1>12 DEF Next, Body

\* The counters of the step of an executor that goes on holding it are its own business.
LEMMA HolderCounts ==
    ASSUME TypeOK, Custody, [Next]_vars, NEW w \in Slots, ex[w].pc \in Holding, ex'[w].pc \in Holding
    PROVE  /\ attempts'[ex[w].step] = attempts[ex[w].step]
           /\ \/ fails'[ex[w].step] = fails[ex[w].step]
              \/ BodyReturns(w, "err") /\ fails'[ex[w].step] = fails[ex[w].step] + 1
<1> DEFINE s == ex[w].step
<1>0. s \in Steps /\ stepStatus[s] \in Held /\ SingleExecution /\ ex \in [Slots -> Executors]
  BY DEF TypeOK, ExecTyped, Custody, Ownership, HeldRows, Holding
<1>1. CountMove(s)
  BY <1>0, CountMoves
<1>2. ~Fresh(s)
  BY <1>0 DEF Fresh, Held, Terminal
<1>3. ASSUME NEW v \in Slots, ParkStep(v) \/ RequeuePausedStep(v), ex[v].step = s PROVE FALSE
  <2>1. v = w
    BY <1>0, <1>3 DEF SingleExecution, ParkStep, RequeuePausedStep, Holding
  <2>2. ex'[w] = Idle \/ Goto(w, "exit")
    BY <1>0, <1>3, <2>1 DEF ParkStep, RequeuePausedStep
  <2>3. Idle.pc = "idle"
    BY DEF Idle
  <2>4. Goto(w, "exit") => ex'[w].pc = "exit"
    BY GotoFields DEF Goes, TypeOK
  <2> QED
    BY <2>2, <2>3, <2>4 DEF Holding
<1>4. ASSUME NEW v \in Slots, BodyReturns(v, "err"), ex[v].step = s PROVE v = w
  BY <1>0, <1>4 DEF SingleExecution, BodyReturns, Holding
<1> QED
  BY <1>1, <1>2, <1>3, <1>4 DEF CountMove

\* The attempt of w's claim is not used up: its body has not returned, or has
\* only honoured its cancelled context and not been charged for it.
Unspent(w) == \/ ex[w].pc \in {"claimed", "halted", "pauseCheck", "body", "requeue", "pauseTerminal"}
              \/ ex[w].pc = "afterBody" /\ ex[w].res = "canceled"

\* Without crashes a step never has more errors than attempts, an error less while
\* an attempt is open, and never as many as its budget when it can be claimed.
Waiting == {"NEW", "QUEUED", "BLOCKED", "SUSPENDED"}
Charged ==
    /\ budget["restart"] = 0
    /\ \A s \in Steps : /\ fails[s] <= attempts[s] /\ fails[s] <= MaxAttempts
                        /\ stepStatus[s] \in Waiting => fails[s] < MaxAttempts
                        /\ stepStatus[s] = "SUSPENDED" => fails[s] < attempts[s]
    /\ \A w \in Slots : /\ ex[w].pc \in Holding => ex[w].att = attempts[ex[w].step]
                        /\ ex[w].pc = "retry" => ex[w].att < MaxAttempts
                        /\ Unspent(w) => /\ fails[ex[w].step] < MaxAttempts
                                         /\ fails[ex[w].step] < attempts[ex[w].step]

LEMMA ErrorReturned ==
    ASSUME TypeOK, NEW w \in Slots, BodyReturns(w, "err")
    PROVE  ex'[w].pc = "afterBody" /\ ex'[w].res = "err"
<1>0. ex \in [Slots -> Executors] /\ ex[w] \in Executors
  BY DEF TypeOK, ExecTyped
<1>1. ex' = [ex EXCEPT ![w] = [ex[w] EXCEPT !.pc = "afterBody", !.res = "err"]]
  BY DEF BodyReturns
<1> QED
  BY <1>0, <1>1 DEF Executors

LEMMA ChargedStep ==
    ASSUME TypeOK, Custody, Charged, [Next]_vars
    PROVE  Charged'
<1>0. /\ attempts \in [Steps -> Nat] /\ fails \in [Steps -> Nat] /\ MaxAttempts \in Nat
      /\ \A w \in Slots : ex[w] \in Executors /\ (ex[w].pc # "idle" => ex[w].step \in Steps)
      /\ SingleExecution /\ HeldRows /\ Idle.pc = "idle" /\ StartedRuns
  <2>1. Idle.pc = "idle"
    BY DEF Idle
  <2> QED
    BY <2>1 DEF TypeOK, StoreTyped, ExecTyped, Custody, Ownership
<1>1. budget'["restart"] = 0 /\ ~Restart
  <2>1. budget'["restart"] = 0
    BY BudgetShrinks DEF Charged, Ops
  <2>2. Restart => budget["restart"] > 0
    BY DEF Restart, Spend
  <2> QED
    BY <2>1, <2>2 DEF Charged
<1>2. ASSUME NEW w \in Slots, ParkStep(w) \/ RequeuePausedStep(w)
      PROVE  ex[w].step \in Steps /\ fails[ex[w].step] < MaxAttempts /\ fails[ex[w].step] < attempts[ex[w].step]
  BY <1>0, <1>2 DEF ParkStep, RequeuePausedStep, Charged, Unspent
<1>3. ASSUME NEW w \in Slots, ex[w].pc = "body"
      PROVE  ex[w].step \in Steps /\ fails[ex[w].step] < MaxAttempts /\ fails[ex[w].step] < attempts[ex[w].step]
  BY <1>0, <1>3 DEF Charged, Unspent
<1>4. ASSUME NEW w \in Slots, ex[w].pc = "retry"
      PROVE  ex[w].step \in Steps /\ fails[ex[w].step] < MaxAttempts
  <2>1. ex[w].step \in Steps /\ ex[w].att < MaxAttempts /\ ex[w].att = attempts[ex[w].step]
    BY <1>0, <1>4 DEF Charged, Holding
  <2>2. fails[ex[w].step] <= attempts[ex[w].step]
    BY <2>1 DEF Charged
  <2> QED
    BY <1>0, <2>1, <2>2
<1>5. ASSUME NEW s \in Steps PROVE fails'[s] <= attempts'[s] /\ fails'[s] <= MaxAttempts
  <2>1. CountMove(s) /\ fails[s] <= attempts[s] /\ fails[s] <= MaxAttempts
    BY CountMoves DEF Charged
  <2>2. CASE fails'[s] = fails[s] /\ attempts'[s] = attempts[s]
    BY <2>1, <2>2
  <2>3. ASSUME NEW w \in Slots, ParkStep(w) \/ RequeuePausedStep(w), ex[w].step = s, attempts'[s] = attempts[s] - 1
        PROVE  fails'[s] = fails[s] /\ fails[s] <= attempts'[s]
    <3>1. fails' = fails
      BY <2>3 DEF ParkStep, RequeuePausedStep
    <3> QED
      BY <1>0, <1>2, <2>3, <3>1
  <2>4. ASSUME NEW w \in Slots, BodyReturns(w, "err"), ex[w].step = s, fails'[s] = fails[s] + 1
        PROVE  fails'[s] <= attempts'[s] /\ fails'[s] <= MaxAttempts
    <3>1. ex[w].pc = "body" /\ attempts' = attempts
      BY <2>4 DEF BodyReturns, database
    <3> QED
      BY <1>0, <1>3, <2>4, <3>1
  <2>5. ASSUME NEW w \in Slots, claimQueueTx(w, s), attempts'[s] = attempts[s] + 1
        PROVE  fails'[s] <= attempts'[s] /\ fails'[s] <= MaxAttempts
    <3>1. fails' = fails
      BY <2>5 DEF claimQueueTx
    <3> QED
      BY <1>0, <2>1, <2>5, <3>1
  <2> QED
    BY <1>0, <2>1, <2>2, <2>3, <2>4, <2>5 DEF CountMove
<1>6. ASSUME NEW s \in Steps, stepStatus'[s] \in Waiting PROVE fails'[s] = fails[s] /\ fails[s] < MaxAttempts
  <2>1. CountMove(s) /\ StepMove(s)
    BY <1>0, CountMoves, StepMoves
  <2>2. ASSUME NEW w \in Slots, BodyReturns(w, "err"), ex[w].step = s PROVE FALSE
    <3>1. stepStatus' = stepStatus /\ ex[w].pc = "body"
      BY <2>2 DEF BodyReturns, database
    <3>2. stepStatus[s] \in Held
      BY <1>0, <2>2, <3>1 DEF HeldRows, Holding
    <3> QED
      BY <1>6, <3>1, <3>2 DEF Held, Terminal, Waiting
  <2>3. fails'[s] = fails[s]
    BY <2>1, <2>2 DEF CountMove
  <2>4. CASE stepStatus[s] \in Waiting
    BY <2>3, <2>4 DEF Charged
  <2>5. CASE stepStatus[s] \notin Waiting
    <3>1. \/ \E c \in calls : c.run = RunOf[s] /\ EnqueueCreate(c)
          \/ RetryDeadLetter(RunOf[s])
          \/ \E w \in Slots : (ParkStep(w) \/ RequeuePausedStep(w) \/ RetryStep(w)) /\ ex[w].step = s
          \/ \E w \in Slots, kind \in {"sleep", "wait", "deadline"} : SuspendStep(w, kind) /\ ex[w].step = s
      BY <1>1, <1>6, <2>1, <2>5 DEF StepMove, Waiting
    <3>2. ASSUME NEW c \in calls, c.run = RunOf[s], EnqueueCreate(c) PROVE FALSE
      BY <2>5, <3>2 DEF EnqueueCreate, Custody, StartedRuns, FreshRuns, Waiting
    <3>3. ASSUME NEW w \in Slots, RetryStep(w), ex[w].step = s PROVE fails[s] < MaxAttempts
      BY <1>4, <3>3 DEF RetryStep
    <3>4. ASSUME NEW w \in Slots, NEW kind, SuspendStep(w, kind), ex[w].step = s PROVE fails[s] < MaxAttempts
      BY <1>3, <3>4 DEF SuspendStep
    <3> QED
      BY <1>2, <2>3, <3>1, <3>2, <3>3, <3>4, NothingRevived
  <2> QED
    BY <2>3, <2>4, <2>5
<1>7. ASSUME NEW s \in Steps, stepStatus'[s] = "SUSPENDED" PROVE fails'[s] < attempts'[s]
  <2>1. CountMove(s) /\ StepMove(s) /\ fails'[s] = fails[s]
    BY <1>0, <1>7, <1>6, CountMoves, StepMoves DEF Waiting
  <2>2. CASE stepStatus[s] = "SUSPENDED"
    <3>1. fails[s] < attempts[s]
      BY <2>2 DEF Charged
    <3> QED
      BY <2>1, <2>2, <3>1 DEF CountMove, Fresh
  <2>3. CASE stepStatus[s] # "SUSPENDED"
    <3>1. PICK w \in Slots, kind \in {"sleep", "wait", "deadline"} : SuspendStep(w, kind) /\ ex[w].step = s
      BY <1>1, <1>7, <2>1, <2>3 DEF StepMove
    <3>2. attempts' = attempts /\ ex[w].pc = "body"
      BY <3>1 DEF SuspendStep
    <3> QED
      BY <1>3, <2>1, <3>1, <3>2
  <2> QED
    BY <2>2, <2>3
<1>8. ASSUME NEW w \in Slots, ex'[w].pc \in Holding
      PROVE  /\ ex'[w].att = attempts'[ex'[w].step]
             /\ ex'[w].pc = "retry" => ex'[w].att < MaxAttempts
             /\ Unspent(w)' => fails'[ex'[w].step] < MaxAttempts /\ fails'[ex'[w].step] < attempts'[ex'[w].step]
  <2>1. CASE \E s \in Steps : claimQueueTx(w, s) /\ ex'[w].step = s /\ ex'[w].att = attempts'[s]
    <3>1. PICK s \in Steps : claimQueueTx(w, s) /\ ex'[w].step = s /\ ex'[w].att = attempts'[s]
      BY <2>1
    <3>2. fails' = fails /\ stepStatus[s] \in {"QUEUED", "SUSPENDED"}
      BY <3>1 DEF claimQueueTx, Fresh
    <3>3. fails[s] < MaxAttempts /\ fails[s] <= attempts[s]
      BY <3>2 DEF Charged, Waiting
    <3>4. \/ attempts'[s] = attempts[s] + 1
          \/ stepStatus[s] = "SUSPENDED" /\ attempts'[s] = attempts[s]
      BY <1>0, <3>1 DEF claimQueueTx
    <3>5. fails[s] < attempts'[s]
      BY <1>0, <3>3, <3>4 DEF Charged
    <3>6. ex'[w].pc # "retry"
      <4>1. ex' = [ex EXCEPT ![w] = [Idle EXCEPT !.pc = "claimed", !.step = s, !.att = attempts'[s]]]
        BY <3>1 DEF claimQueueTx
      <4>2. ex'[w] = [Idle EXCEPT !.pc = "claimed", !.step = s, !.att = attempts'[s]]
        BY <4>1 DEF TypeOK, ExecTyped
      <4> QED
        BY <4>2 DEF Idle
    <3> QED
      BY <3>1, <3>2, <3>3, <3>5, <3>6
  <2>2. CASE ex[w].pc \in Holding /\ ex'[w].step = ex[w].step /\ ex[w].step \in Steps /\ ex'[w].att = ex[w].att
    <3>1. /\ attempts'[ex[w].step] = attempts[ex[w].step]
          /\ \/ fails'[ex[w].step] = fails[ex[w].step]
             \/ BodyReturns(w, "err") /\ fails'[ex[w].step] = fails[ex[w].step] + 1
      BY <1>8, <2>2, HolderCounts
    <3>2. ex[w].att = attempts[ex[w].step]
      BY <2>2 DEF Charged
    <3>3. /\ ex'[w].pc = "retry" => ex[w].pc = "retry" \/ ex[w].att < MaxAttempts
          /\ Unspent(w)' => Unspent(w) /\ ~BodyReturns(w, "err")
      <4>1. CASE Bystander(w)
        <5>1. ex'[w].pc = ex[w].pc /\ ex'[w].res = ex[w].res
          BY <1>0, <4>1, BystanderFields
        <5>2. ~BodyReturns(w, "err")
          <6>1. BodyReturns(w, "err") => ex'[w].pc = "afterBody" /\ ex[w].pc = "body"
            BY ErrorReturned DEF BodyReturns
          <6> QED
            BY <5>1, <6>1
        <5> QED
          BY <5>1, <5>2 DEF Unspent
      <4>2. CASE OwnStep(w)
        <5>1. ExecMove(w) /\ ex'[w] # Idle
          BY <1>0, <1>8, <4>2, ExecMoves DEF Holding
        <5>2. ASSUME NEW s \in Steps, claimQueueTx(w, s) PROVE FALSE
          BY <2>2, <5>2 DEF claimQueueTx, Holding
        <5>3. ex'[w].pc = "retry" => ex[w].att < MaxAttempts
          BY <5>1, <5>2 DEF ExecMove, Goes, Decision, AttemptsLeft
        <5>4. Unspent(w)' => Unspent(w) /\ ~BodyReturns(w, "err")
          <6>1. BodyReturns(w, "err") => ex'[w].pc = "afterBody" /\ ex'[w].res = "err"
            BY ErrorReturned
          <6>2. BodyReturns(w, "err") => ~Unspent(w)'
            BY <6>1 DEF Unspent
          <6>3. ASSUME Unspent(w)' PROVE Unspent(w)
            BY <5>1, <5>2, <6>3 DEF Unspent, ExecMove, Goes, Decision, Register, HaltCheck, PauseCheck, AfterBody,
                 PauseTerminal, BodyReturns
          <6> QED
            BY <6>2, <6>3
        <5> QED
          BY <5>3, <5>4
      <4> QED
        BY <1>1, <4>1, <4>2, SlotFrame
    <3> QED
      BY <2>2, <3>1, <3>2, <3>3 DEF Charged
  <2> QED
    BY <1>8, <2>1, <2>2, HolderMoves
<1>9. ASSUME NEW w \in Slots, Unspent(w)' PROVE ex'[w].pc \in Holding
  BY <1>9 DEF Unspent, Holding
<1>10. "retry" \in Holding
  BY DEF Holding
<1> QED
  BY <1>1, <1>5, <1>6, <1>7, <1>8, <1>9, <1>10 DEF Charged

\* Retries stay within max_attempts: without crashes no step's body fails more
\* often, whatever is paused, parked, suspended, resumed or lost on the way.
THEOREM RetryBudgetKept ==
    ASSUME Budget["restart"] = 0, Budget["retryDead"] = 0 \/ DeadLetter = {}
    PROVE  Spec => []BudgetRespected
<1>1. Init => Charged
  <2> SUFFICES ASSUME Init PROVE Charged
    OBVIOUS
  <2>1. \A w \in Slots : ex[w] = Idle
    BY DEF Init
  <2>2. Idle.pc = "idle"
    BY DEF Idle
  <2>3. \A w \in Slots : ~Unspent(w) /\ ex[w].pc \notin Holding /\ ex[w].pc # "retry"
    BY <2>1, <2>2 DEF Unspent, Holding
  <2>4. /\ budget["restart"] = 0
        /\ \A s \in Steps : attempts[s] = 0 /\ fails[s] = 0 /\ stepStatus[s] = "NEW"
    BY DEF Init
  <2> QED
    BY <2>3, <2>4 DEF Charged
<1>2. Init => Custody
  BY CustodyInit
<1>3. Charged => BudgetRespected
  BY DEF Charged, BudgetRespected
<1> QED
  BY <1>1, <1>2, <1>3, ChargedStep, CustodyStep, TypeCorrect, PTL DEF Spec

-----------------------------------------------------------------------------
(* A task that honours its cancelled context is not charged for it.         *)

\* A cancel func is registered by the executor it ends and forgotten on its exit.
LEMMA CancelFuncMoves ==
    ASSUME [Next]_vars
    PROVE  \/ cancels' = cancels
           \/ \E w \in Slots : Register(w) /\ cancels' = [cancels EXCEPT ![ex[w].step] = w]
           \/ \E w \in Slots : Exit(w) /\ cancels' = [cancels EXCEPT ![ex[w].step] = None]
           \/ Restart /\ cancels' = [s \in Steps |-> None]
<1> USE DEF memory
<1>1. ASSUME NEW r \in Runs, ClientCall(r) PROVE cancels' = cancels
  BY <1>1 DEF ClientCall, EnqueueRegister, CancelRun, PauseRun, ResumeRun, RetryDeadLetter,
              DismissDeadLetter, purgeRunBatch
<1>2. ASSUME NEW c \in calls, CallContinues(c) PROVE cancels' = cancels
  BY <1>2 DEF CallContinues, EnqueueCreate, EnqueueFail, interruptLocal, PauseMark
<1>3. ASSUME NEW w \in Slots, ExecutorStep(w) PROVE cancels' = cancels \/ Register(w) \/ Exit(w)
  BY <1>3 DEF ExecutorStep, ParkStep, HaltCheck, PauseCheck, SuspendCheck, AfterBody,
              consumePause, PauseTerminal, Decide, ClosingCheck, submitCompletion, WriteStepCancelled,
              RequeuePausedStep, RetryStep, recordFinalFailure, completeDirect, FinishRun
<1>4. ASSUME NEW w \in Slots, Body(w) \/ WriteFails(w) PROVE cancels' = cancels
  BY <1>4 DEF Body, BodyReturns, SuspendStep, WriteFails
<1>5. ASSUME NEW w \in Slots, NEW t \in Steps, claimQueueTx(w, t) PROVE cancels' = cancels
  BY <1>5 DEF claimQueueTx
<1>6. CASE DeliverEvent \/ RegisterTask \/ CompleteStep \/ CompletionFails \/ afterComplete \/ Shutdown
  BY <1>6 DEF DeliverEvent, RegisterTask, CompleteStep, CompletionFails, afterComplete, Shutdown,
              CloseBegin, stopCompleter, completerDone, InterruptAll, CloseRelease
<1>7. CASE Restart
  BY <1>7 DEF Restart
<1>8. CASE UNCHANGED vars
  BY <1>8 DEF vars
<1>9. ASSUME NEW w \in Slots, Register(w) PROVE cancels' = [cancels EXCEPT ![ex[w].step] = w]
  BY <1>9 DEF Register
<1>10. ASSUME NEW w \in Slots, Exit(w) PROVE cancels' = [cancels EXCEPT ![ex[w].step] = None]
  BY <1>10 DEF Exit
<1> QED
  BY <1>1, <1>2, <1>3, <1>4, <1>5, <1>6, <1>7, <1>8, <1>9, <1>10 DEF Next

\* A pause mark stays until the executor of its step consumes it.
LEMMA PauseMarksStay ==
    ASSUME [Next]_vars, ~Restart, NEW s \in pauseSteps, s \notin pauseSteps'
    PROVE  \E w \in Slots : (PauseCheck(w) \/ AfterBody(w)) /\ ex[w].step = s
<1> USE DEF memory
<1>1. ASSUME NEW r \in Runs, ClientCall(r) PROVE pauseSteps' = pauseSteps
  BY <1>1 DEF ClientCall, EnqueueRegister, CancelRun, PauseRun, ResumeRun, RetryDeadLetter,
              DismissDeadLetter, purgeRunBatch
<1>2. ASSUME NEW c \in calls, CallContinues(c) PROVE pauseSteps \subseteq pauseSteps'
  BY <1>2 DEF CallContinues, EnqueueCreate, EnqueueFail, interruptLocal, PauseMark
<1>3. ASSUME NEW w \in Slots, ExecutorStep(w) PROVE pauseSteps' = pauseSteps \/ PauseCheck(w) \/ AfterBody(w)
  BY <1>3 DEF ExecutorStep, ParkStep, Register, HaltCheck, SuspendCheck,
              PauseTerminal, Decide, ClosingCheck, submitCompletion, WriteStepCancelled,
              RequeuePausedStep, RetryStep, recordFinalFailure, completeDirect, FinishRun, Exit
<1>4. ASSUME NEW w \in Slots, Body(w) \/ WriteFails(w) PROVE pauseSteps' = pauseSteps
  BY <1>4 DEF Body, BodyReturns, SuspendStep, WriteFails
<1>5. ASSUME NEW w \in Slots, NEW t \in Steps, claimQueueTx(w, t) PROVE pauseSteps' = pauseSteps
  BY <1>5 DEF claimQueueTx
<1>6. CASE DeliverEvent \/ RegisterTask \/ CompleteStep \/ CompletionFails \/ afterComplete \/ Shutdown
  BY <1>6 DEF DeliverEvent, RegisterTask, CompleteStep, CompletionFails, afterComplete, Shutdown,
              CloseBegin, stopCompleter, completerDone, InterruptAll, CloseRelease
<1>7. CASE UNCHANGED vars
  BY <1>7 DEF vars
<1>8. ASSUME NEW w \in Slots, PauseCheck(w) \/ AfterBody(w) PROVE pauseSteps' = pauseSteps \ {ex[w].step}
  BY <1>8 DEF PauseCheck, AfterBody, consumePause
<1> QED
  BY <1>1, <1>2, <1>3, <1>4, <1>5, <1>6, <1>7, <1>8 DEF Next

\* The step that ends the context of the executor in slot w, through the cancel
\* func that is registered for s.
Ends(w, s) ==
    /\ cancels[s] = w
    /\ \/ \E c \in calls : (interruptLocal(c) \/ PauseMark(c)) /\ s \in c.steps
       \/ \E v \in Slots : FinishRun(v) /\ s \in ex[v].kill

\* Nothing else ends a bystander's context.
LEMMA ContextEnds ==
    ASSUME TypeOK, [Next]_vars, ~Restart, NEW w \in Slots, ~OwnStep(w)
    PROVE  ex'[w] = ex[w] \/ \E s \in Steps : Ends(w, s)
<1>1. ASSUME NEW r \in Runs, ClientCall(r) PROVE ex' = ex
  BY <1>1 DEF ClientCall, EnqueueRegister, CancelRun, PauseRun, ResumeRun, RetryDeadLetter,
              DismissDeadLetter, purgeRunBatch
<1>2. ASSUME NEW S PROVE CancelContexts(S)[w] = ex[w] \/ \E s \in S : cancels[s] = w
  BY DEF CancelContexts
<1>3. ASSUME NEW c \in calls, CallContinues(c) PROVE ex'[w] = ex[w] \/ \E s \in Steps : Ends(w, s)
  <2>1. c.steps \subseteq Steps
    BY DEF TypeOK, MemoryTyped, Calling
  <2>2. ex' = ex \/ (ex' = CancelContexts(c.steps) /\ (interruptLocal(c) \/ PauseMark(c)))
    BY <1>3 DEF CallContinues, EnqueueCreate, EnqueueFail, interruptLocal, PauseMark
  <2> QED
    BY <1>2, <2>1, <2>2 DEF Ends
<1>4. ASSUME NEW v \in Slots, OwnStep(v) PROVE ex'[w] = ex[w] \/ \E s \in Steps : Ends(w, s)
  <2>1. v # w
    BY <1>4
  <2>2. CASE FinishRun(v)
    <3>1. ex' = [CancelContexts(ex[v].kill) EXCEPT ![v].pc = "exit", ![v].kill = {}]
      BY <2>2 DEF FinishRun
    <3>2. CancelContexts(ex[v].kill) \in [Slots -> Executors] /\ ex[v].kill \subseteq Steps
      BY CancelContextsTyped DEF TypeOK, ExecTyped, Executors
    <3>3. ex'[w] = CancelContexts(ex[v].kill)[w]
      BY <2>1, <3>1, <3>2
    <3> QED
      BY <1>2, <2>2, <3>2, <3>3 DEF Ends
  <2>3. CASE ~FinishRun(v)
    BY <1>4, <2>1, <2>3, OthersUntouched
  <2> QED
    BY <2>2, <2>3
<1>5. CASE DeliverEvent \/ RegisterTask \/ CompleteStep \/ CompletionFails \/ afterComplete
  BY <1>5 DEF DeliverEvent, RegisterTask, CompleteStep, CompletionFails, afterComplete
<1>6. CASE Shutdown
  BY <1>6 DEF Shutdown, CloseBegin, stopCompleter, completerDone, InterruptAll, CloseRelease
<1>7. CASE UNCHANGED vars
  BY <1>7 DEF vars
<1> QED
  BY <1>1, <1>3, <1>4, <1>5, <1>6, <1>7 DEF Next, OwnStep

\* A run is over: it exists, or did, and is not live.
Over(r) == runStatus[r] \notin Live \cup {"NEW"}

LEMMA OverStays ==
    ASSUME TypeOK, Custody, [Next]_vars, ~Restart, NEW r \in Runs, Over(r)
    PROVE  Over(r)'
<1>1. RunMove(r) /\ StartedRuns
  BY RunMoves DEF Custody
<1>2. ~(runStatus[r] = "FAILED" /\ runStatus'[r] = "QUEUED")
  BY <1>1, RevivesByRetry, NothingRevived
<1> QED
  BY <1>1, <1>2 DEF RunMove, Replaces, Over, Live, Terminal

\* Who can end a context, and what a context that is done says of the run: it is
\* over, or the step is marked as paused, or the engine is closing.
CancelFuncs ==
    \A s \in Steps, w \in Slots : cancels[s] = w => ex[w].step = s /\ ex[w].pc \notin {"idle", "claimed"}
CancelCalls ==
    \A c \in calls : c.op = "cancel" => runStatus[c.run] \in {"CANCELLED", "DELETED"} /\ c.steps \subseteq StepsOf(c.run)
Kills ==
    \A w \in Slots : /\ ex[w].pc # "finish" => ex[w].kill = {}
                     /\ \A t \in ex[w].kill : RunOf[t] = RunOf[ex[w].step] /\ Over(RunOf[t])
DoneContexts ==
    \A w \in Slots :
        LET r == RunOf[ex[w].step] IN
        /\ ex[w].pc = "claimed" => ~ex[w].cancelled
        /\ ex[w].pc \in {"halted", "pauseCheck", "body", "afterBody"} /\ ex[w].cancelled
             => ex[w].step \in pauseSteps \/ Over(r)
        /\ ex[w].pc = "afterBody" /\ ex[w].res = "canceled" => ex[w].cancelled \/ mode # "up"
        /\ ex[w].pc \in {"decide", "closingCheck"} /\ ex[w].res = "canceled" => Over(r) \/ mode # "up"
        /\ ex[w].pc \in {"retry", "finalFail"} /\ ex[w].res = "canceled" => Over(r)
Contexts == CancelFuncs /\ CancelCalls /\ Kills /\ DoneContexts

LEMMA CancelFuncsStep ==
    ASSUME TypeOK, CancelFuncs, [Next]_vars
    PROVE  CancelFuncs'
<1> SUFFICES ASSUME NEW s \in Steps, NEW w \in Slots, cancels'[s] = w
             PROVE  ex'[w].step = s /\ ex'[w].pc \notin {"idle", "claimed"}
  BY DEF CancelFuncs
<1>0. /\ cancels \in [Steps -> Slots \cup {None}] /\ ex[w] \in Executors /\ ExecTyped /\ None \notin Slots
      /\ \A v \in Slots : ex[v].pc # "idle" => ex[v].step \in Steps
  BY DEF TypeOK, MemoryTyped, ExecTyped
<1>1. ~Restart
  BY <1>0 DEF Restart
<1>2. ASSUME NEW v \in Slots, Register(v), s = ex[v].step, cancels' = [cancels EXCEPT ![ex[v].step] = v]
      PROVE  ex'[w].step = s /\ ex'[w].pc \notin {"idle", "claimed"}
  <2>1. v = w
    BY <1>0, <1>2
  <2>2. Goto(w, IF s \in haltSteps THEN "halted" ELSE "pauseCheck")
    BY <1>2, <2>1 DEF Register
  <2>3. ex'[w].step = ex[w].step /\ Goes(w, IF s \in haltSteps THEN "halted" ELSE "pauseCheck")
    BY <1>0, <2>2, GotoFields
  <2> QED
    BY <1>2, <2>1, <2>3 DEF Goes
<1>3. CASE cancels[s] = w /\ ~(Exit(w) /\ ex[w].step = s)
  <2>1. ex[w].step = s /\ ex[w].pc \notin {"idle", "claimed"}
    BY <1>3 DEF CancelFuncs
  <2>2. CASE Bystander(w)
    BY <1>0, <2>1, <2>2, BystanderFields
  <2>3. CASE OwnStep(w)
    <3>1. ExecMove(w) /\ ~Exit(w)
      BY <1>3, <2>1, <2>3, ExecMoves
    <3>2. ~ \E t \in Steps : claimQueueTx(w, t)
      BY <2>1 DEF claimQueueTx
    <3>3. ex'[w].step = s
      BY <2>1, <3>1, <3>2 DEF ExecMove
    <3>4. ex'[w].pc \notin {"idle", "claimed"}
      BY <2>1, <3>1, <3>2 DEF ExecMove, Goes, Decision
    <3> QED
      BY <3>3, <3>4
  <2> QED
    BY <1>1, <2>2, <2>3, SlotFrame
<1>4. ASSUME NEW v \in Slots, Register(v), cancels' = [cancels EXCEPT ![ex[v].step] = v], s # ex[v].step
      PROVE  cancels[s] = w /\ ~(Exit(w) /\ ex[w].step = s)
  <2>1. cancels[s] = w
    BY <1>0, <1>4
  <2>2. ~Exit(w) \/ ex[w].step # s
    <3>1. Exit(w) => cancels' = [cancels EXCEPT ![ex[w].step] = None]
      BY DEF Exit
    <3> QED
      BY <1>0, <3>1
  <2> QED
    BY <2>1, <2>2
<1>5. ASSUME NEW v \in Slots, Exit(v), cancels' = [cancels EXCEPT ![ex[v].step] = None]
      PROVE  cancels[s] = w /\ ~(Exit(w) /\ ex[w].step = s)
  <2>1. ex[v].step \in Steps
    BY <1>0, <1>5 DEF Exit
  <2>2. s # ex[v].step /\ cancels[s] = w
    BY <1>0, <1>5, <2>1
  <2>3. Exit(w) => cancels' = [cancels EXCEPT ![ex[w].step] = None]
    BY DEF Exit
  <2> QED
    BY <1>0, <2>2, <2>3
<1>6. ASSUME cancels' = cancels PROVE cancels[s] = w /\ ~(Exit(w) /\ ex[w].step = s)
  <2>1. Exit(w) => cancels' = [cancels EXCEPT ![ex[w].step] = None]
    BY DEF Exit
  <2> QED
    BY <1>0, <1>6, <2>1
<1> QED
  BY <1>1, <1>2, <1>3, <1>4, <1>5, <1>6, CancelFuncMoves

LEMMA CancelCallsStep ==
    ASSUME TypeOK, Custody, CancelCalls, [Next]_vars
    PROVE  CancelCalls'
<1> SUFFICES ASSUME NEW c \in calls', c.op = "cancel"
             PROVE  runStatus'[c.run] \in {"CANCELLED", "DELETED"} /\ c.steps \subseteq StepsOf(c.run)
  BY DEF CancelCalls, StepsOf
<1>0. StoreTyped /\ StartedRuns
  BY DEF TypeOK, Custody
<1>1. CASE c \in calls
  <2>1. c.run \in Runs /\ runStatus[c.run] \in {"CANCELLED", "DELETED"} /\ c.steps \subseteq StepsOf(c.run)
    BY <1>1 DEF CancelCalls, TypeOK, MemoryTyped, Calling
  <2>2. RunMove(c.run)
    BY <1>0, <2>1, RunMoves
  <2> QED
    BY <2>1, <2>2 DEF RunMove, Replaces, Live
<1>2. ASSUME NEW r \in Runs, Begins(c, r)
      PROVE  runStatus'[c.run] \in {"CANCELLED", "DELETED"} /\ c.steps \subseteq StepsOf(c.run)
  <2>1. (CancelRun(r) \/ Replaces(r)) /\ c = [op |-> "cancel", run |-> r, steps |-> RunningSteps(r)]
    BY <1>2 DEF Begins
  <2>2. runStatus'[r] \in {"CANCELLED", "DELETED"}
    BY <1>0, <2>1, SetRunRows DEF CancelRun, Replaces
  <2> QED
    BY <2>1, <2>2 DEF RunningSteps
<1> QED
  BY <1>0, <1>1, <1>2, CallMoves DEF StartedRuns

LEMMA KillsStep ==
    ASSUME TypeOK, Custody, Kills, [Next]_vars
    PROVE  Kills'
<1> SUFFICES ASSUME NEW w \in Slots
             PROVE  /\ ex'[w].pc # "finish" => ex'[w].kill = {}
                    /\ \A t \in ex'[w].kill : RunOf[t] = RunOf[ex'[w].step] /\ Over(RunOf[t])'
  BY DEF Kills
<1>0. /\ ex[w] \in Executors /\ ex[w].kill \subseteq Steps /\ (ex[w].pc # "idle" => ex[w].step \in Steps)
      /\ StartedRuns /\ StoreTyped
  BY DEF TypeOK, ExecTyped, Executors, Custody
<1>1. CASE Restart \/ ex'[w] = Idle
  <2>1. ex'[w] = Idle
    BY <1>1 DEF Restart
  <2>2. Idle.kill = {}
    BY DEF Idle
  <2> QED
    BY <2>1, <2>2
<1>2. CASE ex'[w].pc = ex[w].pc /\ ex'[w].step = ex[w].step /\ ex'[w].kill = ex[w].kill /\ ~Restart
  BY <1>0, <1>2, OverStays DEF Kills
<1>3. CASE ex[w].kill = {} /\ ex'[w].kill = ex[w].kill
  BY <1>3
<1>4. CASE OwnStep(w) /\ ~Restart /\ ex'[w] # Idle
  <2>1. ExecMove(w)
    BY <1>4, ExecMoves
  <2>2. CASE \E s \in Steps : ex'[w] = [Idle EXCEPT !.pc = "claimed", !.step = s, !.att = attempts'[s]]
    <3>1. ex'[w].kill = {}
      BY <2>2 DEF Idle
    <3> QED
      BY <3>1
  <2>3. CASE /\ recordFinalFailure(w) /\ ex'[w].pc = "finish" /\ runStatus[RunOf[ex[w].step]] # "DELETED"
             /\ ex'[w].step = ex[w].step
             /\ ex'[w].kill = {t \in StepsOf(RunOf[ex[w].step]) \ {ex[w].step} : stepStatus[t] \in Active}
    <3> DEFINE r == RunOf[ex[w].step]
    <3>1. ex[w].step \in Steps /\ r \in Runs /\ runStatus[r] # "NEW"
      BY <1>0, <2>3 DEF recordFinalFailure, StartedRuns
    <3>2. runStatus'[r] = "DELETED" \/ runStatus'[r] = IF runStatus[r] \in Live THEN "FAILED" ELSE runStatus[r]
      BY <2>3, <3>1, FinalFailureWrites
    <3>3. runStatus'[r] \notin Live \cup {"NEW"}
      BY <3>1, <3>2 DEF Live
    <3> QED
      BY <2>3, <3>3 DEF StepsOf, Over
  <2>4. CASE ex'[w].kill = {}
    BY <2>4
  <2>5. CASE ex'[w].kill = ex[w].kill /\ ex[w].pc # "finish"
    BY <2>5 DEF Kills
  <2> QED
    BY <1>4, <2>1, <2>2, <2>3, <2>4, <2>5 DEF ExecMove, Goes, Register, HaltCheck, PauseCheck, SuspendCheck, AfterBody,
         PauseTerminal, Decide, ClosingCheck, submitCompletion, WriteStepCancelled, RequeuePausedStep, RetryStep,
         SuspendStep, recordFinalFailure, completeDirect, BodyReturns
<1>5. CASE Bystander(w) /\ ~Restart
  BY <1>0, <1>2, <1>5, BystanderFields
<1> QED
  BY <1>1, <1>4, <1>5, SlotFrame

\* An end of w's context ends its run's work, or marks its step as paused.
LEMMA EndedContext ==
    ASSUME TypeOK, Custody, Contexts, [Next]_vars, ~Restart, NEW w \in Slots, NEW s \in Steps, Ends(w, s)
    PROVE  ex[w].step = s /\ ex[w].pc \notin {"idle", "claimed"} /\ (s \in pauseSteps' \/ Over(RunOf[s])')
<1>1. ex[w].step = s /\ ex[w].pc \notin {"idle", "claimed"} /\ RunOf[s] \in Runs
  BY DEF Ends, Contexts, CancelFuncs
<1>2. ASSUME NEW c \in calls, interruptLocal(c), s \in c.steps PROVE Over(RunOf[s])
  BY <1>2 DEF interruptLocal, Contexts, CancelCalls, StepsOf, Over, Live
<1>3. ASSUME NEW c \in calls, PauseMark(c), s \in c.steps PROVE s \in pauseSteps'
  BY <1>3 DEF PauseMark
<1>4. ASSUME NEW v \in Slots, FinishRun(v), s \in ex[v].kill PROVE Over(RunOf[s])
  BY <1>4 DEF Contexts, Kills
<1>5. Over(RunOf[s]) => Over(RunOf[s])'
  BY <1>1, OverStays
<1> QED
  BY <1>1, <1>2, <1>3, <1>4, <1>5 DEF Ends

LEMMA DoneContextsStep ==
    ASSUME TypeOK, Custody, Contexts, [Next]_vars
    PROVE  DoneContexts'
<1> SUFFICES ASSUME NEW w \in Slots
             PROVE  LET r == RunOf[ex'[w].step]
                        over == runStatus'[r] \notin Live \cup {"NEW"}
                    IN  /\ ex'[w].pc = "claimed" => ~ex'[w].cancelled
                        /\ ex'[w].pc \in {"halted", "pauseCheck", "body", "afterBody"} /\ ex'[w].cancelled
                             => ex'[w].step \in pauseSteps' \/ over
                        /\ ex'[w].pc = "afterBody" /\ ex'[w].res = "canceled" => ex'[w].cancelled \/ mode' # "up"
                        /\ ex'[w].pc \in {"decide", "closingCheck"} /\ ex'[w].res = "canceled" => over \/ mode' # "up"
                        /\ ex'[w].pc \in {"retry", "finalFail"} /\ ex'[w].res = "canceled" => over
  BY DEF DoneContexts, Over
<1>0. /\ ex[w] \in Executors /\ (ex[w].pc # "idle" => ex[w].step \in Steps) /\ Idle.pc = "idle"
      /\ StartedRuns /\ SingleExecution /\ DoneContexts
  BY DEF TypeOK, ExecTyped, Custody, Ownership, Contexts, Idle
<1>1. CASE Restart \/ ex'[w] = Idle
  <2>1. ex'[w] = Idle
    BY <1>1 DEF Restart
  <2> QED
    BY <1>0, <2>1
<1>2. CASE ~OwnStep(w) /\ ~Restart
  <2>1. ex'[w] = ex[w] \/ \E s \in Steps : Ends(w, s)
    BY <1>2, ContextEnds
  <2>2. /\ ex'[w].pc = ex[w].pc /\ ex'[w].step = ex[w].step /\ ex'[w].res = ex[w].res
        /\ ex[w].cancelled => ex'[w].cancelled
    <3>1. Bystander(w)
      BY <1>2, SlotFrame
    <3>2. ex'[w].pc = ex[w].pc /\ ex'[w].step = ex[w].step /\ ex'[w].res = ex[w].res
      BY <1>0, <3>1, BystanderFields
    <3>3. [ex[w] EXCEPT !.cancelled = TRUE].cancelled = TRUE
      BY <1>0 DEF Executors
    <3> QED
      BY <3>1, <3>2, <3>3 DEF Bystander
  <2>3. mode # "up" => mode' # "up"
    BY <1>2, ModeMoves DEF ModeMove
  <2>4. ASSUME ex[w].pc # "idle", Over(RunOf[ex[w].step]) PROVE runStatus'[RunOf[ex[w].step]] \notin Live \cup {"NEW"}
    <3>1. PICK r \in Runs : r = RunOf[ex[w].step]
      BY <1>0, <2>4
    <3>2. Over(r)'
      BY <1>2, <2>4, <3>1, OverStays
    <3> QED
      BY <3>1, <3>2 DEF Over
  <2>5. ASSUME NEW s \in Steps, Ends(w, s)
        PROVE  /\ ex[w].step = s /\ ex[w].pc \notin {"idle", "claimed"}
               /\ s \in pauseSteps' \/ runStatus'[RunOf[s]] \notin Live \cup {"NEW"}
    BY <1>2, <2>5, EndedContext DEF Over
  <2>6. ASSUME ex[w].pc \in {"halted", "pauseCheck", "body", "afterBody"}, ex[w].step \in pauseSteps
        PROVE  ex[w].step \in pauseSteps'
    <3>1. ASSUME NEW v \in Slots, PauseCheck(v) \/ AfterBody(v), ex[v].step = ex[w].step PROVE FALSE
      <4>1. v = w
        BY <1>0, <2>6, <3>1 DEF SingleExecution, Holding, PauseCheck, AfterBody
      <4> QED
        BY <1>2, <3>1, <4>1 DEF OwnStep, ExecutorStep
    <3> QED
      BY <1>2, <2>6, <3>1, PauseMarksStay
  <2>7. ex[w].pc = "claimed" => ~ex'[w].cancelled
    BY <1>0, <2>1, <2>5 DEF DoneContexts
  <2>8. ex[w].pc \in {"halted", "pauseCheck", "body", "afterBody"} /\ ex'[w].cancelled
          => ex[w].step \in pauseSteps' \/ runStatus'[RunOf[ex[w].step]] \notin Live \cup {"NEW"}
    BY <1>0, <2>1, <2>4, <2>5, <2>6 DEF DoneContexts
  <2> QED
    BY <1>0, <2>2, <2>3, <2>4, <2>7, <2>8 DEF DoneContexts
<1>3. CASE OwnStep(w) /\ ~Restart /\ ex'[w] # Idle
  <2>1. ExecMove(w)
    BY <1>3, ExecMoves
  <2>2. CASE \E s \in Steps : ex'[w] = [Idle EXCEPT !.pc = "claimed", !.step = s, !.att = attempts'[s]]
    <3>1. ex'[w].pc = "claimed" /\ ex'[w].cancelled = FALSE
      BY <2>2 DEF Idle
    <3> QED
      BY <3>1
  <2>3. CASE ex'[w].pc \notin {"claimed", "halted", "pauseCheck", "body", "afterBody", "decide", "closingCheck", "retry", "finalFail"}
    BY <2>3
  <2>4. CASE Register(w) /\ ex'[w].cancelled = ex[w].cancelled /\ ex'[w].pc \in {"halted", "pauseCheck"}
    BY <1>0, <2>4 DEF Register, DoneContexts
  <2> DEFINE over == runStatus[RunOf[ex[w].step]] \notin Live \cup {"NEW"}
             Kept == ex'[w].step = ex[w].step /\ ex'[w].cancelled = ex[w].cancelled /\ ex'[w].res = ex[w].res
  <2>5. ASSUME HaltCheck(w) \/ PauseCheck(w) \/ AfterBody(w) \/ PauseTerminal(w) \/ Decide(w) \/ ClosingCheck(w)
        PROVE  runStatus' = runStatus /\ mode' = mode /\ runStatus[RunOf[ex[w].step]] # "NEW"
    <3>1. runStatus' = runStatus /\ mode' = mode /\ ex[w].pc # "idle"
      BY <2>5 DEF HaltCheck, PauseCheck, AfterBody, consumePause, PauseTerminal, Decide, ClosingCheck, database
    <3> QED
      BY <1>0, <3>1 DEF StartedRuns
  <2>6. runTerminal(RunOf[ex[w].step]) => over
    BY DEF runTerminal, Terminal, Live
  <2>7. CASE HaltCheck(w) /\ Kept /\ ex'[w].pc = "pauseCheck"
    <3>1. pauseSteps' = pauseSteps /\ ex[w].pc = "halted"
      BY <2>7 DEF HaltCheck, memory
    <3> QED
      BY <1>0, <2>5, <2>7, <3>1 DEF DoneContexts, Over
  <2>8. CASE PauseCheck(w) /\ Kept /\ ex'[w].pc = "body" /\ ex[w].step \notin pauseSteps
    <3>1. ex[w].pc = "pauseCheck"
      BY <2>8 DEF PauseCheck
    <3> QED
      BY <1>0, <2>5, <2>8, <3>1 DEF DoneContexts, Over
  <2>9. CASE AfterBody(w) /\ Kept /\ ex'[w].pc = "decide" /\ ~(ex[w].step \in pauseSteps /\ ex[w].res = "canceled")
    <3>1. ex[w].pc = "afterBody"
      BY <2>9 DEF AfterBody
    <3> QED
      BY <1>0, <2>5, <2>9, <3>1 DEF DoneContexts, Over
  <2>10. CASE PauseTerminal(w) /\ Kept /\ ex'[w].pc = "decide" /\ runTerminal(RunOf[ex[w].step])
    BY <2>5, <2>6, <2>10
  <2>11. CASE Decide(w) /\ Kept /\ (ex'[w].pc = "finalFail" => ex[w].res = "veto") /\ ex'[w].pc \in {"finalFail", "closingCheck"}
    <3>1. ex[w].pc = "decide"
      BY <2>11 DEF Decide
    <3> QED
      BY <1>0, <2>5, <2>11, <3>1 DEF DoneContexts, Over
  <2>12. CASE ClosingCheck(w) /\ Kept /\ ex'[w].pc \in {"retry", "finalFail"} /\ mode = "up"
    <3>1. ex[w].pc = "closingCheck"
      BY <2>12 DEF ClosingCheck
    <3> QED
      BY <1>0, <2>5, <2>12, <3>1 DEF DoneContexts, Over
  <2>13. ASSUME NEW res, BodyReturns(w, res), ex'[w].pc = "afterBody", ex'[w].res = res, ex'[w].step = ex[w].step,
                ex'[w].cancelled = ex[w].cancelled
         PROVE  /\ ex[w].cancelled => ex[w].step \in pauseSteps' \/ runStatus'[RunOf[ex[w].step]] \notin Live \cup {"NEW"}
                /\ res = "canceled" => ex[w].cancelled \/ mode' # "up"
    <3>1. /\ ex[w].pc = "body" /\ pauseSteps' = pauseSteps /\ runStatus' = runStatus /\ mode' = mode
          /\ res = "canceled" => CtxDone(w)
      BY <2>13 DEF BodyReturns, memory, database
    <3> QED
      BY <1>0, <3>1 DEF DoneContexts, CtxDone, Over
  <2> QED
    BY <1>3, <2>1, <2>2, <2>3, <2>4, <2>7, <2>8, <2>9, <2>10, <2>11, <2>12, <2>13 DEF ExecMove, Goes, Decision
<1> QED
  BY <1>1, <1>2, <1>3

\* A task that merely honours its cancelled context is never retried or failed for
\* it while its run is live, in any interleaving of pauses, cancels, sibling
\* failures and Close: as long as no dead-lettered run is revived.
THEOREM PauseIsNoAttempt ==
    ASSUME Budget["retryDead"] = 0 \/ DeadLetter = {}
    PROVE  Spec => []CancellationNotCharged
<1>1. Init => Contexts
  <2> SUFFICES ASSUME Init PROVE Contexts
    OBVIOUS
  <2>1. (\A w \in Slots : ex[w] = Idle) /\ calls = {} /\ \A s \in Steps : cancels[s] \notin Slots
    BY DEF Init
  <2>2. Idle.pc = "idle" /\ Idle.kill = {}
    BY DEF Idle
  <2>3. CancelFuncs /\ CancelCalls
    BY <2>1 DEF CancelFuncs, CancelCalls
  <2>4. Kills
    BY <2>1, <2>2 DEF Kills
  <2>5. DoneContexts
    BY <2>1, <2>2 DEF DoneContexts
  <2> QED
    BY <2>3, <2>4, <2>5 DEF Contexts
<1>2. Init => Custody
  BY CustodyInit
<1>3. TypeOK /\ Custody /\ Contexts /\ [Next]_vars => Contexts'
  BY CancelFuncsStep, CancelCallsStep, KillsStep, DoneContextsStep DEF Contexts
<1>4. Contexts => CancellationNotCharged
  BY DEF Contexts, DoneContexts, CancellationNotCharged, Over, Live
<1> QED
  BY <1>1, <1>2, <1>3, <1>4, CustodyStep, TypeCorrect, PTL DEF Spec

=============================================================================
