--------------------------- MODULE DispatchProofs ---------------------------
(***************************************************************************)
(* Proofs about the scheduler loop, for every set of runs and steps, all   *)
(* delays, poll intervals and idle caps, every concurrency and however the *)
(* calls, the wakers and the loop interleave: no wake-up is lost, and a    *)
(* claim never starts more steps than the queue has slots.                 *)
(***************************************************************************)
EXTENDS Dispatch, FiniteSetTheorems, WellFoundedInduction, TLAPS

Waiting == {"QUEUED", "SUSPENDED"}

Typed == /\ due \in [Steps -> Nat] /\ DOMAIN st = Steps
         /\ timer \in Nat /\ storing \in Nat /\ sending \in Nat

\* After a tick that claimed or found the queue full the loop sleeps for the poll
\* interval: such a sleep may swallow a wake that is not urgent.
BusyIsBrief == pc = "sleep" /\ busy => timer <= Poll

Awake == Typed /\ BusyIsBrief /\ NoOversleep

-----------------------------------------------------------------------------
\* The larger of two numbers.
LEMMA MaxOfTwo ==
    ASSUME NEW a \in Nat, NEW b \in Nat
    PROVE  Max({a, b}) = IF a >= b THEN a ELSE b
<1>1. ASSUME NEW x \in {a, b}, \A y \in {a, b} : x >= y
      PROVE  x = IF a >= b THEN a ELSE b
  BY <1>1
<1>2. \E x \in {a, b} : \A y \in {a, b} : x >= y
  <2>1. CASE a >= b
    <3>1. \A y \in {a, b} : a >= y  BY <2>1
    <3> QED  BY <3>1
  <2>2. CASE b >= a
    <3>1. \A y \in {a, b} : b >= y  BY <2>2
    <3> QED  BY <3>1
  <2> QED  BY <2>1, <2>2
<1>3. Max({a, b}) \in {a, b} /\ \A y \in {a, b} : Max({a, b}) >= y
  BY <1>2 DEF Max
<1> QED  BY <1>1, <1>3

\* A set of times has an earliest one.
LEMMA Earliest ==
    ASSUME NEW T \in SUBSET Nat, T # {}
    PROVE  Min(T) \in T /\ \A y \in T : Min(T) <= y
<1> DEFINE R == OpToRel(<, Nat)
<1>1. PICK x \in T : \A y \in T : ~(<<y, x>> \in R)
  <2>1. IsWellFoundedOn(R, Nat)  BY NatLessThanWellFounded
  <2> HIDE DEF R
  <2> QED  BY <2>1, WFMin
<1>2. \A y \in T : x <= y
  <2> SUFFICES ASSUME NEW y \in T PROVE x <= y  OBVIOUS
  <2>1. ~(y < x)  BY <1>1 DEF OpToRel
  <2> QED  BY <2>1
<1>3. \E z \in T : \A y \in T : z =< y  BY <1>2
<1> QED  BY <1>3 DEF Min

\* The sleep after an empty claim ends no later than a poll interval after the
\* next step becomes due.
LEMMA IdleWaitIsShort ==
    ASSUME Typed
    PROVE  /\ IdleWait \in Nat
           /\ \A s \in Steps : st[s] \in Waiting => IdleWait <= Max({due[s], Poll})
<1> DEFINE times == {due[s] : s \in {t \in Steps : st[t] \in {"QUEUED", "SUSPENDED"}}}
<1>1. times \in SUBSET Nat  BY DEF Typed
<1>2. \A s \in Steps : st[s] \in Waiting => due[s] \in times  BY DEF Waiting
<1>3. IdleWait = IF times = {} THEN IdleCap ELSE IF Min(times) = 0 THEN Poll ELSE Min({Min(times), IdleCap})
  BY DEF IdleWait
<1> HIDE DEF times
<1>4. Poll \in Nat /\ IdleCap \in Nat  BY DispatchAssumption
<1>5. CASE times = {}
  BY <1>2, <1>3, <1>4, <1>5
<1>6. CASE times # {}
  <2>1. Min(times) \in Nat /\ \A y \in times : Min(times) <= y  BY <1>1, <1>6, Earliest
  <2>2. Min({Min(times), IdleCap}) \in Nat /\ Min({Min(times), IdleCap}) <= Min(times)
    <3>1. {Min(times), IdleCap} \in SUBSET Nat /\ {Min(times), IdleCap} # {}  BY <2>1, <1>4
    <3> QED  BY <3>1, <1>4, <2>1, Earliest
  <2>3. IdleWait \in Nat /\ (IdleWait = Poll \/ IdleWait <= Min(times))
    BY <1>3, <1>4, <1>6, <2>1, <2>2
  <2>4. ASSUME NEW s \in Steps, st[s] \in Waiting
        PROVE  IdleWait <= Max({due[s], Poll})
    <3>1. due[s] \in times /\ due[s] \in Nat /\ Min(times) <= due[s]  BY <1>1, <1>2, <2>1, <2>4
    <3>2. Max({due[s], Poll}) = IF due[s] >= Poll THEN due[s] ELSE Poll  BY <3>1, <1>4, MaxOfTwo
    <3> QED  BY <1>4, <2>1, <2>3, <3>1, <3>2
  <2> QED  BY <2>3, <2>4
<1> QED  BY <1>5, <1>6

-----------------------------------------------------------------------------
\* A wake is on its way: nothing is asked of the sleep.
LEMMA Announced ==
    ASSUME Awake, Typed', UNCHANGED <<pc, busy, timer>>,
           token' \/ storing' # 0 \/ sending' # 0
    PROVE  Awake'
BY DEF Awake, BusyIsBrief, NoOversleep

\* No wake is consumed and the steps that were announced are as they were.
LEMMA Undisturbed ==
    ASSUME Awake, UNCHANGED <<pc, busy, timer, token, storing, sending>>,
           Typed', \A s \in Steps : s \in hidden' \/ (s \notin hidden /\ st'[s] = st[s] /\ due'[s] = due[s])
    PROVE  Awake'
<1>1. BusyIsBrief'  BY DEF Awake, BusyIsBrief
<1>2. NoOversleep'
  <2> SUFFICES ASSUME pc' = "sleep", ~token', storing' = 0, sending' = 0,
                      NEW s \in Steps \ hidden', st'[s] \in {"QUEUED", "SUSPENDED"}
               PROVE  timer' <= Max({due'[s], Poll})
    BY DEF NoOversleep
  <2>1. s \in Steps \ hidden /\ st[s] \in {"QUEUED", "SUSPENDED"} /\ due'[s] = due[s]  OBVIOUS
  <2> QED  BY <2>1 DEF Awake, NoOversleep
<1> QED  BY <1>1, <1>2 DEF Awake

\* The loop goes to sleep for the poll interval.
LEMMA ShortSleep ==
    ASSUME Awake, NEW b, Sleep(b, Poll), Typed'
    PROVE  Awake'
<1>1. Poll \in Nat  BY DispatchAssumption
<1>2. timer' = Poll  BY DEF Sleep
<1>3. BusyIsBrief'  BY <1>1, <1>2 DEF BusyIsBrief
<1>4. ASSUME NEW s \in Steps PROVE Poll <= Max({due'[s], Poll})
  <2>1. due'[s] \in Nat  BY DEF Typed
  <2>2. Max({due'[s], Poll}) = IF due'[s] >= Poll THEN due'[s] ELSE Poll  BY <1>1, <2>1, MaxOfTwo
  <2> QED  BY <1>1, <2>1, <2>2
<1>5. NoOversleep'  BY <1>2, <1>4 DEF NoOversleep
<1> QED  BY <1>3, <1>5 DEF Awake

\* The loop is awake.
LEMMA AwakeLoop ==
    ASSUME Typed', pc' # "sleep"
    PROVE  Awake'
BY DEF Awake, BusyIsBrief, NoOversleep

-----------------------------------------------------------------------------
\* The loop's own steps.
LEMMA LoopStep ==
    ASSUME Awake, Scheduler \/ StoreError
    PROVE  Awake'
<1> USE DispatchAssumption
<1>1. CASE TimerFires \/ WakeIdle \/ ClearUrgent
  <2>1. pc' # "sleep"  BY <1>1 DEF TimerFires, WakeIdle, ClearUrgent
  <2>2. Typed'  BY <1>1 DEF TimerFires, WakeIdle, ClearUrgent, rows, wakes, Typed, Awake
  <2> QED  BY <2>1, <2>2, AwakeLoop
<1>2. CASE WakeBusy
  <2>1. Typed' /\ timer' = timer /\ busy' = busy /\ busy /\ timer <= Poll /\ due' = due
    BY <1>2 DEF WakeBusy, rows, Typed, Awake, BusyIsBrief
  <2>2. BusyIsBrief'  BY <2>1 DEF BusyIsBrief
  <2>3. NoOversleep'
    <3>1. ASSUME NEW s \in Steps PROVE timer <= Max({due[s], Poll})
      <4>1. due[s] \in Nat /\ Poll \in Nat /\ timer \in Nat  BY DEF Typed, Awake
      <4>2. Max({due[s], Poll}) = IF due[s] >= Poll THEN due[s] ELSE Poll  BY <4>1, MaxOfTwo
      <4> QED  BY <4>1, <4>2, <2>1
    <3> QED  BY <2>1, <3>1 DEF NoOversleep
  <2> QED  BY <2>1, <2>2, <2>3 DEF Awake
<1>3. CASE Snapshot
  <2>1. Typed'  BY <1>3 DEF Snapshot, Sleep, rows, wakes, Typed, Awake
  <2>2. CASE Sleep(TRUE, Poll)  BY <2>1, <2>2, ShortSleep
  <2>3. CASE pc' \in {"nextDue", "claim"}  BY <2>1, <2>3, AwakeLoop
  <2> QED  BY <1>3, <2>2, <2>3 DEF Snapshot
<1>4. CASE Claim
  <2>1. Typed'  BY <1>4 DEF Claim, Sleep, wakes, Typed, Awake
  <2>2. CASE Sleep(TRUE, Poll)  BY <2>1, <2>2, ShortSleep
  <2>3. CASE pc' = "nextDue"  BY <2>1, <2>3, AwakeLoop
  <2> QED  BY <1>4, <2>2, <2>3 DEF Claim
<1>5. CASE NextDue
  <2>1. /\ Sleep(FALSE, IdleWait)
        /\ UNCHANGED <<st, due, hidden, storing, sending>>
    BY <1>5 DEF NextDue, rows, wakes
  <2>2. /\ IdleWait \in Nat
        /\ \A s \in Steps : st[s] \in Waiting => IdleWait <= Max({due[s], Poll})
    BY IdleWaitIsShort DEF Awake
  <2>3. Typed' /\ BusyIsBrief'  BY <2>1, <2>2 DEF Sleep, Typed, Awake, BusyIsBrief
  <2>4. NoOversleep'  BY <2>1, <2>2 DEF Sleep, NoOversleep, Waiting
  <2> QED  BY <2>3, <2>4 DEF Awake
<1>6. CASE StoreError
  <2>1. Typed'  BY <1>6 DEF StoreError, Sleep, rows, wakes, Typed, Awake
  <2>2. Sleep(pc = "claim", Poll)  BY <1>6 DEF StoreError
  <2> QED  BY <2>1, <2>2, ShortSleep
<1> QED  BY <1>1, <1>2, <1>3, <1>4, <1>5, <1>6 DEF Scheduler

\* Wakers hand on what they carry; the operator changes what may be claimed, not
\* what is due.
LEMMA WakerStep ==
    ASSUME Awake, Wakers \/ Operator
    PROVE  Awake'
<1>1. CASE StoreUrgent
  <2>1. Typed' /\ sending' # 0 /\ UNCHANGED <<pc, busy, timer>>
    BY <1>1 DEF StoreUrgent, rows, loop, Typed, Awake
  <2> QED  BY <2>1, Announced
<1>2. CASE SendWake
  <2>1. Typed' /\ token' /\ UNCHANGED <<pc, busy, timer>>
    BY <1>2 DEF SendWake, rows, loop, Typed, Awake
  <2> QED  BY <2>1, Announced
<1>3. CASE PauseQueue \/ PauseMem \/ ResumeQueue \/ PeerPause \/ PeerResume
  <2>1. Typed' /\ UNCHANGED <<pc, busy, timer, token, storing, sending, st, due, hidden>>
    BY <1>3 DEF PauseQueue, PauseMem, ResumeQueue, PeerPause, PeerResume, rows, loop, wakes, Typed, Awake
  <2>2. Awake'
    BY <2>1 DEF Awake, BusyIsBrief, NoOversleep
  <2> QED  BY <2>2
<1>4. CASE ResumeMem
  <2>1. Typed' /\ storing' # 0 /\ UNCHANGED <<pc, busy, timer>>
    BY <1>4 DEF ResumeMem, WakeScheduler, rows, loop, Typed, Awake
  <2> QED  BY <2>1, Announced
<1> QED  BY <1>1, <1>2, <1>3, <1>4 DEF Wakers, Operator

\* Time passes for the timer as for the steps.
LEMMA TickStep ==
    ASSUME Awake, Tick
    PROVE  Awake'
<1>1. /\ UNCHANGED <<st, pc, busy, hidden, token, storing, sending>>
      /\ timer > 0 /\ timer' = timer - 1 /\ pc = "sleep"
  BY DEF Tick, wakes
<1>2. \A s \in Steps : due'[s] = IF due[s] > 0 /\ st[s] \in {"QUEUED", "SUSPENDED"} THEN due[s] - 1 ELSE due[s]
  BY DEF Tick
<1>3. Poll \in Nat /\ timer \in Nat  BY DispatchAssumption DEF Awake, Typed
<1>4. Typed'
  <2>1. due' \in [Steps -> Nat]
    BY DEF Tick, Typed, Awake
  <2> QED  BY <1>1, <1>3, <2>1 DEF Typed, Awake
<1>5. BusyIsBrief'  BY <1>1, <1>3 DEF Awake, BusyIsBrief
<1>6. NoOversleep'
  <2> SUFFICES ASSUME ~token, storing = 0, sending = 0,
                      NEW s \in Steps \ hidden, st[s] \in {"QUEUED", "SUSPENDED"}
               PROVE  timer' <= Max({due'[s], Poll})
    BY <1>1 DEF NoOversleep
  <2>1. timer <= Max({due[s], Poll})  BY <1>1 DEF Awake, NoOversleep
  <2>2. due[s] \in Nat /\ due'[s] \in Nat  BY <1>4 DEF Awake, Typed
  <2>3. /\ Max({due[s], Poll}) = (IF due[s] >= Poll THEN due[s] ELSE Poll)
        /\ Max({due'[s], Poll}) = (IF due'[s] >= Poll THEN due'[s] ELSE Poll)
    BY <1>3, <2>2, MaxOfTwo
  <2>4. due'[s] = IF due[s] > 0 THEN due[s] - 1 ELSE due[s]  BY <1>2
  <2> QED  BY <1>1, <1>3, <2>1, <2>2, <2>3, <2>4
<1> QED  BY <1>4, <1>5, <1>6 DEF Awake

\* Whoever makes a step due announces it, or hides it.
LEMMA WorkStep ==
    ASSUME Awake, NEW s \in Steps,
           \/ BodyOk(s) \/ Record(s)
           \/ \E d \in Delays : Snooze(s, d) \/ BodyErr(s, d) \/ Suspend(s, d)
    PROVE  Awake'
<1> USE DEF WakeScheduler, WakeSlot, Typed, Awake
<1>1. CASE BodyOk(s) \/ Record(s)
  <2>1. UNCHANGED <<pc, busy, timer>>  BY <1>1 DEF BodyOk, Record, loop
  <2>2. Typed'  BY <1>1, <2>1 DEF BodyOk, Record, rows
  <2>3. storing' # 0 \/ sending' # 0  BY <1>1 DEF BodyOk, Record
  <2> QED  BY <2>1, <2>2, <2>3, Announced
<1>2. ASSUME NEW d \in Delays, Snooze(s, d) \/ BodyErr(s, d) \/ Suspend(s, d)
      PROVE  Awake'
  <2>1. UNCHANGED <<pc, busy, timer>>  BY <1>2 DEF Snooze, BodyErr, Suspend, loop
  <2>2. d \in Nat  BY DispatchAssumption
  <2>3. Typed'  BY <1>2, <2>1, <2>2 DEF Snooze, BodyErr, Suspend
  <2>4. storing' # 0 \/ sending' # 0  BY <1>2 DEF Snooze, BodyErr, Suspend
  <2> QED  BY <2>1, <2>3, <2>4, Announced
<1> QED  BY <1>1, <1>2

LEMMA EnqueueStep ==
    ASSUME Awake, NEW r \in Runs, NEW d \in Delays, Enqueue(r, d) \/ EnqueueOnTx(r, d)
    PROVE  Awake'
<1>1. d \in Nat  BY DispatchAssumption
<1>2. UNCHANGED <<pc, busy, timer>>  BY DEF Enqueue, EnqueueOnTx, Insert, loop
<1>3. Typed'
  BY <1>1, <1>2 DEF Enqueue, EnqueueOnTx, Insert, WakeScheduler, wakes, Typed, Awake
<1>4. CASE Enqueue(r, d)
  <2>1. storing' # 0  BY <1>4 DEF Enqueue, WakeScheduler, Typed, Awake
  <2> QED  BY <1>2, <1>3, <2>1, Announced
<1>5. CASE EnqueueOnTx(r, d)
  <2>1. UNCHANGED <<token, storing, sending>>  BY <1>5 DEF EnqueueOnTx, wakes
  <2>2. ASSUME NEW s \in Steps
        PROVE  s \in hidden' \/ (s \notin hidden /\ st'[s] = st[s] /\ due'[s] = due[s])
    BY <1>5 DEF EnqueueOnTx, Insert
  <2> QED  BY <1>2, <1>3, <2>1, <2>2, Undisturbed
<1> QED  BY <1>4, <1>5

LEMMA AwakeStep ==
    ASSUME Awake, [Next]_vars
    PROVE  Awake'
<1>1. CASE UNCHANGED vars
  BY <1>1 DEF vars, rows, loop, wakes, Awake, Typed, BusyIsBrief, NoOversleep
<1>2. CASE Next
  BY <1>2, LoopStep, WakerStep, TickStep, WorkStep, EnqueueStep DEF Next
<1> QED  BY <1>1, <1>2

LEMMA AwakeInit == Init => Awake
<1> SUFFICES ASSUME Init PROVE Awake  OBVIOUS
<1>1. Typed /\ BusyIsBrief  BY DispatchAssumption DEF Init, Typed, BusyIsBrief
<1>2. NoOversleep  BY DEF Init, NoOversleep
<1> QED  BY <1>1, <1>2 DEF Awake

\* schedulerLoop, idleWait, wakeScheduler, wakeSlot: whatever the calls, the
\* wakers and the loop do between each other's steps, a loop that sleeps with no
\* wake under way wakes up within a poll interval of the next announced step's
\* due time.
THEOREM NoWakeUpLost == Spec => []NoOversleep
<1>1. Awake /\ [Next]_vars => Awake'  BY AwakeStep
<1>2. Awake => NoOversleep  BY DEF Awake
<1> QED  BY AwakeInit, <1>1, <1>2, PTL DEF Spec

-----------------------------------------------------------------------------
\* The executor goroutines of the queue never exceed its concurrency, although
\* the free slots are counted in one critical section and the claim is sized by
\* that count in a later transaction.
ConcurrencyKept == Cardinality(running) <= Conc

\* What the loop has counted as free is still free when it claims: in between,
\* executors only return.
Slots == /\ running \subseteq Steps
         /\ ConcurrencyKept
         /\ pc = "claim" => slots \in Nat /\ Cardinality(running) + slots <= Conc

LEMMA SlotsStep ==
    ASSUME Slots, IsFiniteSet(Steps), [Next]_vars
    PROVE  Slots'
<1> USE DispatchAssumption
<1>1. IsFiniteSet(running) /\ Cardinality(running) \in Nat
  BY FS_Subset, FS_CardinalityType DEF Slots
<1>2. CASE running' = running /\ (pc' = "claim" => pc = "claim" /\ slots' = slots)
  BY <1>2 DEF Slots, ConcurrencyKept
<1>3. ASSUME NEW s \in Steps, running' = running \ {s}, UNCHANGED <<pc, slots>>
      PROVE  Slots'
  <2>1. Cardinality(running') \in Nat /\ Cardinality(running') <= Cardinality(running)
    BY <1>1, <1>3, FS_Subset, FS_CardinalityType
  <2>2. Conc \in Nat  OBVIOUS
  <2>3. ConcurrencyKept'  BY <1>1, <2>1, <2>2 DEF Slots, ConcurrencyKept
  <2>4. pc' = "claim" => slots' \in Nat /\ Cardinality(running') + slots' <= Conc
    BY <1>1, <1>3, <2>1, <2>2 DEF Slots
  <2>5. running' \subseteq Steps  BY <1>3 DEF Slots
  <2> QED  BY <2>3, <2>4, <2>5 DEF Slots
<1>4. CASE Snapshot
  <2>1. running' = running  BY <1>4 DEF Snapshot
  <2>2. pc' = "claim" => slots' = Conc - Cardinality(running) /\ slots' > 0
    BY <1>4 DEF Snapshot, Sleep
  <2> QED  BY <1>1, <2>1, <2>2 DEF Slots, ConcurrencyKept
<1>5. CASE Claim
  <2>1. CASE running' = running /\ pc' = "nextDue"  BY <2>1 DEF Slots, ConcurrencyKept
  <2>2. ASSUME NEW S \in ClaimSets, running' = running \cup S, pc' = "sleep"
        PROVE  Slots'
    <3> DEFINE due0 == {s \in Steps : Claimable(s)}
    <3>1. slots \in Nat /\ Cardinality(running) + slots <= Conc  BY <1>5 DEF Claim, Slots
    <3>2. IsFiniteSet(due0) /\ Cardinality(due0) \in Nat  BY FS_Subset, FS_CardinalityType
    <3>3. S \subseteq due0 /\ Cardinality(S) = Min({slots, Cardinality(due0)})
      BY <2>2 DEF ClaimSets, kSubset
    <3> HIDE DEF due0
    <3>4. Min({slots, Cardinality(due0)}) <= slots  BY <3>1, <3>2, Earliest
    <3>5. IsFiniteSet(S) /\ Cardinality(S) \in Nat  BY <3>2, <3>3, FS_Subset, FS_CardinalityType
    <3>6. /\ IsFiniteSet(running \cup S) /\ Cardinality(running \cup S) \in Nat
          /\ Cardinality(running \cup S) <= Cardinality(running) + Cardinality(S)
      <4>1. IsFiniteSet(running \cap S) /\ Cardinality(running \cap S) \in Nat
        BY <1>1, FS_Subset, FS_CardinalityType
      <4>2. IsFiniteSet(running \cup S) /\ Cardinality(running \cup S)
              = Cardinality(running) + Cardinality(S) - Cardinality(running \cap S)
        BY <1>1, <3>5, FS_Union
      <4> QED  BY <1>1, <3>5, <4>1, <4>2, FS_CardinalityType
    <3>7. Cardinality(running') <= Conc
      BY <1>1, <2>2, <3>1, <3>3, <3>4, <3>5, <3>6
    <3>8. running' \subseteq Steps  BY <2>2, <3>3 DEF Slots, due0
    <3> QED  BY <2>2, <3>7, <3>8 DEF Slots, ConcurrencyKept
  <2> QED  BY <1>5, <2>1, <2>2 DEF Claim, Sleep
<1>6. CASE TimerFires \/ WakeBusy \/ WakeIdle \/ ClearUrgent \/ NextDue \/ StoreError \/ Wakers
  BY <1>2, <1>6 DEF TimerFires, WakeBusy, WakeIdle, ClearUrgent, NextDue, StoreError, Wakers,
                    StoreUrgent, SendWake, Sleep, loop
<1>7. CASE Operator \/ Tick
  BY <1>2, <1>7 DEF Operator, PauseQueue, PauseMem, ResumeQueue, ResumeMem, PeerPause, PeerResume,
                    Tick, loop
<1>8. ASSUME NEW r \in Runs, NEW d \in Delays, Enqueue(r, d) \/ EnqueueOnTx(r, d)
      PROVE  Slots'
  BY <1>2, <1>8 DEF Enqueue, EnqueueOnTx, Insert, loop
<1>9. ASSUME NEW s \in Steps, BodyOk(s)  PROVE  Slots'
  BY <1>3, <1>9 DEF BodyOk, Return, loop
<1>10. ASSUME NEW s \in Steps, NEW d \in Delays, BodyErr(s, d) \/ Suspend(s, d)  PROVE  Slots'
  BY <1>3, <1>10 DEF BodyErr, Suspend, Return, loop
<1>11. ASSUME NEW s \in Steps, Record(s) \/ \E d \in Delays : Snooze(s, d)  PROVE  Slots'
  BY <1>2, <1>11 DEF Record, Snooze, loop
<1>12. CASE UNCHANGED vars  BY <1>2, <1>12 DEF vars, loop
<1> QED
  BY <1>4, <1>5, <1>6, <1>7, <1>8, <1>9, <1>10, <1>11, <1>12 DEF Next, Scheduler

\* tick counts a queue's free slots under e.mu and claims after it has let go:
\* the steps that execute never exceed the queue's concurrency.
THEOREM SlotsNeverExceeded == IsFiniteSet(Steps) => (Spec => []ConcurrencyKept)
<1> SUFFICES ASSUME IsFiniteSet(Steps) PROVE Spec => []ConcurrencyKept  OBVIOUS
<1>1. Init => Slots
  BY FS_EmptySet, DispatchAssumption DEF Init, Slots, ConcurrencyKept
<1>2. Slots /\ [Next]_vars => Slots'  BY SlotsStep
<1>3. Slots => ConcurrencyKept  BY DEF Slots
<1> QED  BY <1>1, <1>2, <1>3, PTL DEF Spec

=============================================================================
