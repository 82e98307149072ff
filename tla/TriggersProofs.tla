--------------------------- MODULE TriggersProofs ---------------------------
(***************************************************************************)
(* Proofs about persisted triggers, for every set of engines, every period *)
(* and both kinds of schedule, all budgets of calls, crashes, restarts and *)
(* failed writes: an Emit starts one run for the binding; and, where       *)
(* writes and passes of the loop keep up with the clock, an occurrence of  *)
(* the cron starts one run, and at most one more for each registration     *)
(* that overtakes a scan.                                                  *)
(***************************************************************************)
EXTENDS Triggers, FiniteSetTheorems, TLAPS

CallPcs == {"idle", "persist", "register", "cron", "upsertCron", "deleteCron", "on", "upsertSub", "deleteSub"}
CallRec == [pc : CallPcs, then : CallPcs, next : Nat]
LoopRec == [pc : {"wait", "due", "fire", "fired"}, at : Nat, expect : Nat, held : BOOLEAN]

Typed == /\ now \in Nat /\ every \in BOOLEAN /\ stored \in Nat \cup {NoRow}
         /\ up \in [Nodes -> BOOLEAN] /\ cron \in [Nodes -> {"none", "pending", "armed"}]
         /\ next \in [Nodes -> Nat]
         /\ subs \in [Nodes -> Nat] /\ pendingSubs \in [Nodes -> Nat] /\ owed \in [Nodes -> Nat]
         /\ loop \in [Nodes -> LoopRec] /\ call \in [Nodes -> CallRec]
         /\ fires \in [0 .. MaxTime + Period -> Nat]
         /\ overtaken \in Nat /\ emits \in Nat /\ runs \in Nat

-----------------------------------------------------------------------------
\* The next occurrence lies ahead.
LEMMA NextIsLater ==
    ASSUME NEW t \in Nat, every \in BOOLEAN
    PROVE  SchedNext(t) \in Nat /\ SchedNext(t) > t
<1>1. Period \in Nat /\ Period > 0  BY TriggersAssumption
<1>2. CASE every  BY <1>1, <1>2 DEF SchedNext
<1>3. CASE ~every
  <2>1. t < (t \div Period + 1) * Period  BY <1>1
  <2>2. t \div Period \in Nat  BY <1>1
  <2>3. (t \div Period + 1) * Period \in Nat  BY <1>1, <2>2
  <2> QED  BY <1>3, <2>1, <2>3 DEF SchedNext
<1> QED  BY <1>2, <1>3

-----------------------------------------------------------------------------
\* Types, action by action.
LEMMA TypedStep ==
    ASSUME Typed, [Next]_vars
    PROVE  Typed'
<1> USE DEF Typed
<1>1. Idle \in CallRec /\ Wait \in LoopRec  BY DEF Idle, Wait, CallRec, LoopRec, CallPcs
<1>2. \A t \in Nat : SchedNext(t) \in Nat  BY NextIsLater
<1>3. CASE UNCHANGED vars  BY <1>3 DEF vars, rows, engine, hist
<1>4. CASE Tick  BY <1>4 DEF Tick, rows, engine, hist
<1>5. ASSUME NEW n \in Nodes, PersistArmed(n) \/ UpsertCron(n) \/ DeleteCron(n) \/ UpsertEventSub(n) \/ DeleteEventSub(n)
      PROVE  Typed'
  <2>1. call[n] \in CallRec  OBVIOUS
  <2>2. call[n].next \in Nat /\ [call[n] EXCEPT !.pc = call[n].then] \in CallRec
    BY <2>1 DEF CallRec
  <2>3. call' \in [Nodes -> CallRec]
    <3>1. \E c \in CallRec : call' = [call EXCEPT ![n] = c]
      <4>1. CASE PersistArmed(n)  BY <1>1, <2>2, <4>1 DEF PersistArmed, Goto
      <4>2. CASE ~PersistArmed(n)
        BY <1>1, <1>5, <4>2 DEF UpsertCron, DeleteCron, UpsertEventSub, DeleteEventSub, Return
      <4> QED  BY <4>1, <4>2
    <3> QED  BY <3>1
  <2>4. stored' \in Nat \cup {NoRow}
    <3>1. CASE PersistArmed(n) \/ UpsertCron(n)  BY <2>2, <3>1 DEF PersistArmed, UpsertCron
    <3>2. CASE DeleteCron(n)  BY <3>2 DEF DeleteCron
    <3>3. CASE UpsertEventSub(n) \/ DeleteEventSub(n)  BY <3>3 DEF UpsertEventSub, DeleteEventSub
    <3> QED  BY <1>5, <3>1, <3>2, <3>3
  <2> QED
    BY <1>5, <2>3, <2>4 DEF PersistArmed, UpsertCron, DeleteCron, UpsertEventSub, DeleteEventSub, engine, hist
<1>6. ASSUME NEW n \in Nodes, RegisterCron(n)
      PROVE  Typed'
  <2>1. SchedNext(now) \in Nat  BY <1>2
  <2>2. [pc |-> "upsertCron", then |-> "idle", next |-> SchedNext(now)] \in CallRec
    BY <2>1 DEF CallRec, CallPcs
  <2>3. [loop[n] EXCEPT !.held = FALSE] \in LoopRec  BY DEF LoopRec
  <2>4. loop' \in [Nodes -> LoopRec]  BY <1>6, <2>3 DEF RegisterCron
  <2>5. next' \in [Nodes -> Nat] /\ cron' \in [Nodes -> {"none", "pending", "armed"}]
    BY <1>6, <2>1 DEF RegisterCron
  <2>6. call' \in [Nodes -> CallRec]  BY <1>6, <2>2 DEF RegisterCron, Goto
  <2>7. overtaken' \in Nat  BY <1>6 DEF RegisterCron
  <2> QED  BY <1>6, <2>4, <2>5, <2>6, <2>7 DEF RegisterCron, rows
<1>7. ASSUME NEW n \in Nodes, RegisterEvent(n) \/ RemoveEvent(n)
      PROVE  Typed'
  <2>1. [Idle EXCEPT !.pc = "upsertSub"] \in CallRec /\ [Idle EXCEPT !.pc = "deleteSub"] \in CallRec
    BY DEF Idle, CallRec, CallPcs
  <2>2. call' \in [Nodes -> CallRec]  BY <1>7, <2>1 DEF RegisterEvent, RemoveEvent, Goto
  <2>3. subs' \in [Nodes -> Nat]
    <3>1. \E v \in Nat : subs' = [subs EXCEPT ![n] = v]
      <4>1. subs[n] \in Nat  OBVIOUS
      <4>2. (IF subs[n] = 0 THEN 1 ELSE subs[n]) \in Nat /\ (IF subs[n] = 0 THEN 0 ELSE subs[n] - 1) \in Nat
        BY <4>1
      <4> QED  BY <1>7, <4>2 DEF RegisterEvent, RemoveEvent
    <3> QED  BY <3>1
  <2>4. pendingSubs' \in [Nodes -> Nat]
    <3>1. pendingSubs[n] \in Nat  OBVIOUS
    <3>2. (IF pendingSubs[n] = 0 THEN 0 ELSE pendingSubs[n] - 1) \in Nat  BY <3>1
    <3> QED  BY <1>7, <3>2 DEF RegisterEvent, RemoveEvent
  <2> QED  BY <1>7, <2>2, <2>3, <2>4 DEF RegisterEvent, RemoveEvent, rows, hist
<1>8. ASSUME NEW n \in Nodes, CronDue(n) \/ TakeEntry(n)
      PROVE  Typed'
  <2>1. [Wait EXCEPT !.pc = "due", !.at = now] \in LoopRec  BY DEF Wait, LoopRec
  <2>2. [loop[n] EXCEPT !.pc = "fire", !.expect = next[n], !.held = TRUE] \in LoopRec  BY DEF LoopRec
  <2>3. loop' \in [Nodes -> LoopRec]  BY <1>1, <1>8, <2>1, <2>2 DEF CronDue, TakeEntry
  <2> QED  BY <1>8, <2>3 DEF CronDue, TakeEntry, rows, engine, hist
<1>9. ASSUME NEW n \in Nodes, FireCron(n) \/ FireFails(n)
      PROVE  Typed'
  <2>1. [loop[n] EXCEPT !.pc = "fired"] \in LoopRec /\ loop[n].at \in Nat  BY DEF LoopRec
  <2>2. loop' \in [Nodes -> LoopRec]  BY <1>9, <2>1 DEF FireCron, FireFails
  <2>3. stored' \in Nat \cup {NoRow}  BY <1>2, <1>9, <2>1 DEF FireCron, FireFails, rows
  <2>4. fires' \in [0 .. MaxTime + Period -> Nat]
    <3>1. \A o \in 0 .. MaxTime + Period : fires[o] + 1 \in Nat
      <4> SUFFICES ASSUME NEW o \in 0 .. MaxTime + Period PROVE fires[o] + 1 \in Nat  OBVIOUS
      <4>1. fires[o] \in Nat  OBVIOUS
      <4> QED  BY <4>1
    <3>2. fires' = fires \/ fires' = [fires EXCEPT ![loop[n].expect] = fires[loop[n].expect] + 1]
      BY <1>9 DEF FireCron, FireFails
    <3>3. fires \in [0 .. MaxTime + Period -> Nat]  OBVIOUS
    <3> HIDE DEF Typed
    <3>4. ASSUME NEW D, NEW f \in [D -> Nat], NEW e, NEW v, \A o \in D : f[o] + 1 \in Nat, v = f[e] + 1
          PROVE  [f EXCEPT ![e] = v] \in [D -> Nat]
      BY <3>4
    <3> QED  BY <3>1, <3>2, <3>3, <3>4
  <2> QED  BY <1>9, <2>2, <2>3, <2>4 DEF FireCron, FireFails, rows, engine
<1>10. ASSUME NEW n \in Nodes, Advance(n)
       PROVE  Typed'
  <2>1. loop[n].at \in Nat  BY DEF LoopRec
  <2>2. next' \in [Nodes -> Nat]  BY <1>2, <1>10, <2>1 DEF Advance
  <2>3. loop' \in [Nodes -> LoopRec]  BY <1>1, <1>10 DEF Advance
  <2> QED  BY <1>10, <2>2, <2>3 DEF Advance, rows, hist
<1>11. ASSUME NEW n \in Nodes, WriteFails(n)
       PROVE  Typed'
  <2>1. [call[n] EXCEPT !.pc = call[n].then] \in CallRec  BY DEF CallRec
  <2>2. call' \in [Nodes -> CallRec]  BY <1>1, <1>11, <2>1 DEF WriteFails, Goto
  <2> QED  BY <1>11, <2>2 DEF WriteFails, rows, engine
<1>12. ASSUME NEW n \in Nodes, NEW op \in Ops, RegisterTask(n, op)
       PROVE  Typed'
  <2> DEFINE t == IF next[n] > now THEN next[n] ELSE SchedNext(now)
  <2>1. t \in Nat  BY <1>2
  <2>2. op \in {"register", "cron", "on"}  BY <1>12 DEF RegisterTask
  <2>3. /\ [pc |-> "persist", then |-> op, next |-> t] \in CallRec
        /\ [pc |-> op, then |-> "idle", next |-> 0] \in CallRec
    BY <2>1, <2>2 DEF CallRec, CallPcs
  <2>4. /\ next' = next \/ next' = [next EXCEPT ![n] = t]
        /\ cron' = cron \/ cron' = [cron EXCEPT ![n] = "armed"]
        /\ \/ call' = [call EXCEPT ![n] = [pc |-> "persist", then |-> op, next |-> t]]
           \/ call' = [call EXCEPT ![n] = Idle]
           \/ call' = [call EXCEPT ![n] = [pc |-> op, then |-> "idle", next |-> 0]]
    BY <1>12 DEF RegisterTask, Goto
  <2>5. /\ subs' = [subs EXCEPT ![n] = @ + pendingSubs[n]]
        /\ pendingSubs' = [pendingSubs EXCEPT ![n] = 0]
        /\ UNCHANGED <<now, every, rows, up, loop, owed, hist>>
    BY <1>12 DEF RegisterTask
  <2> HIDE DEF t
  <2>6. call' \in [Nodes -> CallRec] /\ next' \in [Nodes -> Nat]
        /\ cron' \in [Nodes -> {"none", "pending", "armed"}]
    BY ZenonT(60), <1>1, <2>1, <2>3, <2>4
  <2>7. subs' \in [Nodes -> Nat] /\ pendingSubs' \in [Nodes -> Nat]  BY <2>5
  <2> QED  BY <2>5, <2>6, <2>7 DEF rows, hist
<1>13. ASSUME NEW n \in Nodes, RemoveCron(n)
       PROVE  Typed'
  <2>1. [loop[n] EXCEPT !.held = FALSE] \in LoopRec  BY DEF LoopRec
  <2>2. [Idle EXCEPT !.pc = "deleteCron"] \in CallRec  BY DEF Idle, CallRec, CallPcs
  <2>3. loop' \in [Nodes -> LoopRec]  BY <1>13, <2>1 DEF RemoveCron
  <2> QED  BY <1>13, <2>2, <2>3 DEF RemoveCron, Goto, rows, hist
<1>14. ASSUME NEW n \in Nodes, Emit(n) \/ EmitEnqueue(n)
       PROVE  Typed'
  <2>1. owed' \in [Nodes -> Nat]
    <3>1. subs[n] \in Nat /\ owed[n] \in Nat  OBVIOUS
    <3>2. owed[n] > 0 => owed[n] - 1 \in Nat  BY <3>1
    <3>3. \E v \in Nat : owed' = [owed EXCEPT ![n] = v]  BY <1>14, <3>1, <3>2 DEF Emit, EmitEnqueue
    <3> QED  BY <3>3
  <2>2. emits' \in Nat /\ runs' \in Nat  BY <1>14 DEF Emit, EmitEnqueue
  <2> QED  BY <1>14, <2>1, <2>2 DEF Emit, EmitEnqueue, rows, engine
<1>15. ASSUME NEW n \in Nodes, Start(n) \/ Stop(n)
       PROVE  Typed'
  <2>1. CASE Start(n)
    <3>1. next' \in [Nodes -> Nat]  BY <2>1 DEF Start
    <3>2. cron' \in [Nodes -> {"none", "pending", "armed"}]  BY <2>1 DEF Start
    <3>3. pendingSubs' \in [Nodes -> Nat] /\ up' \in [Nodes -> BOOLEAN]  BY <2>1 DEF Start
    <3> QED  BY <2>1, <3>1, <3>2, <3>3 DEF Start, rows, hist
  <2>2. CASE Stop(n)
    <3>1. next' \in [Nodes -> Nat] /\ subs' \in [Nodes -> Nat]  BY <2>2 DEF Stop
    <3>2. cron' \in [Nodes -> {"none", "pending", "armed"}]  BY <2>2 DEF Stop
    <3>3. pendingSubs' \in [Nodes -> Nat] /\ up' \in [Nodes -> BOOLEAN]  BY <2>2 DEF Stop
    <3>4. owed' \in [Nodes -> Nat]  BY <2>2 DEF Stop
    <3>5. loop' \in [Nodes -> LoopRec] /\ call' \in [Nodes -> CallRec]  BY <1>1, <2>2 DEF Stop
    <3> QED  BY <2>2, <3>1, <3>2, <3>3, <3>4, <3>5 DEF Stop, rows, hist
  <2> QED  BY <1>15, <2>1, <2>2
<1> QED
  BY <1>3, <1>4, <1>5, <1>6, <1>7, <1>8, <1>9, <1>10, <1>11, <1>12, <1>13, <1>14, <1>15
  DEF Next, CallStep, CronLoop

LEMMA TypedInit == Init => Typed
<1> SUFFICES ASSUME Init PROVE Typed  OBVIOUS
<1>1. Idle \in CallRec /\ Wait \in LoopRec  BY DEF Idle, Wait, CallRec, LoopRec, CallPcs
<1> QED  BY <1>1 DEF Init, Typed

-----------------------------------------------------------------------------
\* The cron.  A pass is early when the entry it looks up is not the one its scan
\* found due: it is about to fire the occurrence that follows the scan.
Early == {n \in Nodes : \/ loop[n].pc = "due" /\ next[n] > loop[n].at
                        \/ loop[n].pc = "fire" /\ loop[n].expect > loop[n].at}

\* Beyond what early passes fired or will fire, which the overtaking registrations
\* pay for, an occurrence has fired once; and only if it is past and, where the
\* cron is stored, before the occurrence that is stored.  So the compare-and-swap
\* of a pass that is not early hits one that has not fired.
FiredIsPast == /\ IsFiniteSet(Early)
               /\ \A o \in DOMAIN fires :
                     /\ fires[o] + Cardinality(Early) <= 1 + overtaken
                     /\ o > now \/ (stored # NoRow /\ o >= stored)
                          => fires[o] + Cardinality(Early) <= overtaken

\* A pass of the loop fires an occurrence that its scan found due, or the next one
\* after the scan.
PassOf(n) == /\ loop[n].at <= now
             /\ loop[n].pc = "due" => loop[n].at = now /\ (next[n] <= now \/ next[n] = SchedNext(now))
             /\ loop[n].pc = "fire" => loop[n].expect <= loop[n].at \/ loop[n].expect = SchedNext(loop[n].at)
             /\ cron[n] = "pending" \/ ~up[n] => loop[n].pc = "wait"
PassIsDue == \A n \in Nodes : PassOf(n)

\* A time on its way to the row is ahead of the clock.
WritesAhead == \A n \in Nodes : call[n].pc \in {"persist", "upsertCron"} => call[n].next > now

Occurrences == Typed /\ FiredIsPast /\ PassIsDue /\ WritesAhead

-----------------------------------------------------------------------------
\* Steps that leave the row and what has fired alone, and make no pass early.
LEMMA HistoryKept ==
    ASSUME Occurrences, now' \in Nat, now' >= now, UNCHANGED <<stored, fires, overtaken>>, Early' \subseteq Early
    PROVE  FiredIsPast'
<1>1. IsFiniteSet(Early) /\ Cardinality(Early) \in Nat
  BY FS_CardinalityType DEF Occurrences, FiredIsPast
<1>2. IsFiniteSet(Early') /\ Cardinality(Early') <= Cardinality(Early) /\ Cardinality(Early') \in Nat
  BY <1>1, FS_Subset, FS_CardinalityType
<1>3. /\ now \in Nat /\ overtaken \in Nat /\ stored \in Nat \cup {NoRow}
      /\ \A o \in DOMAIN fires : o \in Int /\ fires[o] \in Nat
  BY TriggersAssumption DEF Occurrences, Typed
<1> SUFFICES ASSUME NEW o \in DOMAIN fires
             PROVE  /\ fires[o] + Cardinality(Early') <= 1 + overtaken
                    /\ o > now' \/ (stored # NoRow /\ o >= stored)
                         => fires[o] + Cardinality(Early') <= overtaken
  BY <1>2 DEF FiredIsPast
<1>4. /\ fires[o] + Cardinality(Early) <= 1 + overtaken
      /\ o > now \/ (stored # NoRow /\ o >= stored)
           => fires[o] + Cardinality(Early) <= overtaken
  BY DEF Occurrences, FiredIsPast
<1> HIDE DEF Early
<1> QED  BY <1>1, <1>2, <1>3, <1>4

\* The row is deleted, or written with a time ahead of the clock.
LEMMA RowWritten ==
    ASSUME Occurrences, UNCHANGED <<now, fires, overtaken, loop, next>>,
           stored' = NoRow \/ (stored' \in Int /\ stored' > now)
    PROVE  FiredIsPast'
<1>1. now \in Nat  BY DEF Occurrences, Typed
<1>2. \A o \in DOMAIN fires : o \in Int  BY TriggersAssumption DEF Occurrences, Typed
<1>3. Early' = Early  BY DEF Early
<1> QED  BY <1>1, <1>2, <1>3 DEF Occurrences, FiredIsPast

\* An engine whose loop and cron are as they were, at the same time.
LEMMA PassKept ==
    ASSUME Occurrences, UNCHANGED <<now, up, cron, next, every>>, loop' = loop
    PROVE  PassIsDue'
BY DEF Occurrences, PassIsDue, PassOf, SchedNext

\* An API call in engine n writes the time it noted, or nothing.
LEMMA CallWrites ==
    ASSUME Occurrences, NEW n \in Nodes,
           PersistArmed(n) \/ UpsertCron(n) \/ DeleteCron(n) \/ UpsertEventSub(n) \/ DeleteEventSub(n)
    PROVE  FiredIsPast' /\ PassIsDue' /\ WritesAhead'
<1>1. PassIsDue'
  BY PassKept DEF PersistArmed, UpsertCron, DeleteCron, UpsertEventSub, DeleteEventSub, engine
<1>2. FiredIsPast'
  <2>1. UNCHANGED <<now, fires, overtaken, loop, next>>
    BY DEF PersistArmed, UpsertCron, DeleteCron, UpsertEventSub, DeleteEventSub, hist, engine
  <2>2. CASE PersistArmed(n) \/ UpsertCron(n)
    <3>1. stored' = call[n].next /\ call[n].pc \in {"persist", "upsertCron"}
      BY <2>2 DEF PersistArmed, UpsertCron, Calling
    <3>2. call[n].next \in Int /\ call[n].next > now
      BY <3>1 DEF Occurrences, Typed, CallRec, WritesAhead
    <3> QED  BY <2>1, <3>1, <3>2, RowWritten
  <2>3. CASE stored' = NoRow  BY <2>1, <2>3, RowWritten
  <2>4. CASE stored' = stored
    <3>1. Early' = Early  BY <2>1 DEF Early
    <3> QED  BY <2>1, <2>4, <3>1, HistoryKept DEF Occurrences, Typed
  <2> QED  BY <2>2, <2>3, <2>4 DEF DeleteCron, UpsertEventSub, DeleteEventSub
<1>3. WritesAhead'
  <2>1. now' = now
    BY DEF PersistArmed, UpsertCron, DeleteCron, UpsertEventSub, DeleteEventSub
  <2>2. \E c : call' = [call EXCEPT ![n] = c] /\ (c.pc \in {"persist", "upsertCron"} => c.next = call[n].next /\ call[n].pc = "persist")
    <3>1. Idle.pc = "idle"  BY DEF Idle
    <3>2. [call[n] EXCEPT !.pc = call[n].then].next = call[n].next  BY DEF Occurrences, Typed, CallRec
    <3> QED
      BY <3>1, <3>2 DEF PersistArmed, UpsertCron, DeleteCron, UpsertEventSub, DeleteEventSub, Return, Goto, Calling
  <2> QED  BY <2>1, <2>2 DEF Occurrences, Typed, WritesAhead
<1> QED  BY <1>1, <1>2, <1>3

\* RegisterTask notes a time ahead of the clock.
LEMMA RegistersTask ==
    ASSUME Occurrences, NEW n \in Nodes, NEW op \in Ops, RegisterTask(n, op)
    PROVE  FiredIsPast' /\ PassIsDue' /\ WritesAhead'
<1> DEFINE t == IF next[n] > now THEN next[n] ELSE SchedNext(now)
<1>1. now \in Nat /\ next[n] \in Nat /\ t \in Nat /\ t > now
  BY NextIsLater DEF Occurrences, Typed
<1>2. UNCHANGED <<now, every, stored, fires, overtaken, up, loop>>  BY DEF RegisterTask, rows, hist
<1>3. op \in {"register", "cron", "on"}  BY DEF RegisterTask
<1>4. \/ /\ cron[n] = "pending"
         /\ cron' = [cron EXCEPT ![n] = "armed"] /\ next' = [next EXCEPT ![n] = t]
         /\ call' = [call EXCEPT ![n] = [pc |-> "persist", then |-> op, next |-> t]]
      \/ /\ UNCHANGED <<cron, next>>
         /\ \/ call' = [call EXCEPT ![n] = Idle]
            \/ call' = [call EXCEPT ![n] = [pc |-> op, then |-> "idle", next |-> 0]]
  BY DEF RegisterTask, Goto
<1> HIDE DEF t
<1>5. \A m \in Nodes : loop[m].pc # "wait" => next'[m] = next[m]
  BY <1>4 DEF Occurrences, Typed, PassIsDue, PassOf
<1>6. FiredIsPast'
  <2>1. Early' = Early  BY <1>2, <1>5 DEF Early
  <2> QED  BY <1>1, <1>2, <2>1, HistoryKept
<1>7. PassIsDue'
  <2>1. \A m \in Nodes : cron'[m] = "pending" => cron[m] = "pending"  BY <1>4 DEF Occurrences, Typed
  <2> QED  BY <1>2, <1>5, <2>1 DEF Occurrences, PassIsDue, PassOf, SchedNext
<1>8. WritesAhead'
  <2>1. Idle.pc = "idle"  BY DEF Idle
  <2>2. [pc |-> op, then |-> "idle", next |-> 0].pc \notin {"persist", "upsertCron"}  BY <1>3
  <2>3. \E c : call' = [call EXCEPT ![n] = c] /\ (c.pc \in {"persist", "upsertCron"} => c.next > now)
    BY <1>1, <1>4, <2>1, <2>2
  <2> QED  BY <1>2, <2>3 DEF Occurrences, Typed, WritesAhead
<1> QED  BY <1>6, <1>7, <1>8

\* RegisterCron too; where it overtakes a scan, it makes that pass early and is counted.
LEMMA RegistersCron ==
    ASSUME Occurrences, NEW n \in Nodes, RegisterCron(n)
    PROVE  FiredIsPast' /\ PassIsDue' /\ WritesAhead'
<1>1. now \in Nat /\ SchedNext(now) \in Nat /\ SchedNext(now) > now
  BY NextIsLater DEF Occurrences, Typed
<1>2. /\ UNCHANGED <<now, every, stored, fires, up>> /\ up[n]
      /\ cron' = [cron EXCEPT ![n] = "armed"]
      /\ loop' = [loop EXCEPT ![n].held = FALSE]
      /\ next' = [next EXCEPT ![n] = SchedNext(now)]
      /\ overtaken' = IF loop[n].pc = "due" THEN overtaken + 1 ELSE overtaken
      /\ call' = [call EXCEPT ![n] = [pc |-> "upsertCron", then |-> "idle", next |-> SchedNext(now)]]
  BY DEF RegisterCron, Calling, Goto, rows
<1>3. \A m \in Nodes : loop'[m].pc = loop[m].pc /\ loop'[m].at = loop[m].at /\ loop'[m].expect = loop[m].expect
  BY <1>2 DEF Occurrences, Typed, LoopRec
<1>4. \A m \in Nodes \ {n} : cron'[m] = cron[m] /\ next'[m] = next[m]
  BY <1>2 DEF Occurrences, Typed
<1>5. cron'[n] = "armed" /\ next'[n] = SchedNext(now)
  BY <1>2 DEF Occurrences, Typed
<1>6. FiredIsPast'
  <2>1. CASE loop[n].pc # "due"
    <3>1. Early' = Early  BY <1>3, <1>4, <2>1 DEF Early
    <3> QED  BY <1>1, <1>2, <2>1, <3>1, HistoryKept
  <2>2. CASE loop[n].pc = "due"
    <3>1. Early' \subseteq Early \cup {n}  BY <1>3, <1>4 DEF Early
    <3>2. IsFiniteSet(Early) /\ Cardinality(Early) \in Nat
      BY FS_CardinalityType DEF Occurrences, FiredIsPast
    <3>3. /\ IsFiniteSet(Early \cup {n})
          /\ Cardinality(Early \cup {n}) \in {Cardinality(Early), Cardinality(Early) + 1}
      BY <3>2, FS_AddElement
    <3>4. /\ IsFiniteSet(Early') /\ Cardinality(Early') \in Nat
          /\ Cardinality(Early') <= Cardinality(Early) + 1
      BY <3>1, <3>2, <3>3, FS_Subset, FS_CardinalityType
    <3>5. overtaken \in Nat /\ overtaken' = overtaken + 1 /\ \A o \in DOMAIN fires : fires[o] \in Nat
      BY <1>2, <2>2 DEF Occurrences, Typed
    <3>6. \A o \in DOMAIN fires :
             /\ fires[o] + Cardinality(Early) <= 1 + overtaken
             /\ o > now \/ (stored # NoRow /\ o >= stored)
                  => fires[o] + Cardinality(Early) <= overtaken
      BY DEF Occurrences, FiredIsPast
    <3> HIDE DEF Early
    <3>7. \A o \in DOMAIN fires :
             /\ fires[o] + Cardinality(Early') <= 1 + overtaken'
             /\ o > now \/ (stored # NoRow /\ o >= stored)
                  => fires[o] + Cardinality(Early') <= overtaken'
      BY <3>2, <3>4, <3>5, <3>6
    <3> QED  BY <1>2, <3>4, <3>7 DEF FiredIsPast
  <2> QED  BY <2>1, <2>2
<1>7. PassIsDue'
  <2> SUFFICES ASSUME NEW m \in Nodes PROVE PassOf(m)'  BY DEF PassIsDue
  <2>1. SchedNext(now)' = SchedNext(now) /\ SchedNext(loop[m].at)' = SchedNext(loop[m].at)
    BY <1>2, <1>3 DEF SchedNext
  <2>2. PassOf(m)  BY DEF Occurrences, PassIsDue
  <2>3. CASE m = n  BY <1>2, <1>3, <1>5, <2>1, <2>2, <2>3 DEF PassOf
  <2>4. CASE m # n  BY <1>2, <1>3, <1>4, <2>1, <2>2, <2>4 DEF PassOf
  <2> QED  BY <2>3, <2>4
<1>8. WritesAhead'
  BY <1>1, <1>2 DEF Occurrences, Typed, WritesAhead
<1> QED  BY <1>6, <1>7, <1>8

\* FireCron's compare-and-swap finds the occurrence stored.
LEMMA Fires ==
    ASSUME Occurrences, NEW n \in Nodes, FireCron(n), stored = loop[n].expect
    PROVE  FiredIsPast'
<1> DEFINE e == loop[n].expect
           a == loop[n].at
           rest == Cardinality(Early \ {n})
<1>1. /\ loop[n].pc = "fire" /\ UNCHANGED <<now, every, next, overtaken>>
      /\ stored' = SchedNext(a) /\ fires' = [fires EXCEPT ![e] = @ + 1]
      /\ loop' = [loop EXCEPT ![n].pc = "fired"]
  BY DEF FireCron, engine
<1>2. /\ now \in Nat /\ overtaken \in Nat /\ e \in Nat /\ a \in Nat /\ a <= now
      /\ e <= a \/ e = SchedNext(a)
      /\ \A o \in DOMAIN fires : o \in Int /\ fires[o] \in Nat
  <2>1. loop[n] \in LoopRec /\ PassOf(n)  BY DEF Occurrences, Typed, PassIsDue
  <2>2. e \in Nat /\ a \in Nat  BY <2>1 DEF LoopRec
  <2>3. a <= now /\ (e <= a \/ e = SchedNext(a))  BY <1>1, <2>1 DEF PassOf
  <2>4. MaxTime \in Nat /\ Period \in Nat  BY TriggersAssumption
  <2>5. \A o \in DOMAIN fires : o \in Int /\ fires[o] \in Nat  BY <2>4 DEF Occurrences, Typed
  <2> QED  BY <2>2, <2>3, <2>5 DEF Occurrences, Typed
<1>3. SchedNext(a) \in Nat /\ SchedNext(a) > a
  BY <1>2, NextIsLater DEF Occurrences, Typed
<1>4. stored # NoRow /\ stored' # NoRow
  BY <1>1, <1>2, <1>3, TriggersAssumption
<1>5. Early' = Early \ {n}
  <2>1. loop'[n].pc = "fired" /\ \A m \in Nodes \ {n} : loop'[m] = loop[m]
    BY <1>1 DEF Occurrences, Typed, LoopRec
  <2> QED  BY <1>1, <2>1 DEF Early
<1>6. /\ IsFiniteSet(Early) /\ Cardinality(Early) \in Nat /\ IsFiniteSet(Early') /\ rest \in Nat
      /\ rest = IF n \in Early THEN Cardinality(Early) - 1 ELSE Cardinality(Early)
  BY <1>5, FS_CardinalityType, FS_RemoveElement DEF Occurrences, FiredIsPast
<1>7. n \in Early <=> e > a
  BY <1>1, <1>2 DEF Early
<1>8. \A o \in DOMAIN fires :
         /\ fires[o] + Cardinality(Early) <= 1 + overtaken
         /\ o > now \/ o >= stored => fires[o] + Cardinality(Early) <= overtaken
  BY <1>4 DEF Occurrences, FiredIsPast
<1>9. /\ DOMAIN fires' = DOMAIN fires
      /\ \A o \in DOMAIN fires : fires'[o] = IF o = e THEN fires[o] + 1 ELSE fires[o]
  BY <1>1 DEF Occurrences, Typed
<1> SUFFICES ASSUME NEW o \in DOMAIN fires
             PROVE  /\ fires'[o] + rest <= 1 + overtaken
                    /\ o > now \/ o >= stored' => fires'[o] + rest <= overtaken
  BY <1>1, <1>4, <1>5, <1>6, <1>9 DEF FiredIsPast
<1> HIDE DEF Early, rest, e, a
<1>10. CASE n \in Early
  <2>1. stored' = stored  BY <1>1, <1>2, <1>3, <1>7, <1>10 DEF e
  <2> QED  BY <1>2, <1>6, <1>8, <1>9, <1>10, <2>1
<1>11. CASE n \notin Early
  <2>1. e <= a /\ stored' > a /\ stored = e
    BY <1>1, <1>2, <1>3, <1>7, <1>11 DEF e
  <2>2. rest = Cardinality(Early)  BY <1>6, <1>11
  <2>3. CASE o = e  BY <1>1, <1>2, <1>3, <1>6, <1>8, <1>9, <2>1, <2>2, <2>3
  <2>4. CASE o # e  BY <1>1, <1>2, <1>3, <1>6, <1>8, <1>9, <2>1, <2>2, <2>4
  <2> QED  BY <2>3, <2>4
<1> QED  BY <1>10, <1>11

\* The loop's pass: unless it is early, what it fires had not fired.
LEMMA LoopPass ==
    ASSUME Occurrences, NEW n \in Nodes, CronLoop(n) \/ FireFails(n)
    PROVE  FiredIsPast' /\ PassIsDue' /\ WritesAhead'
<1>1. UNCHANGED <<now, every, call, up, overtaken>>
  BY DEF CronLoop, CronDue, TakeEntry, FireCron, Advance, FireFails, engine, hist
<1>2. WritesAhead'  BY <1>1 DEF Occurrences, WritesAhead
<1>3. /\ now \in Nat /\ loop[n] \in LoopRec /\ loop[n].at \in Nat /\ loop[n].expect \in Nat /\ loop[n].at <= now
      /\ next[n] \in Nat
  BY DEF Occurrences, Typed, LoopRec, PassIsDue, PassOf
<1>4. ASSUME NEW m \in Nodes, m # n
      PROVE  loop'[m] = loop[m] /\ cron'[m] = cron[m] /\ next'[m] = next[m]
  BY <1>4 DEF CronLoop, CronDue, TakeEntry, FireCron, Advance, FireFails, engine, Occurrences, Typed
<1>5. cron' = cron /\ PassOf(n)' /\ (n \in Early' => n \in Early)
  <2>0. PassOf(n)  BY DEF Occurrences, PassIsDue
  <2>1. CASE CronDue(n)
    <3>1. /\ loop'[n] = [Wait EXCEPT !.pc = "due", !.at = now] /\ next' = next /\ cron' = cron /\ next[n] <= now
          /\ up[n] /\ cron[n] = "armed"
      BY <2>1 DEF CronDue, engine, Occurrences, Typed
    <3>2. loop'[n].pc = "due" /\ loop'[n].at = now  BY <3>1 DEF Wait
    <3>3. now \in Nat /\ next'[n] = next[n] /\ ~(next'[n] > loop'[n].at)  BY <1>3, <3>1, <3>2 DEF Occurrences, Typed
    <3>4. n \notin Early'  BY <3>2, <3>3 DEF Early
    <3>5. PassOf(n)'  BY <1>1, <3>1, <3>2, <3>3 DEF PassOf
    <3> QED  BY <3>1, <3>4, <3>5
  <2>2. CASE TakeEntry(n)
    <3>1. next' = next /\ cron' = cron /\ loop[n].pc = "due" /\ up[n]  BY <2>2 DEF TakeEntry, engine
    <3>2. cron[n] # "pending"  BY <2>0, <3>1 DEF PassOf
    <3>3. CASE cron[n] # "armed"
      <4>1. loop'[n] = Wait  BY <2>2, <3>3 DEF TakeEntry, Occurrences, Typed
      <4>2. loop'[n].pc = "wait" /\ loop'[n].at = 0  BY <4>1 DEF Wait
      <4> QED  BY <1>1, <1>3, <3>1, <4>2 DEF PassOf, Early
    <3>4. CASE cron[n] = "armed"
      <4>1. loop'[n] = [loop[n] EXCEPT !.pc = "fire", !.expect = next[n], !.held = TRUE]
        BY <2>2, <3>4 DEF TakeEntry, Occurrences, Typed
      <4>2. loop'[n].pc = "fire" /\ loop'[n].expect = next[n] /\ loop'[n].at = loop[n].at
        BY <1>3, <4>1 DEF LoopRec
      <4>3. loop[n].at = now /\ (next[n] <= now \/ next[n] = SchedNext(now))  BY <2>0, <3>1 DEF PassOf
      <4>4. SchedNext(loop[n].at)' = SchedNext(now)  BY <1>1, <4>2, <4>3 DEF SchedNext
      <4> QED  BY <1>1, <1>3, <3>1, <3>2, <4>2, <4>3, <4>4 DEF PassOf, Early
    <3> QED  BY <3>3, <3>4
  <2>3. CASE FireCron(n) \/ FireFails(n)
    <3>1. cron' = cron /\ loop[n].pc = "fire" /\ up[n]  BY <2>3 DEF FireCron, FireFails, engine
    <3>2. cron[n] # "pending"  BY <2>0, <3>1 DEF PassOf
    <3>3. loop'[n] = [loop[n] EXCEPT !.pc = "fired"]  BY <2>3 DEF FireCron, FireFails, Occurrences, Typed
    <3>4. loop'[n].pc = "fired" /\ loop'[n].at = loop[n].at  BY <1>3, <3>3 DEF LoopRec
    <3> QED  BY <1>1, <1>3, <3>1, <3>2, <3>4 DEF PassOf, Early
  <2>4. CASE Advance(n)
    <3>1. cron' = cron /\ loop[n].pc = "fired" /\ up[n]  BY <2>4 DEF Advance
    <3>2. loop'[n] = Wait  BY <2>4 DEF Advance, Occurrences, Typed
    <3>3. loop'[n].pc = "wait" /\ loop'[n].at = 0  BY <3>2 DEF Wait
    <3> QED  BY <1>1, <1>3, <3>1, <3>3 DEF PassOf, Early
  <2> QED  BY <2>1, <2>2, <2>3, <2>4 DEF CronLoop
<1>6. Early' \subseteq Early  BY <1>4, <1>5 DEF Early
<1>7. FiredIsPast'
  <2>1. CASE UNCHANGED <<stored, fires>>  BY <1>1, <1>3, <1>6, <2>1, HistoryKept
  <2>2. CASE FireCron(n) /\ stored = loop[n].expect  BY <2>2, Fires
  <2> QED  BY <2>1, <2>2 DEF CronLoop, CronDue, TakeEntry, FireCron, Advance, FireFails, rows, hist
<1>8. PassIsDue'
  <2> SUFFICES ASSUME NEW m \in Nodes PROVE PassOf(m)'  BY DEF PassIsDue
  <2>1. CASE m = n  BY <1>5, <2>1
  <2>2. CASE m # n  BY <1>1, <1>4, <2>2 DEF Occurrences, PassIsDue, PassOf, SchedNext
  <2> QED  BY <2>1, <2>2
<1> QED  BY <1>2, <1>7, <1>8

\* Calls that write no time, and failing writes.
LEMMA OtherCalls ==
    ASSUME Occurrences, NEW n \in Nodes,
           RegisterEvent(n) \/ RemoveEvent(n) \/ RemoveCron(n) \/ WriteFails(n) \/ Emit(n) \/ EmitEnqueue(n)
    PROVE  FiredIsPast' /\ PassIsDue' /\ WritesAhead'
<1>1. UNCHANGED <<now, every, stored, fires, overtaken, up, next>>
  BY DEF RegisterEvent, RemoveEvent, RemoveCron, WriteFails, Emit, EmitEnqueue, rows, engine, hist
<1>2. FiredIsPast'
  <2>1. \A m \in Nodes : loop'[m].pc = loop[m].pc /\ loop'[m].at = loop[m].at /\ loop'[m].expect = loop[m].expect
    <3>1. CASE RemoveCron(n)  BY <3>1 DEF RemoveCron, Occurrences, Typed, LoopRec
    <3>2. CASE loop' = loop  BY <3>2
    <3> QED  BY <3>1, <3>2 DEF RegisterEvent, RemoveEvent, WriteFails, Emit, EmitEnqueue
  <2>2. Early' = Early  BY <1>1, <2>1 DEF Early
  <2> QED  BY <1>1, <2>2, HistoryKept DEF Occurrences, Typed
<1>3. PassIsDue'
  <2>1. CASE RemoveCron(n)
    <3>1. cron' = [cron EXCEPT ![n] = "none"] /\ loop' = [loop EXCEPT ![n].held = FALSE]
      BY <2>1 DEF RemoveCron
    <3>2. \A m \in Nodes : loop'[m].pc = loop[m].pc /\ loop'[m].at = loop[m].at /\ loop'[m].expect = loop[m].expect
      BY <3>1 DEF Occurrences, Typed, LoopRec
    <3>3. \A m \in Nodes : cron'[m] \in {"armed", "pending"} => cron'[m] = cron[m]
      BY <3>1 DEF Occurrences, Typed
    <3> QED  BY <1>1, <3>2, <3>3 DEF Occurrences, PassIsDue, PassOf, SchedNext
  <2>2. CASE UNCHANGED <<cron, loop>>  BY <1>1, <2>2, PassKept
  <2> QED  BY <2>1, <2>2 DEF RegisterEvent, RemoveEvent, WriteFails, Emit, EmitEnqueue, engine
<1>4. WritesAhead'
  <2>1. \/ call' = call
        \/ \E c : call' = [call EXCEPT ![n] = c] /\ (c.pc \in {"persist", "upsertCron"} => c.next = call[n].next /\ call[n].pc = "persist")
    <3>1. /\ Idle.pc = "idle" /\ [Idle EXCEPT !.pc = "upsertSub"].pc = "upsertSub"
          /\ [Idle EXCEPT !.pc = "deleteSub"].pc = "deleteSub" /\ [Idle EXCEPT !.pc = "deleteCron"].pc = "deleteCron"
      BY DEF Idle
    <3>2. [call[n] EXCEPT !.pc = call[n].then].next = call[n].next  BY DEF Occurrences, Typed, CallRec
    <3> QED
      BY <3>1, <3>2 DEF RegisterEvent, RemoveEvent, RemoveCron, WriteFails, Emit, EmitEnqueue, Goto
  <2> QED  BY <1>1, <2>1 DEF Occurrences, Typed, WritesAhead
<1> QED  BY <1>2, <1>3, <1>4

\* Engines start with what is stored, and stop.
LEMMA StartsAndStops ==
    ASSUME Occurrences, NEW n \in Nodes, Start(n) \/ Stop(n)
    PROVE  FiredIsPast' /\ PassIsDue' /\ WritesAhead'
<1>1. UNCHANGED <<now, every, stored, fires, overtaken>>  BY DEF Start, Stop, rows, hist
<1>3. ASSUME NEW m \in Nodes, m # n
      PROVE  /\ loop'[m] = loop[m] /\ call'[m] = call[m]
             /\ cron'[m] = cron[m] /\ next'[m] = next[m] /\ up'[m] = up[m]
  BY <1>3 DEF Start, Stop, Occurrences, Typed
<1>4. loop'[n].pc = "wait" /\ loop'[n].at <= now
  <2>1. CASE Start(n)  BY <2>1 DEF Start, Occurrences, Typed, PassIsDue, PassOf
  <2>2. CASE Stop(n)
    <3>1. loop'[n] = Wait  BY <2>2 DEF Stop, Occurrences, Typed
    <3>2. loop'[n].pc = "wait" /\ loop'[n].at = 0  BY <3>1 DEF Wait
    <3> QED  BY <3>2 DEF Occurrences, Typed
  <2> QED  BY <2>1, <2>2
<1>5. call'[n].pc \in {"persist", "upsertCron"} => call'[n] = call[n]
  <2>1. CASE Start(n)  BY <2>1 DEF Start
  <2>2. CASE Stop(n)
    <3>1. call'[n] = Idle  BY <2>2 DEF Stop, Occurrences, Typed
    <3>2. call'[n].pc = "idle"  BY <3>1 DEF Idle
    <3> QED  BY <3>2
  <2> QED  BY <2>1, <2>2
<1>2. FiredIsPast'
  <2>1. Early' \subseteq Early  BY <1>3, <1>4 DEF Early
  <2> QED  BY <1>1, <2>1, HistoryKept DEF Occurrences, Typed
<1>6. PassIsDue'
  <2> SUFFICES ASSUME NEW m \in Nodes PROVE PassOf(m)'  BY DEF PassIsDue
  <2>1. CASE m = n  BY <1>1, <1>4, <2>1 DEF PassOf
  <2>2. CASE m # n  BY <1>1, <1>3, <2>2 DEF Occurrences, PassIsDue, PassOf, SchedNext
  <2> QED  BY <2>1, <2>2
<1>7. WritesAhead'  BY <1>1, <1>3, <1>5 DEF Occurrences, WritesAhead
<1> QED  BY <1>2, <1>6, <1>7

LEMMA OccurrencesStep ==
    ASSUME Occurrences, Prompt, [Next]_vars
    PROVE  Occurrences'
<1>1. Typed'  BY TypedStep DEF Occurrences
<1>2. CASE UNCHANGED vars
  <2>1. Early' = Early  BY <1>2 DEF vars, engine, Early
  <2> QED
    BY <1>1, <1>2, <2>1 DEF vars, rows, engine, hist, Occurrences, FiredIsPast, PassIsDue, PassOf, SchedNext, WritesAhead
<1>3. CASE Tick
  <2>1. /\ now' = now + 1 /\ UNCHANGED <<every, stored, fires, overtaken, up, cron, next, loop, call>>
        /\ \A n \in Nodes : call[n].pc = "idle" /\ loop[n].pc # "due"
    BY <1>3 DEF Tick, rows, engine, hist
  <2>2. now \in Nat  BY DEF Occurrences, Typed
  <2>3. FiredIsPast'
    <3>1. Early' = Early  BY <2>1 DEF Early
    <3> QED  BY <2>1, <2>2, <3>1, HistoryKept
  <2>4. \A n \in Nodes : loop[n].at \in Nat  BY DEF Occurrences, Typed, LoopRec
  <2>5. PassIsDue'  BY <2>1, <2>2, <2>4 DEF Occurrences, PassIsDue, PassOf, SchedNext
  <2>6. WritesAhead'  BY <2>1 DEF WritesAhead
  <2> QED  BY <1>1, <2>3, <2>5, <2>6 DEF Occurrences
<1>4. CASE Next /\ ~Tick
  <2>1. FiredIsPast' /\ PassIsDue' /\ WritesAhead'
    BY <1>4, CallWrites, RegistersTask, RegistersCron, LoopPass, OtherCalls, StartsAndStops DEF Next, CallStep
  <2> QED  BY <1>1, <2>1 DEF Occurrences
<1> QED  BY <1>2, <1>3, <1>4

\* FireCron and the calls around it: however many engines hold the cron, and
\* whoever registers, removes, crashes, restarts or fails to write, an occurrence
\* starts at most one run, and one more for each registration that falls between
\* the scan of a pass and its lookup; as long as neither the time a call has noted
\* under e.mu nor a lookup is left behind by the clock.
THEOREM OneRunPerOccurrence == Prompt => (Spec => []OncePerOccurrence)
<1> SUFFICES ASSUME Prompt PROVE Spec => []OncePerOccurrence  OBVIOUS
<1>1. Init => Occurrences
  <2> SUFFICES ASSUME Init PROVE Occurrences  OBVIOUS
  <2>1. Idle.pc = "idle" /\ Wait.pc = "wait" /\ Wait.at = 0  BY DEF Idle, Wait
  <2>2. Early = {}  BY <2>1 DEF Init, Early
  <2>3. FiredIsPast  BY <2>2, FS_EmptySet DEF Init, FiredIsPast
  <2>4. PassIsDue /\ WritesAhead  BY <2>1 DEF Init, PassIsDue, PassOf, WritesAhead
  <2> QED  BY <2>3, <2>4, TypedInit DEF Occurrences
<1>2. Occurrences /\ [Next]_vars => Occurrences'  BY OccurrencesStep
<1>3. Occurrences => OncePerOccurrence
  <2> SUFFICES ASSUME Occurrences, NEW o \in DOMAIN fires PROVE fires[o] <= 1 + overtaken
    BY DEF OncePerOccurrence
  <2>1. Cardinality(Early) \in Nat /\ fires[o] + Cardinality(Early) <= 1 + overtaken
    BY FS_CardinalityType DEF Occurrences, FiredIsPast
  <2>2. fires[o] \in Nat /\ overtaken \in Nat  BY DEF Occurrences, Typed
  <2> QED  BY <2>1, <2>2
<1> QED  BY <1>1, <1>2, <1>3, PTL DEF Spec

-----------------------------------------------------------------------------
\* The event binding.  An engine has at most one entry for it, armed or pending,
\* and none pending by the time RegisterEvent looks for one to refresh.
OneEntry == \A n \in Nodes : /\ subs[n] + pendingSubs[n] <= 1
                             /\ call[n].pc \in {"on", "persist"} => pendingSubs[n] = 0
                             /\ ~up[n] => subs[n] = 0 /\ call[n].pc = "idle"

\* Engines whose Emit has an enqueue ahead of it.
Debtors == {n \in Nodes : owed[n] # 0}

\* What an Emit owes and what Emits have enqueued is covered by the Emits made.
Covered == /\ \A n \in Nodes : owed[n] <= 1
           /\ IsFiniteSet(Debtors)
           /\ runs + Cardinality(Debtors) <= emits

Bound == Typed /\ OneEntry /\ Covered

LEMMA EntriesStep ==
    ASSUME Bound, [Next]_vars
    PROVE  OneEntry'
<1>1. ASSUME NEW m \in Nodes
      PROVE  /\ subs[m] \in Nat /\ pendingSubs[m] \in Nat /\ call[m] \in CallRec
             /\ subs[m] + pendingSubs[m] <= 1
             /\ call[m].pc \in {"on", "persist"} => pendingSubs[m] = 0
             /\ ~up[m] => subs[m] = 0 /\ call[m].pc = "idle"
  BY DEF Bound, Typed, OneEntry
<1>2. CASE UNCHANGED <<subs, pendingSubs, up, call>>
  BY <1>2 DEF Bound, OneEntry
<1>3. ASSUME NEW n \in Nodes, UNCHANGED up, up[n],
             UNCHANGED <<subs, pendingSubs>>,
             NEW c, call' = [call EXCEPT ![n] = c], c.pc \in {"on", "persist"} => pendingSubs[n] = 0
      PROVE  OneEntry'
  BY <1>1, <1>3 DEF Bound, Typed, OneEntry
<1>4. Idle.pc = "idle"  BY DEF Idle
<1>5. ASSUME NEW n \in Nodes, PersistArmed(n) \/ UpsertCron(n) \/ DeleteCron(n) \/ UpsertEventSub(n) \/ DeleteEventSub(n)
                              \/ RegisterCron(n) \/ RemoveCron(n) \/ WriteFails(n)
      PROVE  OneEntry'
  <2>1. UNCHANGED <<subs, pendingSubs, up>> /\ up[n]
    BY <1>5 DEF PersistArmed, UpsertCron, DeleteCron, UpsertEventSub, DeleteEventSub, RegisterCron, RemoveCron,
                WriteFails, engine, Calling
  <2>2. \E c : call' = [call EXCEPT ![n] = c] /\ (c.pc \in {"on", "persist"} => call[n].pc = "persist")
    <3>1. /\ [Idle EXCEPT !.pc = "deleteCron"].pc = "deleteCron"
          /\ [pc |-> "upsertCron", then |-> "idle", next |-> SchedNext(now)].pc = "upsertCron"
      BY DEF Idle
    <3> QED
      BY <1>4, <1>5, <3>1 DEF PersistArmed, UpsertCron, DeleteCron, UpsertEventSub, DeleteEventSub, RegisterCron,
                  RemoveCron, WriteFails, Return, Goto, Calling
  <2>3. PICK c : call' = [call EXCEPT ![n] = c] /\ (c.pc \in {"on", "persist"} => call[n].pc = "persist")
    BY <2>2
  <2> QED  BY <1>1, <1>3, <2>1, <2>3
<1>6. ASSUME NEW n \in Nodes, NEW op \in Ops, RegisterTask(n, op)
      PROVE  OneEntry'
  <2>1. /\ subs' = [subs EXCEPT ![n] = subs[n] + pendingSubs[n]]
        /\ pendingSubs' = [pendingSubs EXCEPT ![n] = 0]
        /\ UNCHANGED up /\ up[n]
        /\ \E c : call' = [call EXCEPT ![n] = c]
    BY <1>6 DEF RegisterTask, Calling, Goto
  <2> QED  BY <1>1, <2>1 DEF Bound, Typed, OneEntry
<1>7. ASSUME NEW n \in Nodes, RegisterEvent(n)
      PROVE  OneEntry'
  <2>1. /\ subs' = [subs EXCEPT ![n] = IF subs[n] = 0 THEN 1 ELSE subs[n]]
        /\ UNCHANGED <<up, pendingSubs>> /\ up[n] /\ call[n].pc = "on"
        /\ call' = [call EXCEPT ![n] = [Idle EXCEPT !.pc = "upsertSub"]]
    BY <1>7 DEF RegisterEvent, Calling, Goto
  <2>2. [Idle EXCEPT !.pc = "upsertSub"].pc = "upsertSub"  BY DEF Idle
  <2>3. pendingSubs[n] = 0  BY <1>1, <2>1
  <2> QED  BY <1>1, <2>1, <2>2, <2>3 DEF Bound, Typed, OneEntry
<1>8. ASSUME NEW n \in Nodes, RemoveEvent(n)
      PROVE  OneEntry'
  <2>1. /\ subs' = [subs EXCEPT ![n] = IF subs[n] = 0 THEN 0 ELSE subs[n] - 1]
        /\ pendingSubs' = [pendingSubs EXCEPT ![n] = IF pendingSubs[n] = 0 THEN 0 ELSE pendingSubs[n] - 1]
        /\ UNCHANGED up /\ up[n]
        /\ call' = [call EXCEPT ![n] = [Idle EXCEPT !.pc = "deleteSub"]]
    BY <1>8 DEF RemoveEvent, Calling, Goto
  <2>2. [Idle EXCEPT !.pc = "deleteSub"].pc = "deleteSub"  BY DEF Idle
  <2>3. /\ (IF subs[n] = 0 THEN 0 ELSE subs[n] - 1) <= subs[n]
        /\ (IF pendingSubs[n] = 0 THEN 0 ELSE pendingSubs[n] - 1) <= pendingSubs[n]
        /\ (IF subs[n] = 0 THEN 0 ELSE subs[n] - 1) \in Nat
        /\ (IF pendingSubs[n] = 0 THEN 0 ELSE pendingSubs[n] - 1) \in Nat
    BY <1>1
  <2> QED  BY <1>1, <2>1, <2>2, <2>3 DEF Bound, Typed, OneEntry
<1>9. ASSUME NEW n \in Nodes, Start(n)
      PROVE  OneEntry'
  <2>1. /\ UNCHANGED <<subs, call>> /\ ~up[n] /\ up' = [up EXCEPT ![n] = TRUE]
        /\ pendingSubs' = [pendingSubs EXCEPT ![n] = IF bound THEN 1 ELSE 0]
    BY <1>9 DEF Start
  <2>2. PICK v \in {0, 1} : pendingSubs' = [pendingSubs EXCEPT ![n] = v]  BY <2>1
  <2>3. subs[n] = 0 /\ call[n].pc = "idle"  BY <1>1, <2>1
  <2> QED  BY <1>1, <2>1, <2>2, <2>3 DEF Bound, Typed, OneEntry
<1>10. ASSUME NEW n \in Nodes, Stop(n)
       PROVE  OneEntry'
  <2>1. /\ subs' = [subs EXCEPT ![n] = 0] /\ pendingSubs' = [pendingSubs EXCEPT ![n] = 0]
        /\ call' = [call EXCEPT ![n] = Idle] /\ up' = [up EXCEPT ![n] = FALSE]
    BY <1>10 DEF Stop
  <2> QED  BY <1>1, <1>4, <2>1 DEF Bound, Typed, OneEntry
<1>11. CASE Tick \/ UNCHANGED vars  BY <1>2, <1>11 DEF Tick, vars, engine
<1>12. ASSUME NEW n \in Nodes, CronLoop(n) \/ FireFails(n) \/ Emit(n) \/ EmitEnqueue(n)
       PROVE  OneEntry'
  BY <1>2, <1>12 DEF CronLoop, CronDue, TakeEntry, FireCron, Advance, FireFails, Emit, EmitEnqueue, engine
<1> QED
  BY <1>5, <1>6, <1>7, <1>8, <1>9, <1>10, <1>11, <1>12 DEF Next, CallStep

LEMMA CoveredStep ==
    ASSUME Bound, [Next]_vars
    PROVE  Covered'
<1>1. /\ IsFiniteSet(Debtors) /\ Cardinality(Debtors) \in Nat /\ runs \in Nat /\ emits \in Nat
      /\ runs + Cardinality(Debtors) <= emits
      /\ owed \in [Nodes -> Nat] /\ \A n \in Nodes : owed[n] <= 1
  BY FS_CardinalityType DEF Bound, Typed, Covered
<1>2. CASE UNCHANGED <<owed, runs, emits>>
  BY <1>2 DEF Bound, Covered, Debtors
<1>3. ASSUME NEW n \in Nodes, Emit(n)
      PROVE  Covered'
  <2>1. owed[n] = 0 /\ emits' = emits + 1 /\ owed' = [owed EXCEPT ![n] = subs[n]] /\ runs' = runs
    BY <1>3 DEF Emit
  <2>2. subs[n] \in Nat /\ subs[n] <= 1  BY DEF Bound, Typed, OneEntry
  <2>3. \A m \in Nodes : owed'[m] <= 1  BY <1>1, <2>1, <2>2
  <2>4. Debtors' \subseteq Debtors \cup {n}  BY <1>1, <2>1 DEF Debtors
  <2>5. n \notin Debtors  BY <2>1 DEF Debtors
  <2>6. IsFiniteSet(Debtors \cup {n}) /\ Cardinality(Debtors \cup {n}) = Cardinality(Debtors) + 1
    BY <1>1, <2>5, FS_AddElement
  <2>7. IsFiniteSet(Debtors') /\ Cardinality(Debtors') <= Cardinality(Debtors) + 1 /\ Cardinality(Debtors') \in Nat
    BY <2>4, <2>6, FS_Subset, FS_CardinalityType
  <2>8. runs' + Cardinality(Debtors') <= emits'  BY <1>1, <2>1, <2>7
  <2> QED  BY <2>3, <2>7, <2>8 DEF Covered
<1>4. ASSUME NEW n \in Nodes, EmitEnqueue(n)
      PROVE  Covered'
  <2>1. owed[n] > 0 /\ emits' = emits /\ owed' = [owed EXCEPT ![n] = owed[n] - 1] /\ runs' = runs + 1
    BY <1>4 DEF EmitEnqueue
  <2>2. owed[n] = 1  BY <1>1, <2>1
  <2>3. \A m \in Nodes : owed'[m] <= 1  BY <1>1, <2>1, <2>2
  <2>4. n \in Debtors /\ Debtors' = Debtors \ {n}  BY <1>1, <2>1, <2>2 DEF Debtors
  <2>5. IsFiniteSet(Debtors') /\ Cardinality(Debtors') = Cardinality(Debtors) - 1
    BY <1>1, <2>4, FS_RemoveElement
  <2>6. runs' + Cardinality(Debtors') <= emits'  BY <1>1, <2>1, <2>5
  <2> QED  BY <2>3, <2>5, <2>6 DEF Covered
<1>5. ASSUME NEW n \in Nodes, Stop(n)
      PROVE  Covered'
  <2>1. owed' = [owed EXCEPT ![n] = 0] /\ UNCHANGED <<runs, emits>>  BY <1>5 DEF Stop, hist
  <2>2. \A m \in Nodes : owed'[m] <= 1  BY <1>1, <2>1
  <2>3. Debtors' \subseteq Debtors  BY <1>1, <2>1 DEF Debtors
  <2>4. IsFiniteSet(Debtors') /\ Cardinality(Debtors') <= Cardinality(Debtors) /\ Cardinality(Debtors') \in Nat
    BY <1>1, <2>3, FS_Subset, FS_CardinalityType
  <2>5. runs' + Cardinality(Debtors') <= emits'  BY <1>1, <2>1, <2>4
  <2> QED  BY <2>2, <2>4, <2>5 DEF Covered
<1>6. CASE Tick \/ UNCHANGED vars  BY <1>2, <1>6 DEF Tick, vars, hist
<1>7. ASSUME NEW n \in Nodes, CallStep(n) \/ RemoveCron(n) \/ RemoveEvent(n) \/ WriteFails(n) \/ Start(n)
                              \/ \E op \in Ops : RegisterTask(n, op)
      PROVE  Covered'
  BY <1>2, <1>7 DEF CallStep, PersistArmed, RegisterCron, UpsertCron, DeleteCron, RegisterEvent, UpsertEventSub,
                    DeleteEventSub, RemoveCron, RemoveEvent, WriteFails, Start, RegisterTask, hist
<1>8. ASSUME NEW n \in Nodes, CronLoop(n) \/ FireFails(n)
      PROVE  Covered'
  BY <1>2, <1>8 DEF CronLoop, CronDue, TakeEntry, FireCron, Advance, FireFails, hist
<1> QED  BY <1>3, <1>4, <1>5, <1>6, <1>7, <1>8 DEF Next

\* Emit, RegisterTask, RegisterEvent, RemoveEvent and a restart's load: an Emit
\* starts at most one run for the binding, whatever the others do to the list of
\* entries it copies.
THEOREM OneRunPerEvent == Spec => []OneRunPerEmit
<1>1. Init => Bound
  <2> SUFFICES ASSUME Init PROVE Bound  OBVIOUS
  <2>1. Idle.pc = "idle"  BY DEF Idle
  <2>2. OneEntry  BY <2>1 DEF Init, OneEntry
  <2>3. Debtors = {}  BY DEF Init, Debtors
  <2>4. Covered  BY <2>3, FS_EmptySet DEF Init, Covered
  <2> QED  BY <2>2, <2>4, TypedInit DEF Bound
<1>2. Bound /\ [Next]_vars => Bound'
  <2> SUFFICES ASSUME Bound, [Next]_vars PROVE Bound'  OBVIOUS
  <2>1. Typed'  BY TypedStep DEF Bound
  <2> QED  BY <2>1, EntriesStep, CoveredStep DEF Bound
<1>3. Bound => OneRunPerEmit
  <2> SUFFICES ASSUME Bound PROVE OneRunPerEmit  OBVIOUS
  <2>1. Cardinality(Debtors) \in Nat  BY FS_CardinalityType DEF Bound, Covered
  <2> QED  BY <2>1 DEF Bound, Typed, Covered, OneRunPerEmit
<1> QED  BY <1>1, <1>2, <1>3, PTL DEF Spec

=============================================================================
