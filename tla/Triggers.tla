------------------------------ MODULE Triggers ------------------------------
(***************************************************************************)
(* Persisted triggers: one cron and one event binding, both for the same   *)
(* task, on engines that share a store.                                    *)
(*                                                                         *)
(* Start loads the stored triggers as pending; registering the task arms   *)
(* them.  An API call changes the engine's memory under e.mu and writes    *)
(* the database afterwards, so its sections are actions of their own.  A   *)
(* pass of the cron loop notes that the cron is due, fires the occurrence  *)
(* by compare-and-swap on next_at, and then advances its own copy.         *)
(***************************************************************************)
EXTENDS Integers, FiniteSets

CONSTANTS Nodes,
          Period,    \* of the schedule
          MaxTime,   \* the clock stops here
          Prompt,    \* calls, scans and loop passes keep up with the clock: see Tick
          Budgets,   \* how often each kind of call, crash and error happens: one is chosen
          NoRow      \* next_at of a cron that is not stored

Ops == {"register", "cron", "on", "removeCron", "off", "emit", "crash", "start", "error"}

ASSUME TriggersAssumption ==
    /\ Period \in Nat \ {0} /\ MaxTime \in Nat
    /\ Budgets \subseteq [Ops -> Nat]
    /\ NoRow \notin Int

VARIABLES
    now,
    every,     \* the spec is "@every <period>"; otherwise occurrences are multiples of it
    stored,    \* crons.next_at
    bound,     \* the event_subscriptions row exists
    up, task,  \* the engine runs; the task is registered in it
    cron,      \* the entry: "none", "pending" (e.pendingCrons) or "armed" (e.crons)
    next,      \* its next time
    subs, pendingSubs,   \* how many entries e.eventSubs and e.pendingSubs hold
    loop,      \* the cron loop: [pc, at, expect, held]; held: its entry is still in e.crons
    call,      \* the API call in progress: [pc, then, next]
    owed,      \* bindings an Emit has still to enqueue
    budget,
    fires,     \* history: how often each occurrence fired
    overtaken, \* history: registrations between a scan of the loop and its lookup
    lost, emits, runs    \* history: failed writes, Emit calls, the runs they enqueued

engine == <<up, task, cron, next, subs, pendingSubs>>
rows   == <<stored, bound>>
hist   == <<fires, overtaken, lost, emits, runs>>
vars   == <<now, every, rows, engine, loop, call, owed, budget, hist>>

Idle  == [pc |-> "idle", then |-> "idle", next |-> 0]
Wait  == [pc |-> "wait", at |-> 0, expect |-> 0, held |-> FALSE]

Spend(op) == budget[op] > 0 /\ budget' = [budget EXCEPT ![op] = @ - 1]

\* everySchedule.Next and the standard schedule's, which parseCron tells apart.
SchedNext(t) == IF every THEN t + Period ELSE (t \div Period + 1) * Period

-----------------------------------------------------------------------------
(* API calls.                                                              *)

Calling(n, pc) == up[n] /\ call[n].pc = pc
Return(n)      == call' = [call EXCEPT ![n] = Idle]
Goto(n, c)     == call' = [call EXCEPT ![n] = c]

\* RegisterTask, alone or as the first part of RegisterCron and RegisterEvent,
\* under e.mu: what waited for the task is armed; a missed time is recomputed.
RegisterTask(n, op) ==
    LET armed == cron[n] = "pending"
        t     == IF next[n] > now THEN next[n] ELSE SchedNext(now)
    IN /\ op \in {"register", "cron", "on"}
       /\ Calling(n, "idle") /\ Spend(op)
       /\ task' = [task EXCEPT ![n] = TRUE]
       /\ subs' = [subs EXCEPT ![n] = @ + pendingSubs[n]]
       /\ pendingSubs' = [pendingSubs EXCEPT ![n] = 0]
       /\ IF armed THEN /\ cron' = [cron EXCEPT ![n] = "armed"]
                        /\ next' = [next EXCEPT ![n] = t]
                        /\ Goto(n, [pc |-> "persist", then |-> op, next |-> t])
                   ELSE /\ Goto(n, IF op = "register" THEN Idle ELSE [pc |-> op, then |-> "idle", next |-> 0])
                        /\ UNCHANGED <<cron, next>>
       /\ UNCHANGED <<now, every, rows, up, loop, owed, hist>>

\* persistArmedCrons writes the time back whatever became of the row.
PersistArmed(n) ==
    /\ Calling(n, "persist")
    /\ stored' = call[n].next
    /\ Goto(n, IF call[n].then = "register" THEN Idle ELSE [call[n] EXCEPT !.pc = call[n].then])
    /\ UNCHANGED <<now, every, bound, engine, loop, owed, budget, hist>>

\* RegisterCron's section under e.mu: a new entry.  The cron loop may hold the old
\* one, or have found it due and be about to look the new one up.
RegisterCron(n) ==
    /\ Calling(n, "cron")
    /\ cron' = [cron EXCEPT ![n] = "armed"]
    /\ next' = [next EXCEPT ![n] = SchedNext(now)]
    /\ loop' = [loop EXCEPT ![n].held = FALSE]
    /\ overtaken' = IF loop[n].pc = "due" THEN overtaken + 1 ELSE overtaken
    /\ Goto(n, [pc |-> "upsertCron", then |-> "idle", next |-> SchedNext(now)])
    /\ UNCHANGED <<now, every, rows, up, task, subs, pendingSubs, owed, budget, fires, lost, emits, runs>>

UpsertCron(n) ==
    /\ Calling(n, "upsertCron")
    /\ stored' = call[n].next
    /\ Return(n)
    /\ UNCHANGED <<now, every, bound, engine, loop, owed, budget, hist>>

\* RemoveCron deletes the entry, armed or pending, then the row.
RemoveCron(n) ==
    /\ Calling(n, "idle") /\ Spend("removeCron")
    /\ cron' = [cron EXCEPT ![n] = "none"]
    /\ loop' = [loop EXCEPT ![n].held = FALSE]
    /\ Goto(n, [Idle EXCEPT !.pc = "deleteCron"])
    /\ UNCHANGED <<now, every, rows, up, task, next, subs, pendingSubs, owed, hist>>

DeleteCron(n) ==
    /\ Calling(n, "deleteCron")
    /\ stored' = NoRow
    /\ Return(n)
    /\ UNCHANGED <<now, every, bound, engine, loop, owed, budget, hist>>

\* Mutant: the binding is appended without looking for it.
AppendSub(n) ==
    /\ Calling(n, "on")
    /\ subs' = [subs EXCEPT ![n] = @ + 1]
    /\ Goto(n, [Idle EXCEPT !.pc = "upsertSub"])
    /\ UNCHANGED <<now, every, rows, up, task, cron, next, pendingSubs, loop, owed, budget, hist>>

\* RegisterEvent's section under e.mu: the first entry of the pair is refreshed,
\* otherwise one is added.
RegisterEvent(n) ==
    /\ Calling(n, "on")
    /\ subs' = [subs EXCEPT ![n] = IF @ = 0 THEN 1 ELSE @]
    /\ Goto(n, [Idle EXCEPT !.pc = "upsertSub"])
    /\ UNCHANGED <<now, every, rows, up, task, cron, next, pendingSubs, loop, owed, budget, hist>>

UpsertEventSub(n) ==
    /\ Calling(n, "upsertSub")
    /\ bound' = TRUE
    /\ Return(n)
    /\ UNCHANGED <<now, every, stored, engine, loop, owed, budget, hist>>

\* RemoveEvent drops one entry of each list, then the row.
RemoveEvent(n) ==
    /\ Calling(n, "idle") /\ Spend("off")
    /\ subs' = [subs EXCEPT ![n] = IF @ = 0 THEN 0 ELSE @ - 1]
    /\ pendingSubs' = [pendingSubs EXCEPT ![n] = IF @ = 0 THEN 0 ELSE @ - 1]
    /\ Goto(n, [Idle EXCEPT !.pc = "deleteSub"])
    /\ UNCHANGED <<now, every, rows, up, task, cron, next, loop, owed, hist>>

DeleteEventSub(n) ==
    /\ Calling(n, "deleteSub")
    /\ bound' = FALSE
    /\ Return(n)
    /\ UNCHANGED <<now, every, stored, engine, loop, owed, budget, hist>>

\* A write fails.  RegisterCron and RegisterTask ignore it, the others report
\* it; memory stays as it is either way.
WriteFails(n) ==
    /\ up[n] /\ call[n].pc \in {"persist", "upsertCron", "deleteCron", "upsertSub", "deleteSub"}
    /\ Spend("error") /\ lost' = lost + 1
    /\ Goto(n, IF call[n].pc = "persist" /\ call[n].then # "register"
               THEN [call[n] EXCEPT !.pc = call[n].then] ELSE Idle)
    /\ UNCHANGED <<now, every, rows, engine, loop, owed, fires, overtaken, emits, runs>>

\* Emit after DeliverEvent (DurableJournal): a copy of the armed bindings, then
\* one enqueue for each.
Emit(n) ==
    /\ up[n] /\ owed[n] = 0 /\ Spend("emit")
    /\ emits' = emits + 1
    /\ owed' = [owed EXCEPT ![n] = subs[n]]
    /\ UNCHANGED <<now, every, rows, engine, loop, call, fires, overtaken, lost, runs>>

EmitEnqueue(n) ==
    /\ up[n] /\ owed[n] > 0
    /\ owed' = [owed EXCEPT ![n] = @ - 1] /\ runs' = runs + 1
    /\ UNCHANGED <<now, every, rows, engine, loop, call, budget, fires, overtaken, lost, emits>>

-----------------------------------------------------------------------------
(* The cron loop.                                                          *)

\* cronTick's scan, under e.mu, finds the cron due.
CronDue(n) ==
    /\ up[n] /\ loop[n].pc = "wait"
    /\ cron[n] = "armed" /\ next[n] <= now
    /\ loop' = [loop EXCEPT ![n] = [Wait EXCEPT !.pc = "due", !.at = now]]
    /\ UNCHANGED <<now, every, rows, engine, call, owed, budget, hist>>

\* The lookup by name, under e.mu again: the entry may be another by now, or gone.
TakeEntry(n) ==
    /\ up[n] /\ loop[n].pc = "due"
    /\ loop' = [loop EXCEPT ![n] = IF cron[n] # "armed" THEN Wait
                                   ELSE [@ EXCEPT !.pc = "fire", !.expect = next[n], !.held = TRUE]]
    /\ UNCHANGED <<now, every, rows, engine, call, owed, budget, hist>>

\* Mutant: every node that finds the occurrence due enqueues it.
FireAlways(n) ==
    /\ up[n] /\ loop[n].pc = "fire"
    /\ IF stored # NoRow
       THEN stored' = SchedNext(loop[n].at) /\ fires' = [fires EXCEPT ![loop[n].expect] = @ + 1]
       ELSE UNCHANGED <<stored, fires>>
    /\ loop' = [loop EXCEPT ![n].pc = "fired"]
    /\ UNCHANGED <<now, every, bound, engine, call, owed, budget, overtaken, lost, emits, runs>>

\* FireCron, one transaction: the row's next_at decides, and the run is inserted.
FireCron(n) ==
    /\ up[n] /\ loop[n].pc = "fire"
    /\ IF stored = loop[n].expect
       THEN stored' = SchedNext(loop[n].at) /\ fires' = [fires EXCEPT ![loop[n].expect] = @ + 1]
       ELSE UNCHANGED <<stored, fires>>
    /\ loop' = [loop EXCEPT ![n].pc = "fired"]
    /\ UNCHANGED <<now, every, bound, engine, call, owed, budget, overtaken, lost, emits, runs>>

\* FireCron fails: nothing is fired, and the loop goes on as if it had been.
FireFails(n) ==
    /\ up[n] /\ loop[n].pc = "fire"
    /\ Spend("error") /\ lost' = lost + 1
    /\ loop' = [loop EXCEPT ![n].pc = "fired"]
    /\ UNCHANGED <<now, every, rows, engine, call, owed, fires, overtaken, emits, runs>>

\* Mutant: the next time is taken after the occurrence that is already stored.
AdvanceTwice(n) ==
    /\ up[n] /\ loop[n].pc = "fired"
    /\ next' = [next EXCEPT ![n] = IF loop[n].held THEN SchedNext(SchedNext(loop[n].at)) ELSE @]
    /\ loop' = [loop EXCEPT ![n] = Wait]
    /\ UNCHANGED <<now, every, rows, up, task, cron, subs, pendingSubs, call, owed, budget, hist>>

\* The loop's own entry moves on, fired here, elsewhere or not at all.
Advance(n) ==
    /\ up[n] /\ loop[n].pc = "fired"
    /\ next' = [next EXCEPT ![n] = IF loop[n].held THEN SchedNext(loop[n].at) ELSE @]
    /\ loop' = [loop EXCEPT ![n] = Wait]
    /\ UNCHANGED <<now, every, rows, up, task, cron, subs, pendingSubs, call, owed, budget, hist>>

-----------------------------------------------------------------------------
(* Engines start and stop; time passes.                                    *)

\* Start: loadPersistedCrons and loadPersistedSubs, before any call.
Start(n) ==
    /\ ~up[n] /\ Spend("start")
    /\ up' = [up EXCEPT ![n] = TRUE]
    /\ cron' = [cron EXCEPT ![n] = IF stored = NoRow THEN "none" ELSE "pending"]
    /\ next' = [next EXCEPT ![n] = IF stored = NoRow THEN 0 ELSE stored]
    /\ pendingSubs' = [pendingSubs EXCEPT ![n] = IF bound THEN 1 ELSE 0]
    /\ UNCHANGED <<now, every, rows, task, subs, loop, call, owed, hist>>

\* A crash, or Close: memory is gone, calls and the loop's pass are cut off.
Stop(n) ==
    /\ up[n] /\ Spend("crash")
    /\ up' = [up EXCEPT ![n] = FALSE] /\ task' = [task EXCEPT ![n] = FALSE]
    /\ cron' = [cron EXCEPT ![n] = "none"] /\ next' = [next EXCEPT ![n] = 0]
    /\ subs' = [subs EXCEPT ![n] = 0] /\ pendingSubs' = [pendingSubs EXCEPT ![n] = 0]
    /\ loop' = [loop EXCEPT ![n] = Wait] /\ call' = [call EXCEPT ![n] = Idle]
    /\ owed' = [owed EXCEPT ![n] = 0]
    /\ UNCHANGED <<now, every, rows, hist>>

\* Prompt: when the clock advances no call is between its memory and its write, no
\* loop between its scan and its lookup, and none a whole period behind.
Tick ==
    /\ now < MaxTime
    /\ Prompt => \A n \in Nodes : /\ call[n].pc = "idle" /\ loop[n].pc # "due"
                                  /\ up[n] /\ cron[n] = "armed" => now + 1 < next[n] + Period
    /\ now' = now + 1
    /\ UNCHANGED <<every, rows, engine, loop, call, owed, budget, hist>>

-----------------------------------------------------------------------------
Init ==
    /\ now = 0 /\ every \in BOOLEAN
    /\ stored = NoRow /\ bound = FALSE
    /\ up = [n \in Nodes |-> FALSE] /\ task = [n \in Nodes |-> FALSE]
    /\ cron = [n \in Nodes |-> "none"] /\ next = [n \in Nodes |-> 0]
    /\ subs = [n \in Nodes |-> 0] /\ pendingSubs = [n \in Nodes |-> 0]
    /\ loop = [n \in Nodes |-> Wait] /\ call = [n \in Nodes |-> Idle]
    /\ owed = [n \in Nodes |-> 0]
    /\ budget \in Budgets
    /\ fires = [o \in 0 .. MaxTime + Period |-> 0]
    /\ overtaken = 0 /\ lost = 0 /\ emits = 0 /\ runs = 0

CallStep(n) == \/ PersistArmed(n) \/ RegisterCron(n) \/ UpsertCron(n) \/ DeleteCron(n)
               \/ RegisterEvent(n) \/ UpsertEventSub(n) \/ DeleteEventSub(n)
CronLoop(n) == CronDue(n) \/ TakeEntry(n) \/ FireCron(n) \/ Advance(n)

Next == \/ Tick
        \/ \E n \in Nodes : \/ CallStep(n) \/ CronLoop(n) \/ WriteFails(n) \/ FireFails(n)
                            \/ \E op \in Ops : RegisterTask(n, op)
                            \/ RemoveCron(n) \/ RemoveEvent(n) \/ Emit(n) \/ EmitEnqueue(n)
                            \/ Start(n) \/ Stop(n)

\* Time passes and goroutines run; nobody owes a call.
Spec == /\ Init /\ [][Next]_vars
        /\ WF_vars(Tick)
        /\ \A n \in Nodes : WF_vars(CallStep(n)) /\ WF_vars(CronLoop(n))

-----------------------------------------------------------------------------
(* Properties.                                                             *)

\* FireCron's compare-and-swap: however many nodes hold the cron, whoever
\* registers, removes, crashes or restarts, an occurrence starts one run.  Only a
\* registration that falls between a scan and its lookup can add one: the pass then
\* fires the new entry's occurrence ahead of its time, and it stays due.
OncePerOccurrence == \A o \in DOMAIN fires : fires[o] <= 1 + overtaken

\* Emit starts one run for the binding, although RegisterTask, RegisterEvent,
\* a restart's load and RemoveEvent each edit the list of entries it copies.
OneRunPerEmit == runs <= emits

\* The stored occurrence of a calendar cron is not left behind while an engine
\* has the cron armed: whoever loses a race, dies or joins, some engine's own
\* copy still meets the row.  Writes that fail are excepted.
OccurrencePasses ==
    \A o \in {t \in 1 .. MaxTime : t % Period = 0} :
        (stored = o /\ ~every /\ lost = 0 /\ \E n \in Nodes : up[n] /\ cron[n] = "armed") ~>
        (stored # o \/ lost > 0 \/ \A n \in Nodes : ~up[n] \/ cron[n] # "armed")

-----------------------------------------------------------------------------
(* What the repository says of the code and the code does not keep.        *)

\* "So exactly one node fires each occurrence across the cluster": no occurrence
\* starts two runs.
ExactlyOnce == \A o \in DOMAIN fires : fires[o] <= 1
=============================================================================
