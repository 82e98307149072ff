# A TLA+ model of Quacker

Quacker is an embeddable task and workflow engine in Go: tasks are enqueued as
*runs* of one or more *steps*, stored in SQL (SQLite in one process, Postgres or
MySQL with several workers), claimed by a scheduler and executed by goroutines.
This directory holds a model of it in TLA+, the TLC runs that check the model on
small instances, and proofs checked by TLAPS.

## 1. The system

| Component | State it keeps | Operations | Interacts with | What is hard | What makes it correct |
|---|---|---|---|---|---|
| Store transactions (`internal/store/queries.go`) | `runs`, `steps` tables | claim, complete, unblock, retry, park, final failure, cancel, pause, resume, dead letters, purge | called by every other part; one writer connection, one transaction each | each transaction re-checks only part of what its caller saw before | a run's outcome is decided once and by all its steps; dependency order; finished work is kept |
| Executor (`engine.go: execute`) | its claimed step, the result of the body | park, register, halt check, pause check, body, suspend, outcome switch, deferred cleanup | store; `e.cancels`, `e.haltSteps`, `e.pauseSteps` under `e.mu` | reads of the run's status used in a later write | one executor per step; retries within the budget; a pause is not an attempt |
| Client calls (`Cancel`, `PauseRun`, `ResumeRun`, enqueue) | waiters, tombstones, marks | a transaction, then a critical section of `e.mu` | executors, completer | everything can happen between the two halves | the handle is answered, once, with what the row says |
| Completer (`completer.go`) | pending successes | submit, flush, stop, direct write | executors, Close | the stop races late successes | no success is dropped |
| Shutdown (`Close`, `InterruptAll`) | `closing`, the stages of Close | drain, stop completer, sweep, release waiters | all goroutines | drain timeout, late finishers | no open handle after Close; no success or outcome overwritten |
| Boot recovery (`schema.go: recoverInterrupted`) | the rows of a dead process | requeue or fail what was cut off | store | a crash at any point, repeatedly | nothing lost, nothing redone that had succeeded |
| Dead letters, ephemeral runs, retention | `dead_lettered_at`, `ephemeral` | retry, dismiss, delete, purge | store; executors that outlive the run | rows revived or removed under live executors | no ghost outcome |
| Durable steps (`durable.go`, `journal.go`) | journal entries, `SUSPENDED` rows | sleep, run-once, wait, timeout, replay | executor, events | replay after a crash; event against timeout | an entry is decided once; replay returns what was recorded |
| Events (`events.go`) | subscriptions, events | emit, subscribe, remove | journal, enqueue | emission around a suspension | every matching waiter is woken |
| Claim gates (`claimQueueTx`) | keys, rate windows, sequences, paused queues, labels | predicates of the candidate query and of each UPDATE | scheduler | several candidates of one transaction | limits never exceeded; nothing starves; sequences in order |
| Enqueue policies (`createRunsUniqueTx`, `applyConcurrencyStrategy`) | unique keys, the sequence counter | reuse, reject, replace, cancel | store, waiters | two enqueues of one key under READ COMMITTED | one live run per key; no more runs of a key than its limit |
| Scheduler (`schedulerLoop`, `tick`, `idleWait`, wakes) | `e.wake`, `e.urgent`, `e.paused`, next due | tick, sleep, wake | everything that makes work due | a wake lost between the look and the sleep | due work is claimed, and not late |
| Leases (`heartbeatLoop`, `reapLoop`) | worker id and lease of a step | claim, heartbeat, reap, sweep of one worker | several nodes on one database | a slow worker against the reaper; a node's Close against its peers | one executor per lease; a dead node's work is recovered |
| Cron (`cron.go`) | `next_at`, the armed and pending entries | register, arm, tick, compare-and-set, remove | enqueue | several nodes, restarts, stale entries | one run per occurrence; no occurrence stuck |
| Event bindings (`events.go`) | `e.eventSubs`, `e.pendingSubs`, their table | register, arm, remove, emit | enqueue | three ways into one list | one run per emit |
| Sessions (`store.Open`, `lock.go`, `schema.go: migrate`, the end of `Close`) | lock registry, kernel lock, pools, schema version, log channel | open, migrate, close, log, flush | every other process on the file | failing Opens, overlapping Closes, late log lines | one writer; nothing left behind; accepted lines kept |
| Workflow graphs (`workflow.go`, `engine/dag.go`, `dag.go`, `dag_svg.go`) | none (pure) | lower groups, validate, draw | enqueue | duplicates, empty groups, cycles through groups | accepted means ordered; drawings do not overlap |
| Event bus (`bus.go`) | subscribers | subscribe, publish | nothing reads it back | drops by design | |

Codecs, options, middleware and the remaining wrappers keep no state that a property
could be about; `PROJECT.json` lists every component with its status.

## 2. Modules

| Module | What it is |
|---|---|
| `RunLifecycle` | one engine over its single-writer store: enqueue, claim, execute, complete, cancel, pause, suspend, fail, dead-letter, purge, close, crash and reopen |
| `MCRunLifecycle` | instances of it for TLC |
| `RunLifecycleProofs` | types, ownership, and what happens to a run's row, to its handle and to its steps, proved |
| `AwaitOnce` | what `WaitFor` promises: each wait is settled once and every replay is told the outcome |
| `DurableJournal` | one durable step: its row, its journal, the executors that replay its task, against Emit, timeouts, crashes, redeployed code, revivals and a clock set back |
| `MCDurableJournal` | instances of it for TLC |
| `DurableJournalProofs` | its theorems and their proofs, the refinement of `AwaitOnce` included |
| `Cluster` | several engines on one Postgres or MySQL database: leases, heartbeats, the reaper, the sweep of one worker, crashes and restarts |
| `Admission` | what may enter and what may start: unique keys, concurrency strategies, sequences, and the gates of the claim |
| `Dispatch` | one scheduler loop on a clock: its sleeps, its wakes and the calls that make work due |
| `Triggers` | one cron and one event binding on engines that share a store |
| `Session` | Opens and Closes of one database: file lock, pools, migrations, log flusher |
| `Workflows` | the pure part: groups lowered to dependencies, validation, the graph and its layout |
| `MCCluster`, `MCAdmission`, `MCDispatch`, `MCTriggers`, `MCSession`, `MCWorkflows` | instances of these for TLC |
| `ClusterProofs`, `AdmissionProofs`, `DispatchProofs`, `TriggersProofs`, `SessionProofs`, `WorkflowsProofs` | theorems about these modules, and their proofs |

The modules are lenses on one system and share their boundary rather than their state.
`RunLifecycle` is the centre: it lets any slot claim any due step, which includes every
choice the gates of `Admission`, the scheduler of `Dispatch` and the fleet of `Cluster`
make. Each of the others keeps what its own question needs of the run and step tables and
leaves the executor's cancellation protocol to `RunLifecycle`, as their headers say.

### How `RunLifecycle` corresponds to the code

*State.* `runStatus`, `dead`, `stepStatus`, `attempts`, `waitKind` are columns of
the two tables ("NEW" and "DELETED" stand for rows that do not exist yet or any
more). `cancels`, `haltSteps`, `pauseSteps`, `waiters` are the maps under `e.mu`;
`pending` is `e.cmplPending`; `finishing` are recorded outcomes whose waiters the
completer has yet to release. `ex[w]` is the goroutine in slot `w`: where it is in
`execute`, its step, the attempt number it read at the claim, the result of the
body, and whether its context is cancelled. `calls` are client calls between their
transaction and their critical section. `mode` is the stage of `Close`.
`registered` says whether this process has registered its tasks. `budget` counts
down the bounded calls and faults; `fails` is a history variable.

*Atomicity.* One store method is one transaction on one connection, so it is one
action. One critical section of `e.mu` is one action. Whatever the code reads in
one and uses in the next (the tombstone, the pause mark, `runTerminal`,
`closing`, the attempt count) is kept in `ex[w].pc` and `ex[w]`, so that every
other goroutine may act in between. Cancel functions are called just after `e.mu`
is released in the code and inside the action here; a context that ends a moment
later is a body that has not looked at it yet, which the model allows anyway.

*Abstraction.* Times are not kept: `run_at`, backoff and `resume_at` mean that a
row may be due at any moment. A step's timeout is an ordinary error of its body.
Snoozing a run therefore changes nothing here. All steps share one queue and one
`MaxAttempts`; the claim gates are left out, so any slot may claim any due step.
A body may return success, an error, its context's cancellation (only when the
context has ended) or a hook's veto, or suspend. The completer's batch is recorded
entry by entry, which allows the orders of both the batched and the one-by-one
path. Crashes happen between transactions (SQLite rolls back an open one).

*Unique keys.* `Unique` are runs enqueued with a unique key in replace mode. Their
enqueue may replace the live run that holds the key (`Holder`): in its one transaction
(`replaceAndInsert`) `replaceRunTx` cancels that run with every active step, the RUNNING
ones too, and keeps its rows even if it is ephemeral, which no other end of such a run
does; the engine then interrupts the old run's local executors as Cancel does. Which run
holds which key is left open. A concurrency strategy that cancels a live run ends it as
Cancel does. When an enqueue replaces, drops or cancels is the business of `Admission`.

### How `DurableJournal` corresponds to the code

It looks at one durable step through a lens that `RunLifecycle` does not have:
what the task's durable calls return. `RunLifecycle` has the registration, marks,
siblings and handles around a step and knows a suspension only as a row.

*State.* `stepStatus`, `resumeAt`, `attempts` are columns of the step's row and
`journal` the rows of `step_journal` in `idx` order: what is awaited (`kind`, and
`label` for RunOnce's key or WaitFor's event), `at` for `wake_at` or `deadline`,
`done`, `timedOut`, and `value` for the payload or the result. `runStatus` is LIVE,
OVER, or DEADLETTER for a failed run that `RetryDeadLetter` can revive. `ex[w]` is
an executor's `stepState`: `cache` is the journal it loaded (and appends to),
`cursor` the number of the durable call it is at, `val` a RunOnce result not yet
recorded. `program` is the version of the task this process runs; `now` the clock.
`returned` is history: what every durable call has ever returned to the task.

*Actions.* `LoadJournal` is the read in `execute` (a failed one is only logged, so
the task starts with an empty journal); `SleepDurable`, `RunOnce`, `WaitFor` are the
helpers from the call to their first store write; `RunFn` the user's function;
`CompleteJournalOnce`, `TimeoutWait`, `GetJournalEntry` the writes and the re-read
that follow, separate so that an Emit, a crash or another executor may come between;
`Misaligned` is `ErrJournalMisaligned`; `CallFails` a failing store call or an error
of the task's own. `Suspended`, `completeStepTx`, `AttemptFails` are the ends of
`execute`, with the look at the run's status and the write that follows in one step
(`RunLifecycle` has them apart). `DeliverEvent`, `CancelRun`, `SiblingFails`,
`RetryDeadLetter`, `Restart`, `Tick` and `ClockBack` are everybody else. `Restart`
picks any version of the task, so code may change under a journal.

*Abstraction.* A task is a finite sequence of durable calls. It returns the first
error that a call gives it, except a wait's timeout, which it may handle. A task
that ignores the error of a failed append and goes on leaves a hole in the journal
that `LoadJournal` closes up, and later entries then answer earlier calls; nothing
in the code or the documentation provides for such a task. A payload is the number
of the Emit that carried it and a RunOnce result the number of the run of its
function, so that different ones are told apart. Boot recovery is in its default
mode. A clock reading and the transaction it is used in are one step.

### How the other modules correspond to the code

*`Cluster`.* `owner`, `lease` are `worker_id` and `lease_expires_at` (in ticks left; a
lease that ran out is distinct from none). `execs` are the executor goroutines of the
whole fleet with what they have decided (`ok`, `cancel`, `retry`, `fail`) but not yet
written, so that a reaper or another node can act in between. Writes carry no owner
check, as in the code: `completeStepTx` asks for the row's status, `FinalFailStep` for
nothing. `Tick` lets leases run down; a tick that ends the lease of a node that is up is a
missed heartbeat and counts against `Budget`, one of a draining node does not, because
Close stops the heartbeat before the drain. `lapsed` remembers which steps lost a lease
under a live executor: the code promises nothing more about those.

*`Admission`.* An enqueue is two actions, everything it reads and everything it writes,
because under READ COMMITTED other transactions commit in between; `allocSeq`'s row lock
excludes other keyed enqueues (`CounterFree`) until the transaction commits or rolls back,
and the unique index makes the loser of an insert race roll back and start over
(`Collides`, at most `MaxTries` times). A claim is one action: it holds the claim lock,
takes candidates in priority order and repeats the gates in every UPDATE (`ClaimStep`
folded over the candidates). `limit` is what the request declares: a claim takes 0 as 1
(`KeyLimit`), a strategy takes it as it is. `age` is what the rate window looks at; a row
that is deleted is not seen by it.

*`Dispatch`.* A waker is three steps: the database write, `urgent.Store(true)`, the send
on a channel of capacity one. The loop is a timer, the receive, the snapshot of free
slots and of `e.paused`, the claim, and the read of the next due time. `hidden` are the
steps a caller inserted on its own transaction, of which nobody is told.

*`Triggers`.* Every API call is its section under `e.mu` and then its write; the cron
loop is the scan, the lookup, the compare-and-set and the advance of its own copy.
`Prompt` restricts the clock and nothing else: it does not advance while a call is between
its memory and its write or a pass between its scan and its lookup, nor beyond a whole
period after an armed entry is due. Another call may still replace the entry between a
scan (`cron.go:217`) and its lookup (`cron.go:220`); `overtaken` counts those
registrations.

*`Session`.* `pc` walks through `store.Open` (reserve, lock, pools, version, migration
lock, one transaction per version) and through `Engine.Close` and `Store.Close`. Kernel
locks belong to open files or, with `Posix`, to processes. Log lines are numbers.

*`Workflows`.* Declarations keep order and duplicates, since the code's loops depend on
them. Steps and groups share one list of edges and one space of names, and layout finds
the unit of a name as the code does, first as a step (the group that holds it), then as a
group (`UnitEdges`). Layout is in the code's pixels. The reference definition (`Meant`) says what a
declaration means without the lowering: transitive order of groups and steps (`Reach`, the
least set that has every successor). The loops of Kahn's algorithm, which validation and
layout both contain, are folds: one turn of the outer loop per node (`Topology`), one turn
of the inner loop per edge (`FollowAll`).

## 3. Runs

The runs of `RunLifecycle` and `DurableJournal` use two execution slots, so a step can be re-claimed while its previous
executor is still cleaning up. `Budget` bounds how often each client call or fault
happens; everything the engine does by itself is unbounded. All work ends, so deadlock
checking is off in every run. Slots are symmetric; fairness runs do not use symmetry.

| Run | Instance | States | What it shows |
|---|---|---|---|
| `control` | two parallel steps, two attempts; Cancel, PauseRun, ResumeRun, suspension once each | 2.0M | one executor per step; SUCCEEDED means every step succeeded; RUNNING rows always have an owner; errors charged never exceed max_attempts and a pause is never charged; a suspension never lingers in a run that is over |
| `crash` | a join of three steps; two crashes, suspension, Emit, Cancel | 1.5M | a live run always has a step that can move; a step runs only after all its dependencies and its release is never missed; a SUCCEEDED step is never redone |
| `close` | two parallel steps, one attempt; Close, drain timeout, Cancel, reopening in both recovery modes; fairness | 0.5M | Close leaves no handle open and drops no success; every handle is eventually answered; a run that is over comes to rest; an outcome is final |
| `fault` | an ephemeral and a dead-lettering run of one step each, which may share a unique key in replace mode; one failed store write, crash, purge, dead-letter retry, dismissal, veto, Cancel | 1.4M | an ephemeral run leaves no row, whichever way it ends, unless another one replaced it; handles are backed by the row, also when a write fails, rows are purged or a run is revived |
| `journal` | three versions of a task of two durable calls (RunOnce, a sleep with and without length, waits with and without deadline, two events); a restart into any version, two Emits, Cancel, a failing sibling, a dead-letter retry, a failed store call | 0.95M | every invocation is told the same by a durable call; a recorded result spares its function; the journal only grows and decides each entry once; WaitFor implements `AwaitOnce`, with the executor of the first life still inside the task after a revival |
| `awaits` | the same tasks; a restart, two Emits, Cancel, a failing body, a failed store call, the clock set back; fairness | 0.31M | a step that only an event can wake has an open wait for it; a replay never moves a wake time; every sleep, deadline and delivered event returns to the task |
| `cluster` | a chain of two steps, two attempts, two nodes with generated worker ids, lease of one tick; one stop (crash or Close), one restart, one Cancel, one missed heartbeat; fairness | 1.2M | one executor per step in the whole fleet unless its lease lapsed; a node's sweep leaves its peers' work alone; a success is kept; a dead node's steps are recovered while any engine is up |
| `admission` | three runs, alone and in a batch, two clients, two slots; keys of limit 1 with retries and labels, named keys, sequences against priority, every strategy with limits 1 and 2, every conflict policy, a rate of two per window; pauses; fairness | 53k | limits hold of what executes; sequences keep their order; one live run per unique key and no more runs than a strategy's limit; everything admissible is started |
| `dispatch` | a chain of two steps, one slot, poll 1, idle cap 2, delays 0 and 2; three of snooze, retry, suspension, pause, resume and store error; unannounced inserts; fairness | 0.37M | no lost wake-up: the loop never sleeps past the next due time by more than a poll; due work is claimed |
| `triggers` | two engines, period 2, four time units, both kinds of schedule, in four scenarios of registrations, removals, crashes, restarts, an Emit and a failing write; fairness | 0.35M | an occurrence starts one run, and at most one more per registration that overtakes a pass; an Emit starts one run for a binding; the stored occurrence is never left behind |
| `session` | three Opens of one file in two processes, two builds; two errors, one crash, two log lines through a channel of one; fairness | 77k | one writer, and no use of closed pools; accepted log lines are stored in order; an Open or Close ends and leaves nothing behind |
| `workflows` | every flat workflow of three steps with up to two dependencies each (repeated, unknown, on itself) and with repeated or empty names, and every grouping of three steps in three groups with at most one dependency each, two of the groups also named like steps | 72k | a workflow is accepted exactly if what it means is well named and acyclic, and its steps then wait for exactly that; boxes and nodes do not overlap and edges point forward |

`RunLifecycle`: every hazard listed in `PROJECT.json` for this component needs at most one call of
each kind, two executors of the same step and one sibling, and the instances have
those; larger budgets were not run. `DurableJournal`: two calls are enough for an
entry before and after the one at stake, two executors for one of each life, two
Emits for a second event after a decision, and one restart for a crash between any
two steps. The others: two nodes and one stop are a survivor and a casualty (or a sweeper
and its peer), and one missed heartbeat is a false suspicion; three runs of one key are a
holder, a rival and one that waits behind both; two clients make every race of two
enqueues; `Dispatch` needs one sleep and one arrival, and its clock values cover "due
now", "within the poll" and "beyond the cap"; two engines are the winner and the loser of
an occurrence, and two periods one that follows a lost one; three sessions are an owner,
a rival in its process and one outside. The proofs below remove these bounds for the
properties they state.

*Fairness* (`close`): weak fairness of each executor's own steps, of a body
returning, of the claim of each step, of the completer, of a client call that has
begun, of the application registering its tasks, and of each stage of Close. These
are goroutines that nothing blocks for ever: the scheduler ticks at least once per
idle cap, tasks are assumed to return, and Close joins its loops. No client call,
event, crash or store error is assumed to happen or not to happen again.

*Fairness* (`awaits`): weak fairness of each executor's steps (goroutines), of the
claim (the scheduler wakes at the next due time and at least once per idle cap) and
of the clock. Emits, failures, crashes and setting the clock back are not fair and
are bounded. `Tick` is enabled only while an entry lies ahead of the clock, which
keeps the state space finite; no guard looks further ahead.

*Fairness* (the other modules): weak fairness of time, of each goroutine's own steps
(scheduler, heartbeat, reaper, cron loop, flusher, an Open or a Close under way, a
transaction that has begun) and, in `Admission` and `Dispatch`, of task bodies returning,
without which a slot may stay taken for ever. `Cluster` assumes nothing of task bodies.
Client calls, operators, faults, crashes and restarts are never fair. `Workflows` is
sequential and has no liveness.

### Where the code disagrees with what the repository says

Each of these configurations checks one statement of the repository on the module named,
and TLC finds it violated: `tlc -config MCLostEvent.cfg MCDurableJournal`, and so on. They
are kept beside the passing runs as reproducers.

`MCRunLifecycle`:

* `MCCancelTombstone.cfg`: after a retry the step may be re-claimed and registered by a
  second executor before the first one's deferred `delete(e.cancels, ...)`
  (`engine.go:1432`), which then removes the wrong cancel func. A Cancel after that leaves
  a tombstone that the running executor is already past, although `engine.go:1413` says it
  "either sees this cancel func or leaves a tombstone this executor will honor".
* `MCCancelEphemeral.cfg`: Cancel deletes an ephemeral run, `runTerminal` is false for a
  run that is gone (`engine.go:1437`), so the executor that took the tombstone starts the
  task. `ARCHITECTURE.md:257-260`: "so the step never starts the task's side effects".
* `MCCancelRetry.cfg`: `runTerminal` is read, Cancel commits, `RetryStep`
  (`engine.go:1565`) requeues the step of the cancelled run, and it is executed once more.
  `engine.go:1556-1558` says such a step is recorded "CANCELLED rather than retrying or
  failing it against a dead run". `TerminalRunSettles` (run `close`) shows that it comes
  to rest afterwards.
* `MCBootFail.cfg`: with `RecoverRunningOnBoot(false)` a PAUSED run keeps its status while
  its RUNNING or SUSPENDED step is failed (`schema.go:491`); resumed, it has no step that
  could ever finish it. `queries.go:1586`: "a failed step fails the whole run". This is why
  `crash` uses the other setting.

* `MCSweepSuspend.cfg`: Close gives up its drain while a step suspends. The executor's
  check after the suspension (`engine.go:1510`) finds the run INTERRUPTED by the sweep,
  takes that for an outcome and cancels the step. The next boot queues the run again, and
  its siblings can make it SUCCEEDED with a CANCELLED step. The comment at
  `engine.go:1506-1509` thinks of a user's cancel only.
* `MCSweepFail.cfg`: a final failure decided before Close and written after the sweep
  (`queries.go:1587-1648`) fails the step and cancels its siblings, while the update of
  the run is guarded against INTERRUPTED. The next boot queues a run that has no step
  left to run. `queries.go:1586`: "a failed step fails the whole run".

  These two were found by proof attempts that did not go through; `SuccessIsWhole` and
  `NoRunStranded` exclude the drain that gives up for this reason.
* `MCReplaceEphemeral.cfg`: an enqueue that replaces a live ephemeral run leaves that run's
  row CANCELLED (`replaceRunTx`, `queries.go:291-298`, unlike `cancelOrDeleteRunTx` below
  it). `task.go:187-191`: ephemeral runs are "deleted when they reach a terminal state".
  `EphemeralLeavesNothing` names this one exception.

`MCDurableJournal`:

* `MCLostEvent.cfg`: `SuspendWithJournal` writes the entry and the suspension together so
  that "a wait entry is never visible while its step is still RUNNING" (`journal.go:112`).
  A step that a sibling's failure cancelled and `RetryDeadLetter` revived is: it keeps its
  journal, so between its claim and its `WaitFor` an Emit marks the entry done, finds no
  SUSPENDED step to queue, and `waitFor`, which looks at the copy loaded at the claim,
  suspends the step for good with the payload in its journal. `EventReachesWaiter` shows
  that this needs a revival.
* `MCWaitCharged.cfg`: `README.md:495` says that `WaitFor` is not charged an attempt. An
  event wakes the step by queueing it (`journal.go:224`), and the claim of a QUEUED step
  is charged; only sleeps and timeouts resume free of charge.

`MCCluster`:

* `MCStableID.cfg`: with a fixed `WithWorkerID` an engine that restarts before the lease
  runs out heartbeats every RUNNING step of its id, the dead process's included
  (`store.go:229`), so nobody ever reaps them. `README.md:150`: "a crashed node's work is
  picked up without a human". The run `cluster` uses generated ids.
* `MCEphemeralClose.cfg`: `InterruptAll` deletes an ephemeral run of which this worker
  runs one step (`store.go:196`) while a peer runs another. `README.md:151`: "Graceful
  `Close` interrupts only that worker's steps". `SweepSparesPeers` is therefore about
  runs that are not ephemeral.

`MCAdmission`:

* `MCReplaceDone.cfg`: `replaceRunTx` cancels by id the run that `liveRunByUnique` read;
  if it finished in between (two transactions under READ COMMITTED), its outcome is
  overwritten with CANCELLED.
* `MCReplaceKey.cfg`: `replaceRunTx` also cancels the RUNNING step of the replaced run,
  whose body is still executing; the key's slot is free at once and the replacement runs
  beside it. The key's limit is exceeded by what really executes. `README.md:247`: "At most
  one run per customer at a time, across every queue".
* `MCStrategyEphemeral.cfg`: a `cancelInProgress` strategy deletes the row of a running
  ephemeral run (`queries.go:317-344`) while its body is still executing; the slot of the
  key is free at once, with the same effect. The row of a run that is not ephemeral stays
  RUNNING until its body has returned, and the key stays taken.
* `MCRateRetry.cfg`: a retry overwrites the `claimed_at` of its row, so the window shows
  the second start and forgets the first; a queue with a rate of two starts three bodies in
  one window. `website/content/concurrency.md:51`: "Retries count as starts";
  `docs/DESIGN_NOTES.md:166`: "never exceeds N starts per window".
* `MCRateEphemeral.cfg`: the row of an ephemeral run is deleted when it is over, and its
  start with it; the same sentence of the design notes fails.
* `MCDefaultLimit.cfg`: a task with `WithKeyStrategy` and without `WithKeyConcurrency` has
  a policy of limit 0 (`engine.go:953`), with which `queries.go:191` applies no strategy at
  all: any number of runs of a `cancelNewest` key are live. `task.go:133-134`: "default 1
  ... values <1 are treated as 1".

  The last four came out of the proofs: each is a case in which the invariant of section 4
  is not preserved, and `KeepsKeys`, `StartsOnce` and `DeclaresLimits` exclude them there.

`MCDispatch`:

* `MCPeerResume.cfg`: a queue paused here and resumed on a peer, or two overlapping calls,
  leave `e.paused` set while the table says otherwise; `tick` skips the queue until a
  ResumeQueue is made on this engine or it restarts.

`MCTriggers`:

* `MCCronOvertaken.cfg`: `cronTick` lets go of `e.mu` between its scan (`cron.go:217`) and
  its lookup of each due task (`cron.go:220`). If the cron is registered again in between
  and its row written, the pass finds the new entry, whose time the scan never saw, and
  fires it at once; the compare-and-set agrees. The next time that it writes is the next
  after the scan (`cron.go:248`), which is the same occurrence, and that is fired again
  when it is due.
  `cron.go:246`: "exactly one node fires each occurrence across the cluster". The clock
  need not pass a write for this; `OncePerOccurrence` allows for these registrations and
  no others.

`MCSession`:

* `MCBootRace.cfg`: `migrate` reads the version before it takes the migration lock
  (`schema.go:364`), so the node that waited applies a version that is already there and
  its Open fails on the primary key. `README.md:126`: "nodes booting at once can't race
  DDL". A second attempt to open succeeds.

`MCWorkflows`:

* `MCDropEdge.cfg`: a step dependency across two groups that are not ordered by `After` is
  drawn neither between the steps nor between the groups. `dag.go:97`: it "is a
  group-level edge, drawn once between the boxes".
* The same with `GroupsInOrder` as the invariant: validation lets a group have the
  name of a step of another group. Layout looks a name up among the steps first (`dag_svg.go:147-180`), so an edge to that
  group is taken for one to the group that holds the step, and the two groups it orders
  may share a column. `dag_svg.go:158-160`: "so a group is placed after whatever it waits
  on". `DrawingSound` asks that edges point forward only where names are apart; that boxes
  and nodes do not overlap it asks always.

Met while modelling, without a configuration of their own:

* Revival. After a dead-letter retry two executors can be inside the same `RunOnce`
  function, and `CompleteJournalOnce` overwrites a result that is already recorded:
  `ReplayAgrees`, `MemoSpares` and `JournalIsLog` promise nothing about RunOnce in a run
  that was revived. With several steps, a revived step can be run twice at once, or
  cancelled by an executor that read the run's status before the retry: `OneOwner`
  excludes it and `fault` retries a run of one step.
* A final failure that lands between Cancel's transaction and its waiter release answers
  the handle with FAILED (`FinalFailStep` reports FAILED whatever the row says), so
  `WaiterBacked` asks of FAILED only that the run is over.
* Cron. With `Prompt = FALSE` in `MCTriggers.cfg`, `OncePerOccurrence` is violated: an
  engine that registered or armed the cron writes back a time that another engine has
  fired since, and the occurrence is fired again (`cron.go:246`: "exactly one node fires
  each occurrence"). A FireCron or upsert that fails leaves the engine's copy a period
  ahead of the row; with one engine the cron is silent until the next restart, which is
  why `OccurrencePasses` excepts failed writes. Engines with an `@every` schedule drift
  apart, each computing the next time from its own clock. RemoveCron on one engine is
  undone by another one's RegisterTask, which writes its pending entry back.
* With `Posix = TRUE` and two spellings of one path that `filepath.Abs` does not identify
  (a symbolic link), the registry does not see the second Open and the kernel grants the
  lock to the same process: `SingleWriter` fails. `lock_fcntl.go` is built for AIX
  and z/OS.
* A second `Close` with log storage closes the log channel again and panics
  (`engine.go:500`); nothing on the way to it remembers the first. `EnqueueWorkflow` without steps
  panics at `quacker.go:470` before the validation that would refuse it.
* A group without steps passes no order on from the groups before it to the groups after
  it, and a cycle through it goes unnoticed; `AcceptedIsOrdered` is stated for
  declarations without such a link (`NoEmptyLink`).

## 4. Proofs

`RunLifecycleProofs` proves, for all sets of runs, steps and slots, all dependency
graphs, all bounds and both recovery modes:

* `TypeCorrect`: `Spec => []TypeOK`. `TypeOK` is inductive as it stands. One lemma
  per effect that several actions share (`SetRun`, `UpdateStep`, `Refund`,
  `Goto`, `CancelContexts`, `completeStepTx`), then one step per action.
* `OneOwner`: `Spec => []SingleExecution`, if no dead-lettered run can be revived.
  `SingleExecution` alone is not inductive: a claim takes any QUEUED or due
  SUSPENDED row and would break it in a state where an executor still answers for
  such a row. The inductive invariant is
  `Ownership == SingleExecution /\ HeldRows /\ FreshRuns /\ NoRevival`: a row that
  an executor or the completer answers for is RUNNING, over or deleted, hence never
  claimable (`HeldRows`); rows of a run that is not inserted do not exist, so an
  enqueue never resets held rows (`FreshRuns`); and the dead-letter retry, the one
  transaction that makes held rows claimable, cannot happen (`NoRevival`). Three
  lemmas carry the argument: fewer holders of rows that stay held are still one each
  (`OwnersKept`), an executor that lets go of a row may requeue it (`OwnerLetsGo`),
  and a step that touches no row, queue or call keeps everything (`QuietStep`).

And, with revivals, crashes, closes, purges and store errors (`NoRowOrphaned` excepted):

* `OutcomeDecidedOnce`: `Spec => OutcomeIsFinal`; `EphemeralRunsVanish`:
  `Spec => []EphemeralLeavesNothing`: a row of an ephemeral run that is over is CANCELLED, of
  a run with a unique key, and another such run has been inserted, which is the
  replacement of section 3; nothing else that ends a run leaves one. Both rest on lemma
  `RunMoves`, which lists every way a run's row can change in a step, the replacement
  (`Replaces`) among them. It needs `StartedRuns`: an executor or a pending success
  never belongs to a run that is not inserted yet, so an enqueue overwrites nothing.
* `HandlesTellTheTruth`: `Spec => []WaiterBacked`. The inductive invariant `AnswersBacked`
  asks the same of every answer that is still owed: by the completer, by a failing
  executor, by a Cancel between its transaction and its critical section.
* `CloseIsComplete`: `Spec => []CloseLeavesNothing`, inductive as it stands.
* `NoRowOrphaned`: `Spec => []RunningIsOwned` if no store write fails. A failed write is
  the one way in which the code lets go of a RUNNING row; the row then waits for the next
  boot or for the reaper.

For the steps of a run, `RunLifecycleProofs` proves what follows. "Without a revival" means that no dead-lettered run is
retried (`Budget["retryDead"] = 0` or `DeadLetter = {}`), as in `OneOwner`.

* `FinishedWorkKept`: `Spec => CompletedStepKept`, without a revival. `Ownership` does not
  suffice: `FinalFailStep` writes FAILED without a look at the row. `SettledRows` says that
  nobody holds a step that has SUCCEEDED; with `StartedRuns` and `DeletedRuns` (rows go
  with their run) it forms `Custody`, on which the following theorems build.
* `DependenciesInOrder`: `Spec => []DependencyOrder`, without a revival, for every relation
  `Deps`. `OrderKept` extends it to rows that Close swept, because the boot queues them
  again without a look at their dependencies.
* `SuccessIsWhole`: `Spec => []SucceededMeansAll`, without a revival, if there are no
  suspensions, or no Close, or a Close that waits for its executors. The completion of the
  last active step makes the run SUCCEEDED, so no unfinished run may contain a step that
  was given up, unless one of its steps FAILED (`WholeRuns`). INTERRUPTED exists only after
  a sweep (`SweptRows`), and an executor about to cancel its step has a run that really is
  over (`CancelsDead`), which is where the hypothesis is needed.
* `NoRunStranded`: `Spec => []NoStrandedRun`, for every workflow that is acyclic and not
  empty, without a revival, a Close that gives up, or a boot with
  `RecoverRunningOnBoot(false)` (`MCBootFail.cfg`). `WorkLeft`: a run that is not over has
  work left and nothing given up; in an acyclic graph a first unfinished step is not
  BLOCKED, by `OrderKept`.
* `NoSuspensionOutlivesRun`: `Spec => []SuspensionConverges` while the process stays up and
  the store answers. A crash, a Close or a failed write can take the executor away between
  the suspension and its check.
* `RetryBudgetKept`: `Spec => []BudgetRespected`, without crashes (boot recovery gives back
  the attempt of a body that may have failed already) and without a revival. `Charged`
  counts: errors never exceed attempts, are one less while an attempt is open, and a step
  that can be claimed has one to spend.
* `PauseIsNoAttempt`: `Spec => []CancellationNotCharged`, without a revival. `Contexts`
  says who can end a context (`CancelFuncs`, `CancelCalls`, `Kills`) and what a context
  that has ended tells about the run (`DoneContexts`): it is over, or the step carries a
  pause mark, or the engine is closing. That carries over each look at a mark or at the
  run's status that `execute` makes before it charges an error.

With these every invariant and action property of `RunLifecycle` is proved. The assumptions
are those named in the module: steps belong to runs, dependencies stay within a run,
`MaxAttempts` is positive, `None` is no outcome. `Ownership` and the later invariants were
checked with TLC on the `control`, `crash`, `close` and `fault` instances before or while
they were proved. The hypotheses exclude what the reproducers of section 3 show to fail;
every run that checks one of these properties is within its theorem's hypotheses.

`DurableJournalProofs` proves, for all sets of versions of the task
with at most `MaxCalls` calls, all sets of events and executors and all budgets:

* `JournalTypeCorrect`, `ReplaysAgree`, `MemoSparesFn`, `EventsReachWaiters`,
  `SuspensionsWakeOnTime`: `Spec => []P` for `P` each of `TypeOK`, `ReplayAgrees`,
  `MemoSpares`, `EventReachesWaiter`, `WakesOnTime`;
* `JournalOnlyGrows`: `Spec => JournalIsLog`, an action property;
* `WaitsAreDecidedOnce`: `Spec => Await!Spec`, the refinement of `AwaitOnce`.

None of these is inductive alone, not even `TypeOK` (an UPDATE by position needs the
position to exist). `JournalInv` is. `ReplayAgrees` follows from `Told`: whatever a
call returned is what its entry says now. That survives a step because entries do not
change once decided, and holds of a new return because an executor's copy is a
beginning of the journal and agrees with it (`Caches`, `Copies`). A RunOnce copy
agrees only while nobody else completes the entry, which is `OneTask`: without a
revival one executor at a time is in the task, and the row is not claimable
meanwhile. `EventReachesWaiter` needs the other half of the story: an executor at
work has no undecided wait without a deadline, neither in the journal nor in its copy
(`NoneMissed`), because such a step is claimed only after the event has come
(`OpenAwaited`); and an event that queues the step leaves no other wait open, because
only the last entry can be (`OpenIsLast`). `Blank` says an undecided entry carries no
outcome. The refinement adds `Decisive`: a decided wait carries one. All of
`JournalInv` but what depends on `~Revived` holds across dead-letter retries.

The proof has three lemmas that most actions are instances of: `Quiet` (nothing is
written to the journal and no task starts), `Inside` (an executor in the task moves
on, given that its own copy stays right), and `KeepsCached` (an executor that is left
alone); the claim, the suspension with its entry and the delivery of an event have
proofs of their own. The assumptions are `ProgramAssumption` and `JournalAssumption`
(calls are well-formed, names are strings, budgets are numbers). `JournalInv` was
checked with TLC on the `journal` and `awaits` instances before it was proved.

`ClusterProofs` proves, for all fleets, run graphs, lease lengths, faults and client
calls, and for generated and fixed worker ids:

* `ClusterTypeCorrect`: `Spec => []TypeOK`;
* `OneExecutorPerLease`: `Spec => []SingleUnlessLapsed`;
* `SweepSparesPeers`: `Spec => PeerWorkLeftAlone`, if no run is ephemeral;
* `SuccessesAreKept`: `Spec => SuccessKept`.

`SingleUnlessLapsed` is not inductive: a claim would break it in a state where a QUEUED
step still has an executor. The inductive invariant adds, for executors whose lease never
lapsed: the row is RUNNING or was ended behind their back, never QUEUED or SUCCEEDED
(`HeldStatus`); while it is RUNNING the row carries a lease that has not run out and the
worker id of the executor's process (`HeldRow`), so the reaper and other nodes' sweeps
pass it by; and executors end with their process (`ExecsAlive`), so that a restart cannot
change the id under them. `SweepSparesPeers` and `SuccessesAreKept` are action properties
and follow from it: two nodes have different worker ids, and a SUCCEEDED step has no
executor left to fail it. The assumption is `ClusterAssumption`.

`AdmissionProofs` proves, for all runs and batches, all clients, queues, slots, rates,
windows and labels, and any number of enqueues that race:

* `PromisesKept`: `Spec => []EnqueuePromises`, if a strategy declares its limit
  (`DeclaresLimits`; `MCDefaultLimit.cfg`);
* `LimitsKept`: `Spec => []LimitsRespected`, keys, named keys, slots and rates, and
  `QueueLimitsKept`: `Spec => []QueueLimitsRespected`, the slots and rates alone. Both need
  that a run on a queue with a rate starts once and keeps its row (`StartsOnce`;
  `MCRateRetry.cfg`, `MCRateEphemeral.cfg`), and the first that no enqueue ends the step of
  a keyed body that still runs (`KeepsKeys`; `MCReplaceKey.cfg`, `MCStrategyEphemeral.cfg`);
* `SequencesKept`: `Spec => []SequenceOrder`, under `KeepsKeys`.

All four assume that `Runs` is finite. A behaviour violates a safety property within a
finite prefix, and that enqueues finitely many runs, so nothing is lost; without it the
cardinalities and numbers in the invariants would mean nothing. The hypotheses hold of
every scenario of the run `admission`, and each is needed, as the configurations show.

Four invariants, each with a part for what an enqueue has read and not yet written:

* `Base` needs no hypothesis. An open transaction's runs are new and nobody else's, and at
  most one open transaction has keyed runs (`Opened`); so the numbers it drew lie above all
  numbers in the table (`Numbered`), and what it planned can still be carried out whatever
  was committed since (`Pending`): the unique index, not what the plan read, keeps one live
  run per key (`OneEach`).
* `Room` says that every key with a strategy has no more runs of the counted statuses than
  its limit, in the table (`Roomy`) and in the table that each open plan would leave
  (`RoomyPending`). A plan is made by one look at the table; what commits before it is
  written only makes room, since the counter's lock keeps other keyed enqueues out.
* `Queueing` counts the starts that the window shows: `starts` agrees with the ages of the
  rows, and the rate bounds those.
* `Keeping` says of the RUNNING rows what the properties say of the bodies: any set of them
  that shares a key is no larger than the limit of one of its members (`KeysOk`), stated for
  every subset because limits may differ from run to run; those before a RUNNING one in its
  sequence are over (`SeqOk`); and a body under a gate has a RUNNING row
  (`HeldWhileExecuting`).

What a batch and a claim do is a fold over a sequence. Library and provers offer no
induction over sequences; the proofs state one as a property of sets. `NatSet` says that a
set with 0 and every successor contains the naturals (from the library's least element of a
well-founded relation). `FoldTrace` turns a fold into the sequence of its intermediate
results, `ClaimTrace` and `CreateTrace` apply it, and the lemmas on one turn
then carry to the whole. The sum of `starts` over the window, a fold over a function,
is treated the same way (`Total`, `SumOfGroups`). The invariants were checked with TLC on
the `admission` instance before they were proved.

`SessionProofs` proves `OneWriter`: `Spec => []SingleWriter` for any number of sessions,
processes, spellings of the path and builds, where kernel locks belong to open files
(`Posix = FALSE`: flock and Windows). `SingleWriter` speaks of pools, which say nothing of
locks; the invariant places every session: it has pools exactly between `OpenPools` and
`ClosePools` (`PoolsWhere`), its kernel lock from before the first to after the second
(`LockWhere`), nobody else has the lock (`LockAlone`), and loops and flusher are joined
before the pools close (`UsersWhere`). Lemma `Move` says once what a step of one session
must keep. The registry of the process plays no part in the proof: with flock the kernel
lock alone is enough, and the registry is what the fcntl platforms need.

`SessionProofs` also proves `LinesReachTheTable`: `Spec => []AcceptedLinesKept`, on every
platform. The property speaks of the end; the invariant (`InTransit`) of every moment: of
the `n` lines accepted, the channel holds the last ones, the batch those before them, and
every earlier one is stored or was lost with a failed append. `LogEnds` orders the
shutdown: nothing is accepted once the channel is closed, and the flusher has ended with
channel and batch empty before the store is closed. Four lemmas about `Transit` say what
accepting, receiving, storing and losing do to the sequences.

`DispatchProofs` proves, for all steps, runs, delays, poll intervals, idle caps and
concurrencies, with and without overlapping pauses and shared stores:

* `NoWakeUpLost`: `Spec => []NoOversleep`. Not inductive alone: a busy loop swallows a wake
  that is not urgent and sleeps on, which is harmless because a busy sleep is never longer
  than the poll interval (`BusyIsBrief`). Whoever makes a step due leaves a waker or hides
  the step; a sleep after an empty claim is as short as the next due time (`IdleWaitIsShort`,
  from the fact that a set of natural numbers has a least element).
* `SlotsNeverExceeded`: the executors of a queue never exceed its concurrency, for finitely
  many steps, although the free slots are counted before the claim and outside its
  transaction: in between, executors only return (`Slots`).

`TriggersProofs` proves, for all sets of engines, periods, both kinds of schedule and all
budgets of calls, crashes, restarts and failed writes:

* `OneRunPerOccurrence`: `Spec => []OncePerOccurrence`, if `Prompt`: an occurrence starts
  one run, and at most one more for every registration that fell between a scan and its
  lookup (`overtaken`, section 3). A pass is early if it holds an occurrence that is ahead
  of its scan. `FiredIsPast` counts the fires of an occurrence and the early passes
  together: they exceed the overtaking registrations by one at most, and not at all where
  the occurrence is in the future or not before the stored one, so that the
  compare-and-set of a pass that is not early can only meet one that has not fired on
  anybody's account but theirs. That needs `WritesAhead`, a time that a call noted is
  still ahead of the clock when it is written, which is what `Prompt` provides and section
  3 shows to fail without it; and `PassIsDue`, the entry that a pass fires is one its scan
  found due or the next occurrence after the scan. That a loop may be at most a period
  late plays no part.
* `OneRunPerEvent`: `Spec => []OneRunPerEmit`, prompt or not. An engine has at most one
  entry for the binding, armed or pending, and none pending when RegisterEvent looks for
  one to refresh (`OneEntry`); Emits made cover the runs and the enqueues still owed
  (`Covered`, a count of the engines that owe one).

The assumptions are `DispatchAssumption` and `TriggersAssumption`. The invariants of
`Cluster`, `Session`, `Dispatch` and `Triggers` were checked with TLC on the instances of
the same names.

`WorkflowsProofs` proves `AcceptedIsWhatIsOrdered`: `Spec => []AcceptedIsOrdered`, for every
set of declared workflows of any size (`WorkflowsAssumption`: they are records of the right
shape, a flat one is one group, and there is a first step to enqueue). The invariant
(`Judged`) only says that the phase is what the validation found; the work is in the pure
part:

* `KahnSound`: the algorithm visits every node exactly if no node comes after itself.
  `Balanced` holds between two turns: the in-degree of a node counts the edges from nodes
  that have not left the queue (`Left`), inside the inner loop those that are not followed
  yet (`Owed`), and the queue holds each node without such an edge once. `Settled` says
  that what has left the queue has all its predecessors there and no cycle. At the end the
  queue is empty (`WalkEnds`; a turn per node is enough because no node is queued twice),
  so every node that was not visited waits for another such node, and in a finite graph
  that is a cycle (`CycleExists`: a node with the fewest others before it).
* `LoweredEdges`: the lowered dependencies are the declared ones and those on every step of
  every group that is named in `After`. `LoweredReach`: they order the steps as the
  transitive order of the groups does, because every group in between has a step
  (`NoEmptyLink`).
* `FlattenContents`, `FlattenAlike` and `DedupSet` say what the helpers on sequences keep.
  The folds are unrolled as in `AdmissionProofs`.

Only model-checked: the liveness properties of every module, which are out of TLAPS's
reach (`ENABLED` and fairness), and `DrawingSound` of `Workflows`, arithmetic on sums over
columns that `SelectSeq` cuts out, a recursive operator that the prover does not expand.
Every invariant of a state machine in this project is
proved. `TypeOK` of the three modules that have one is proved and therefore not an
invariant of any run.

## 5. Not modelled

* The event bus: delivery is best-effort by design and no component reads it.
* Execution context, child runs and the run tree: reads of committed rows.
* Retention by age and its batches (the purge of a run is in `RunLifecycle`), metrics
  contents, hooks that only observe, the debug stream.
* Several queues in one scheduler loop, `ReapExpired`'s batch limit, the cron parser.
* SQL text, codecs, options, edge routing and SVG text, examples and the website.

## 6. Plan

1. The layout: that levels grow along edges, and with them the last part of `DrawingSound`.
2. Weaker hypotheses: which of the `RunLifecycle` theorems survive a revival of a run whose
   executors have all returned.
3. A scheduler of several queues, and retention by age.
