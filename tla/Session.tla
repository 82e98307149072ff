------------------------------ MODULE Session ------------------------------
(***************************************************************************)
(* Sessions on one database: each is an Open and its Close, in some        *)
(* process.                                                                *)
(*                                                                         *)
(* A File database is guarded twice, by a registry of the process keyed by *)
(* the absolute path and by a kernel lock on a sidecar file; a networked   *)
(* one is shared.  Open takes the guards, opens the pools and migrates;    *)
(* Close joins the loops, seals the task log, joins its flusher, and then  *)
(* the store gives everything back in the opposite order.  Every place     *)
(* where an Open can fail, and a crash anywhere, is an action.             *)
(***************************************************************************)
EXTENDS Integers, Sequences, FiniteSets, SequencesExt

CONSTANTS Sessions, Procs, Proc,
          Path,        \* the absolute path a session's spelling resolves to;
                       \* all of them name the same file
          Shared,      \* Postgres, MySQL: no lock, RecoverOnBoot is FALSE
          Posix,       \* kernel locks belong to processes (lock_fcntl.go), not to open files
          Versions,    \* the last migration each session's build knows
          MaxLines, LogCap, MaxBatch,   \* log lines of a session, its channel, a batch
          Budget,      \* how many errors and crashes there are
          Nobody       \* holds the migration lock when it is free

Ops == {"error", "crash"}

ASSUME SessionAssumption ==
    /\ Proc \in [Sessions -> Procs]
    /\ Shared \in BOOLEAN /\ Posix \in BOOLEAN
    /\ Versions \in [Sessions -> Nat] /\ MaxLines \in [Sessions -> Nat]
    /\ LogCap \in Nat \ {0} /\ MaxBatch \in Nat \ {0}
    /\ Budget \in [Ops -> Nat]
    /\ Nobody \notin Sessions

VARIABLES
    pc,         \* where the session's Open or Close is
    registry,   \* sessions with an entry in their process's fileLocks
    locked,     \* sessions whose sidecar holds the kernel lock
    pools,      \* sessions whose writer pool is open
    seen,       \* the schema version read by migrate
    version,    \* schema_migrations, last version
    migrating,  \* who holds the backend's migration lock
    inCall,     \* sessions with a scheduler, cron, retention or metrics loop in a store call
    opened,     \* sessions whose Open returned a Quacker
    sealed,     \* e.logClosed
    closedCh,   \* e.logCh is closed
    ch, batch,  \* e.logCh; what flushLogs has taken from it
    flusher,    \* "off", "recv", "append", "last" (the append before it returns), "done"
    lines,      \* history: how many lines the storage sink accepted
    stored,     \* the logs table, by session
    lost,       \* history: lines of an append that failed
    budget

guards == <<registry, locked, pools>>
schema == <<seen, version, migrating>>
log    == <<sealed, closedCh, ch, batch, flusher, lines, stored, lost>>
vars   == <<pc, guards, schema, inCall, opened, log, budget>>

Spend(op) == budget[op] > 0 /\ budget' = [budget EXCEPT ![op] = @ - 1]
Goto(s, p) == pc' = [pc EXCEPT ![s] = p]

-----------------------------------------------------------------------------
(* Open.                                                                   *)

\* acquireFileLock: LoadOrStore in the registry, before any system call.
Reserve(s) ==
    /\ pc[s] = "new"
    /\ IF Shared THEN Goto(s, "locked") /\ UNCHANGED registry
       ELSE IF \E t \in registry : Proc[t] = Proc[s] /\ Path[t] = Path[s]
       THEN Goto(s, "failed") /\ UNCHANGED registry
       ELSE Goto(s, "reserved") /\ registry' = registry \cup {s}
    /\ UNCHANGED <<locked, pools, schema, inCall, opened, log, budget>>

\* The kernel refuses a lock that another open file, or another process, holds.
KernelFree(s) == \A t \in locked : Posix /\ Proc[t] = Proc[s]

\* lockPlatformFile, non-blocking.
TakeLock(s) ==
    /\ pc[s] = "reserved" /\ KernelFree(s)
    /\ locked' = locked \cup {s}
    /\ Goto(s, "locked")
    /\ UNCHANGED <<registry, pools, schema, inCall, opened, log, budget>>

\* Mutant: the registry entry of a refused Open is forgotten.
RefusedKeepsEntry(s) ==
    /\ pc[s] = "reserved"
    /\ (~KernelFree(s) /\ UNCHANGED budget) \/ Spend("error")
    /\ Goto(s, "failed")
    /\ UNCHANGED <<guards, schema, inCall, opened, log>>

\* The lock is held, or the sidecar cannot be opened or locked.
Refused(s) ==
    /\ pc[s] = "reserved"
    /\ (~KernelFree(s) /\ UNCHANGED budget) \/ Spend("error")
    /\ registry' = registry \ {s}
    /\ Goto(s, "failed")
    /\ UNCHANGED <<locked, pools, schema, inCall, opened, log>>

OpenPools(s) ==
    /\ pc[s] = "locked"
    /\ pools' = pools \cup {s}
    /\ Goto(s, "version")
    /\ UNCHANGED <<registry, locked, schema, inCall, opened, log, budget>>

\* A pool does not open: closeSide.
PoolsFail(s) ==
    /\ pc[s] = "locked" /\ Spend("error")
    /\ Goto(s, IF Shared THEN "failed" ELSE "unlock")
    /\ UNCHANGED <<guards, schema, inCall, opened, log>>

\* migrate reads the version before it takes any lock.  A database written by a
\* newer build is refused.
ReadVersion(s) ==
    /\ pc[s] = "version"
    /\ seen' = [seen EXCEPT ![s] = version]
    /\ Goto(s, IF version > Versions[s] THEN "closing"
               ELSE IF version = Versions[s] THEN "start" ELSE "lockMigration")
    /\ UNCHANGED <<guards, version, migrating, inCall, opened, log, budget>>

\* MySQL's session lock or Postgres's transaction lock; SQLite needs none.
LockMigration(s) ==
    /\ pc[s] = "lockMigration" /\ migrating = Nobody
    /\ migrating' = s
    /\ Goto(s, "migrate")
    /\ UNCHANGED <<guards, seen, version, inCall, opened, log, budget>>

\* The next version's transaction: DDL and a row of schema_migrations, whose
\* primary key refuses a version that is already there.  A session lock is kept
\* for the versions that follow, a transaction's lock is not.
Migrate(s) ==
    /\ pc[s] = "migrate"
    /\ IF version > seen[s] THEN Goto(s, "closing") /\ migrating' = Nobody /\ UNCHANGED <<seen, version>>
       ELSE /\ version' = version + 1
            /\ seen' = [seen EXCEPT ![s] = version + 1]
            /\ IF version + 1 >= Versions[s] THEN Goto(s, "start") /\ migrating' = Nobody
               ELSE \/ UNCHANGED <<pc, migrating>>
                    \/ Goto(s, "lockMigration") /\ migrating' = Nobody
    /\ UNCHANGED <<guards, inCall, opened, log, budget>>

\* A statement of migrate or of recoverInterrupted fails: store.Open calls Close.
OpenFails(s) ==
    /\ pc[s] \in {"version", "lockMigration", "migrate", "start"} /\ Spend("error")
    /\ migrating' = IF migrating = s THEN Nobody ELSE migrating
    /\ Goto(s, "closing")
    /\ UNCHANGED <<guards, seen, version, inCall, opened, log>>

\* recoverInterrupted (see RunLifecycle), engine.New and Start.
Start(s) ==
    /\ pc[s] = "start"
    /\ flusher' = [flusher EXCEPT ![s] = "recv"]
    /\ opened' = opened \cup {s}
    /\ Goto(s, "open")
    /\ UNCHANGED <<guards, schema, inCall, sealed, closedCh, ch, batch, lines, stored, lost, budget>>

-----------------------------------------------------------------------------
(* The session is used.                                                    *)

\* A loop of the engine is inside a call of the store.
LoopCall(s) ==
    /\ pc[s] = "open" /\ s \notin inCall
    /\ inCall' = inCall \cup {s}
    /\ UNCHANGED <<pc, guards, schema, opened, log, budget>>

LoopReturn(s) ==
    /\ s \in inCall
    /\ inCall' = inCall \ {s}
    /\ UNCHANGED <<pc, guards, schema, opened, log, budget>>

\* A task logs a line, also one that outlives the drain: storageLogSink, under
\* logMu.  A full channel drops the line.
TaskLog(s) ==
    /\ s \in opened /\ pc[s] # "crashed"
    /\ ~sealed[s] /\ lines[s] < MaxLines[s] /\ Len(ch[s]) < LogCap
    /\ lines' = [lines EXCEPT ![s] = @ + 1]
    /\ ch' = [ch EXCEPT ![s] = Append(@, lines[s] + 1)]
    /\ UNCHANGED <<pc, guards, schema, inCall, opened, sealed, closedCh, batch, flusher, stored, lost, budget>>

FlushReceive(s) ==
    /\ flusher[s] = "recv" /\ ch[s] # <<>>
    /\ ch' = [ch EXCEPT ![s] = Tail(@)]
    /\ batch' = [batch EXCEPT ![s] = Append(@, Head(ch[s]))]
    /\ flusher' = [flusher EXCEPT ![s] = IF Len(batch[s]) + 1 >= MaxBatch THEN "append" ELSE @]
    /\ UNCHANGED <<pc, guards, schema, inCall, opened, sealed, closedCh, lines, stored, lost, budget>>

FlushTimer(s) ==
    /\ flusher[s] = "recv" /\ batch[s] # <<>>
    /\ flusher' = [flusher EXCEPT ![s] = "append"]
    /\ UNCHANGED <<pc, guards, schema, inCall, opened, sealed, closedCh, ch, batch, lines, stored, lost, budget>>

\* Mutant: the flusher leaves what it has taken.
FlushEndNow(s) ==
    /\ flusher[s] = "recv" /\ closedCh[s] /\ ch[s] = <<>>
    /\ flusher' = [flusher EXCEPT ![s] = "done"]
    /\ UNCHANGED <<pc, guards, schema, inCall, opened, sealed, closedCh, ch, batch, lines, stored, lost, budget>>

\* The channel is closed and drained: a last append, if there is anything.
FlushEnd(s) ==
    /\ flusher[s] = "recv" /\ closedCh[s] /\ ch[s] = <<>>
    /\ flusher' = [flusher EXCEPT ![s] = IF batch[s] = <<>> THEN "done" ELSE "last"]
    /\ UNCHANGED <<pc, guards, schema, inCall, opened, sealed, closedCh, ch, batch, lines, stored, lost, budget>>

\* AppendLogs, one transaction; an error is logged and the batch dropped.
AppendLogs(s) ==
    /\ flusher[s] \in {"append", "last"}
    /\ flusher' = [flusher EXCEPT ![s] = IF @ = "last" THEN "done" ELSE "recv"]
    /\ batch' = [batch EXCEPT ![s] = <<>>]
    /\ \/ s \in pools /\ stored' = [stored EXCEPT ![s] = @ \o batch[s]] /\ UNCHANGED <<lost, budget>>
       \/ Spend("error") /\ lost' = [lost EXCEPT ![s] = @ \cup Range(batch[s])] /\ UNCHANGED stored
    /\ UNCHANGED <<pc, guards, schema, inCall, opened, sealed, closedCh, ch, lines>>

-----------------------------------------------------------------------------
(* Close.                                                                  *)

\* Engine.Close: e.cancel stops the loops before their next call.
Close(s) ==
    /\ pc[s] = "open"
    /\ Goto(s, "joining")
    /\ UNCHANGED <<guards, schema, inCall, opened, log, budget>>

\* loopWG.Wait; the drain, the completer and the sweep (RunLifecycle) follow.
JoinLoops(s) ==
    /\ pc[s] = "joining" /\ s \notin inCall
    /\ Goto(s, "sealing")
    /\ UNCHANGED <<guards, schema, inCall, opened, log, budget>>

SealLog(s) ==
    /\ pc[s] = "sealing"
    /\ sealed' = [sealed EXCEPT ![s] = TRUE]
    /\ Goto(s, "sealed")
    /\ UNCHANGED <<guards, schema, inCall, opened, closedCh, ch, batch, flusher, lines, stored, lost, budget>>

CloseLog(s) ==
    /\ pc[s] = "sealed"
    /\ closedCh' = [closedCh EXCEPT ![s] = TRUE]
    /\ Goto(s, "flushing")
    /\ UNCHANGED <<guards, schema, inCall, opened, sealed, ch, batch, flusher, lines, stored, lost, budget>>

\* logWG.Wait; the debug stream is sealed; then Store.Close.
JoinFlusher(s) ==
    /\ pc[s] = "flushing" /\ flusher[s] = "done"
    /\ Goto(s, "closing")
    /\ UNCHANGED <<guards, schema, inCall, opened, log, budget>>

\* Store.Close: the checkpoint loop, the readers, a checkpoint, the writer.
ClosePools(s) ==
    /\ pc[s] = "closing"
    /\ pools' = pools \ {s}
    /\ Goto(s, IF Shared THEN "gone" ELSE "unlock")
    /\ UNCHANGED <<registry, locked, schema, inCall, opened, log, budget>>

\* Closing the sidecar drops its lock, and under POSIX rules every lock the
\* process has on the file.
Unlocked(s) == IF Posix THEN {t \in locked : Proc[t] # Proc[s]} ELSE locked \ {s}

\* Mutant: the lock is given back before the writer is closed.
UnlockFirst(s) ==
    /\ pc[s] \in {"unlock", "closing"}
    /\ locked' = Unlocked(s)
    /\ IF pc[s] = "unlock" THEN Goto(s, "unregister") ELSE UNCHANGED pc
    /\ UNCHANGED <<registry, pools, schema, inCall, opened, log, budget>>

Unlock(s) ==
    /\ pc[s] = "unlock"
    /\ locked' = Unlocked(s)
    /\ Goto(s, "unregister")
    /\ UNCHANGED <<registry, pools, schema, inCall, opened, log, budget>>

\* releaseFileLock deletes the entry by value.
Unregister(s) ==
    /\ pc[s] = "unregister"
    /\ registry' = registry \ {s}
    /\ Goto(s, IF s \in opened THEN "gone" ELSE "failed")
    /\ UNCHANGED <<locked, pools, schema, inCall, opened, log, budget>>

\* The process dies: what it held in memory and in the kernel is gone.
Crash(p) ==
    LET dead == {s \in Sessions : Proc[s] = p}
        live == {s \in dead : pc[s] \notin {"new", "failed", "gone", "crashed"}}
    IN /\ live # {} /\ Spend("crash")
       /\ pc' = [s \in Sessions |-> IF s \in live THEN "crashed" ELSE pc[s]]
       /\ registry' = registry \ dead /\ locked' = locked \ dead /\ pools' = pools \ dead
       /\ inCall' = inCall \ dead
       /\ migrating' = IF migrating \in dead THEN Nobody ELSE migrating
       /\ flusher' = [s \in Sessions |-> IF s \in live THEN "off" ELSE flusher[s]]
       /\ ch' = [s \in Sessions |-> IF s \in live THEN <<>> ELSE ch[s]]
       /\ batch' = [s \in Sessions |-> IF s \in live THEN <<>> ELSE batch[s]]
       /\ UNCHANGED <<seen, version, opened, sealed, closedCh, lines, stored, lost>>

-----------------------------------------------------------------------------
Init ==
    /\ pc = [s \in Sessions |-> "new"]
    /\ registry = {} /\ locked = {} /\ pools = {}
    /\ seen = [s \in Sessions |-> 0] /\ version = 0 /\ migrating = Nobody
    /\ inCall = {} /\ opened = {}
    /\ sealed = [s \in Sessions |-> FALSE] /\ closedCh = [s \in Sessions |-> FALSE]
    /\ ch = [s \in Sessions |-> <<>>] /\ batch = [s \in Sessions |-> <<>>]
    /\ flusher = [s \in Sessions |-> "off"]
    /\ lines = [s \in Sessions |-> 0] /\ stored = [s \in Sessions |-> <<>>]
    /\ lost = [s \in Sessions |-> {}] /\ budget = Budget

\* What a session does by itself once somebody called Open or Close.
Opening(s) == \/ TakeLock(s) \/ Refused(s) \/ OpenPools(s) \/ ReadVersion(s)
              \/ LockMigration(s) \/ Migrate(s) \/ Start(s)
Closing(s) == \/ JoinLoops(s) \/ SealLog(s) \/ CloseLog(s) \/ JoinFlusher(s)
              \/ ClosePools(s) \/ Unlock(s) \/ Unregister(s)
Flusher(s) == FlushReceive(s) \/ FlushTimer(s) \/ FlushEnd(s) \/ AppendLogs(s)

Next == \/ \E s \in Sessions : \/ Reserve(s) \/ Opening(s) \/ PoolsFail(s) \/ OpenFails(s)
                               \/ LoopCall(s) \/ LoopReturn(s) \/ TaskLog(s) \/ Flusher(s)
                               \/ Close(s) \/ Closing(s)
        \/ \E p \in Procs : Crash(p)

\* Goroutines run and store calls return; nobody owes an Open, a Close or a line.
Spec == /\ Init /\ [][Next]_vars
        /\ \A s \in Sessions : /\ WF_vars(Opening(s)) /\ WF_vars(Closing(s))
                               /\ WF_vars(Flusher(s)) /\ WF_vars(LoopReturn(s))

-----------------------------------------------------------------------------
(* Properties.                                                             *)

\* lock.go: the single-writer guard.  However Opens fail, Closes overlap and
\* processes die, one session has the file open, and no loop and no flusher
\* uses pools that are closed.
SingleWriter ==
    /\ Shared \/ Cardinality(pools) <= 1
    /\ \A s \in Sessions : (s \in inCall \/ flusher[s] \in {"append", "last"}) => s \in pools

\* A log line the storage sink took is in the database, in order, when Close
\* returns, also one logged while Close seals the log; an append that fails is
\* the exception.
AcceptedLinesKept ==
    \A s \in opened : pc[s] \in {"closing", "unlock", "unregister", "gone"} =>
        /\ 1..lines[s] = Range(stored[s]) \cup lost[s]
        /\ \A i, j \in DOMAIN stored[s] : i < j => stored[s][i] < stored[s][j]

\* An Open ends and a Close returns, and one that does not leave a session open
\* leaves neither pools nor guards behind: the next Open is not refused.
SessionSettles ==
    \A s \in Sessions : pc[s] \notin {"new", "open"} ~>
        \/ pc[s] = "open"
        \/ pc[s] \in {"failed", "gone", "crashed"} /\ s \notin registry \cup locked \cup pools

\* README: "nodes booting at once can't race DDL".  An Open whose statements
\* all reach the database succeeds.
BootsTogether == budget = Budget => \A s \in Sessions : Shared => pc[s] \notin {"closing"} \/ s \in opened
=============================================================================
