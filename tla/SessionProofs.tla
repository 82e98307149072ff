---------------------------- MODULE SessionProofs ----------------------------
(***************************************************************************)
(* Proofs about Session, for every number of sessions, processes,          *)
(* spellings of the path, builds, errors and crashes.                      *)
(*                                                                         *)
(* SingleWriter, wherever kernel locks belong to open files (flock), and   *)
(* for a shared database: it speaks of pools and follows from where each   *)
(* session is in its Open or Close, what it has open there, and that it    *)
(* still has its kernel lock, which the kernel gives to one open file at a *)
(* time.                                                                   *)
(*                                                                         *)
(* AcceptedLinesKept, on every platform: the table, the batch and the      *)
(* channel are at every moment three consecutive stretches of the lines    *)
(* that were accepted.                                                     *)
(***************************************************************************)
EXTENDS Session, FiniteSetTheorems, TLAPS

Used  == {"open", "joining", "sealing", "sealed", "flushing"}
Piped == {"version", "lockMigration", "migrate", "start", "closing"} \cup Used
Held  == {"locked", "unlock"} \cup Piped
Pcs   == {"new", "reserved", "unregister", "failed", "gone", "crashed"} \cup Held

TypePart ==
    /\ pc \in [Sessions -> Pcs]
    /\ flusher \in [Sessions -> {"off", "recv", "append", "last", "done"}]
    /\ locked \subseteq Sessions /\ pools \subseteq Sessions /\ inCall \subseteq Sessions

\* A session has pools exactly between OpenPools and ClosePools.
PoolsWhere == \A s \in Sessions : s \in pools <=> pc[s] \in Piped

\* It has the kernel lock at least from TakeLock to Unlock, and the kernel gives
\* it to nobody else meanwhile.
LockWhere  == ~Shared => \A s \in Sessions : pc[s] \in Held => s \in locked
LockAlone  == \A s, t \in locked : s = t

\* Loops and the flusher use the store only while the session is used.
UsersWhere == \A s \in Sessions : /\ s \in inCall => pc[s] \in {"open", "joining"}
                                  /\ flusher[s] \in {"recv", "append", "last"} => pc[s] \in Used

IInv == TypePart /\ PoolsWhere /\ LockWhere /\ LockAlone /\ UsersWhere

-----------------------------------------------------------------------------
\* One session moves from a pc to another: what every such step must keep.
LEMMA Move ==
    ASSUME IInv, NEW s \in Sessions, NEW p \in Pcs, Goto(s, p),
           pools' \subseteq Sessions, locked' \subseteq Sessions, inCall' \subseteq inCall,
           flusher' \in [Sessions -> {"off", "recv", "append", "last", "done"}],
           \A t \in Sessions \ {s} : flusher'[t] = flusher[t] /\ (t \in pools' <=> t \in pools),
           s \in pools' <=> p \in Piped,
           ~Shared => \A t \in Sessions \ {s} : t \in locked => t \in locked',
           ~Shared /\ p \in Held => s \in locked',
           \A t, u \in locked' : t = u,
           s \in inCall' => p \in {"open", "joining"},
           flusher'[s] \in {"recv", "append", "last"} => p \in Used
    PROVE  IInv'
<1>1. /\ pc' \in [Sessions -> Pcs] /\ pc'[s] = p
      /\ \A t \in Sessions \ {s} : pc'[t] = pc[t]
  BY DEF Goto, IInv, TypePart
<1>2. TypePart'  BY <1>1 DEF IInv, TypePart
<1>3. PoolsWhere'  BY <1>1 DEF IInv, PoolsWhere
<1>4. LockWhere'  BY <1>1 DEF IInv, LockWhere
<1>5. LockAlone'  BY DEF LockAlone
<1>6. UsersWhere'  BY <1>1 DEF IInv, UsersWhere
<1> QED  BY <1>2, <1>3, <1>4, <1>5, <1>6 DEF IInv

\* A move that touches neither guards nor users.
LEMMA PlainMove ==
    ASSUME IInv, NEW s \in Sessions, NEW p \in Pcs, Goto(s, p),
           UNCHANGED <<locked, pools, inCall, flusher>>,
           pc[s] \in Piped <=> p \in Piped,
           p \in Held => pc[s] \in Held,
           s \in inCall => p \in {"open", "joining"},
           flusher[s] \in {"recv", "append", "last"} => p \in Used
    PROVE  IInv'
<1>1. /\ pools' \subseteq Sessions /\ locked' \subseteq Sessions
      /\ flusher' \in [Sessions -> {"off", "recv", "append", "last", "done"}]
  BY DEF IInv, TypePart
<1>2. s \in pools' <=> p \in Piped  BY DEF IInv, PoolsWhere
<1>3. ~Shared /\ p \in Held => s \in locked'  BY DEF IInv, LockWhere
<1>4. \A t, u \in locked' : t = u  BY DEF IInv, LockAlone
<1> QED  BY <1>1, <1>2, <1>3, <1>4, Move

\* A session that is not used has no loop in a call and no live flusher.
LEMMA NotUsed ==
    ASSUME IInv, NEW s \in Sessions, pc[s] \notin Used
    PROVE  s \notin inCall /\ flusher[s] \notin {"recv", "append", "last"}
BY DEF IInv, UsersWhere, Used

-----------------------------------------------------------------------------
\* Open.
LEMMA OpeningKeeps ==
    ASSUME IInv, Posix = FALSE, NEW s \in Sessions,
           Reserve(s) \/ Opening(s) \/ PoolsFail(s) \/ OpenFails(s)
    PROVE  IInv'
<1> USE DEF Used, Piped, Held, Pcs
<1>1. CASE Reserve(s)
  <2>1. s \notin inCall /\ flusher[s] \notin {"recv", "append", "last"}
    BY <1>1, NotUsed DEF Reserve
  <2>2. UNCHANGED <<locked, pools, inCall, flusher>> /\ pc[s] = "new"
    BY <1>1 DEF Reserve, log
  <2>3. CASE Shared
    <3>1. Goto(s, "locked")  BY <1>1, <2>3 DEF Reserve
    <3>2. pools' \subseteq Sessions /\ locked' \subseteq Sessions /\ inCall' \subseteq inCall
      BY <2>2 DEF IInv, TypePart
    <3>3. flusher' \in [Sessions -> {"off", "recv", "append", "last", "done"}]
      BY <2>2 DEF IInv, TypePart
    <3>4. s \notin pools'  BY <2>2 DEF IInv, PoolsWhere
    <3>5. \A t, u \in locked' : t = u  BY <2>2 DEF IInv, LockAlone
    <3> QED  BY <2>1, <2>2, <2>3, <3>1, <3>2, <3>3, <3>4, <3>5, Move
  <2>4. CASE ~Shared
    <3>1. Goto(s, "failed") \/ Goto(s, "reserved")  BY <1>1, <2>4 DEF Reserve
    <3> QED  BY <2>1, <2>2, <3>1, PlainMove
  <2> QED  BY <2>3, <2>4
<1>2. CASE TakeLock(s)
  <2>1. s \notin inCall /\ flusher[s] \notin {"recv", "append", "last"}
    BY <1>2, NotUsed DEF TakeLock
  <2>2. UNCHANGED <<pools, inCall, flusher>> /\ pc[s] = "reserved" /\ Goto(s, "locked")
    BY <1>2 DEF TakeLock, log
  <2>3. locked = {} /\ locked' = {s}  BY <1>2 DEF TakeLock, KernelFree
  <2>4. /\ pools' \subseteq Sessions /\ s \notin pools'
        /\ flusher' \in [Sessions -> {"off", "recv", "append", "last", "done"}]
    BY <2>2 DEF IInv, TypePart, PoolsWhere
  <2> QED  BY <2>1, <2>2, <2>3, <2>4, Move
<1>3. CASE Refused(s)
  <2>1. s \notin inCall /\ flusher[s] \notin {"recv", "append", "last"}
    BY <1>3, NotUsed DEF Refused
  <2>2. UNCHANGED <<locked, pools, inCall, flusher>> /\ pc[s] = "reserved" /\ Goto(s, "failed")
    BY <1>3 DEF Refused, log
  <2> QED  BY <2>1, <2>2, PlainMove
<1>4. CASE OpenPools(s)
  <2>1. s \notin inCall /\ flusher[s] \notin {"recv", "append", "last"}
    BY <1>4, NotUsed DEF OpenPools
  <2>2. UNCHANGED <<locked, inCall, flusher>> /\ pc[s] = "locked" /\ Goto(s, "version")
    BY <1>4 DEF OpenPools, log
  <2>3. pools' = pools \cup {s}  BY <1>4 DEF OpenPools
  <2>4. /\ pools' \subseteq Sessions /\ locked' \subseteq Sessions
        /\ flusher' \in [Sessions -> {"off", "recv", "append", "last", "done"}]
    BY <2>2, <2>3 DEF IInv, TypePart
  <2>5. ~Shared => s \in locked'  BY <2>2 DEF IInv, LockWhere
  <2>6. \A t, u \in locked' : t = u  BY <2>2 DEF IInv, LockAlone
  <2> QED  BY <2>1, <2>2, <2>3, <2>4, <2>5, <2>6, Move
<1>5. CASE PoolsFail(s)
  <2>1. s \notin inCall /\ flusher[s] \notin {"recv", "append", "last"}
    BY <1>5, NotUsed DEF PoolsFail
  <2>2. UNCHANGED <<locked, pools, inCall, flusher>> /\ pc[s] = "locked"
    BY <1>5 DEF PoolsFail, guards, log
  <2>3. Goto(s, "failed") \/ Goto(s, "unlock")  BY <1>5 DEF PoolsFail
  <2> QED  BY <2>1, <2>2, <2>3, PlainMove
<1>6. CASE ReadVersion(s) \/ LockMigration(s) \/ OpenFails(s)
  <2>1. /\ UNCHANGED <<locked, pools, inCall, flusher>>
        /\ pc[s] \in {"version", "lockMigration", "migrate", "start"}
    BY <1>6 DEF ReadVersion, LockMigration, OpenFails, guards, log
  <2>2. s \notin inCall /\ flusher[s] \notin {"recv", "append", "last"}  BY <2>1, NotUsed
  <2>3. \E p \in {"closing", "start", "lockMigration", "migrate"} : Goto(s, p)
    BY <1>6 DEF ReadVersion, LockMigration, OpenFails
  <2> QED  BY <2>1, <2>2, <2>3, PlainMove
<1>7. CASE Migrate(s)
  <2>1. UNCHANGED <<locked, pools, inCall, flusher>> /\ pc[s] = "migrate"
    BY <1>7 DEF Migrate, guards, log
  <2>2. s \notin inCall /\ flusher[s] \notin {"recv", "append", "last"}  BY <2>1, NotUsed
  <2>3. pc' = pc \/ \E p \in {"closing", "start", "lockMigration"} : Goto(s, p)
    BY <1>7 DEF Migrate
  <2>4. CASE pc' = pc
    BY <2>1, <2>4 DEF IInv, TypePart, PoolsWhere, LockWhere, LockAlone, UsersWhere
  <2> QED  BY <2>1, <2>2, <2>3, <2>4, PlainMove
<1>8. CASE Start(s)
  <2>1. UNCHANGED <<locked, pools, inCall>> /\ pc[s] = "start" /\ Goto(s, "open")
    BY <1>8 DEF Start, guards
  <2>2. s \notin inCall  BY <2>1, NotUsed
  <2>3. flusher' = [flusher EXCEPT ![s] = "recv"]  BY <1>8 DEF Start
  <2>4. /\ pools' \subseteq Sessions /\ locked' \subseteq Sessions
        /\ flusher' \in [Sessions -> {"off", "recv", "append", "last", "done"}]
        /\ \A t \in Sessions \ {s} : flusher'[t] = flusher[t]
    BY <2>1, <2>3 DEF IInv, TypePart
  <2>5. s \in pools' /\ (~Shared => s \in locked')  BY <2>1 DEF IInv, PoolsWhere, LockWhere
  <2>6. \A t, u \in locked' : t = u  BY <2>1 DEF IInv, LockAlone
  <2> QED  BY <2>1, <2>2, <2>4, <2>5, <2>6, Move
<1> QED  BY <1>1, <1>2, <1>3, <1>4, <1>5, <1>6, <1>7, <1>8 DEF Opening

\* Loops, log lines and the flusher: no session moves.
LEMMA UseKeeps ==
    ASSUME IInv, NEW s \in Sessions, LoopCall(s) \/ LoopReturn(s) \/ TaskLog(s) \/ Flusher(s)
    PROVE  IInv'
<1>1. UNCHANGED <<pc, locked, pools>>
  BY DEF LoopCall, LoopReturn, TaskLog, Flusher, FlushReceive, FlushTimer, FlushEnd, AppendLogs, guards
<1>2. /\ inCall' \subseteq Sessions
      /\ \A t \in Sessions : t \in inCall' => t \in inCall \/ pc[t] = "open"
  BY DEF LoopCall, LoopReturn, TaskLog, Flusher, FlushReceive, FlushTimer, FlushEnd, AppendLogs,
         IInv, TypePart
<1>3. /\ flusher' \in [Sessions -> {"off", "recv", "append", "last", "done"}]
      /\ \A t \in Sessions : flusher'[t] # flusher[t] => flusher[t] \in {"recv", "append", "last"}
  BY DEF LoopCall, LoopReturn, TaskLog, Flusher, FlushReceive, FlushTimer, FlushEnd, AppendLogs,
         log, IInv, TypePart
<1>4. TypePart' /\ PoolsWhere' /\ LockWhere' /\ LockAlone'
  BY <1>1, <1>2, <1>3 DEF IInv, TypePart, PoolsWhere, LockWhere, LockAlone
<1>5. UsersWhere'
  BY <1>1, <1>2, <1>3 DEF IInv, UsersWhere
<1> QED  BY <1>4, <1>5 DEF IInv

\* Close.
LEMMA ClosingKeeps ==
    ASSUME IInv, Posix = FALSE, NEW s \in Sessions, Close(s) \/ Closing(s)
    PROVE  IInv'
<1> USE DEF Used, Piped, Held, Pcs
<1>1. CASE Close(s)
  BY <1>1, PlainMove DEF Close, guards, log, IInv, UsersWhere
<1>2. CASE JoinLoops(s)
  BY <1>2, PlainMove DEF JoinLoops, guards, log
<1>3. CASE SealLog(s) \/ CloseLog(s)
  <2>1. pc[s] \in {"sealing", "sealed"} /\ (Goto(s, "sealed") \/ Goto(s, "flushing"))
    BY <1>3 DEF SealLog, CloseLog
  <2>2. UNCHANGED <<locked, pools, inCall, flusher>>  BY <1>3 DEF SealLog, CloseLog, guards
  <2>3. s \notin inCall  BY <2>1 DEF IInv, UsersWhere
  <2> QED  BY <2>1, <2>2, <2>3, PlainMove
<1>4. CASE JoinFlusher(s)
  <2>1. s \notin inCall  BY <1>4 DEF JoinFlusher, IInv, UsersWhere
  <2> QED  BY <1>4, <2>1, PlainMove DEF JoinFlusher, guards, log
<1>5. CASE ClosePools(s)
  <2>1. s \notin inCall /\ flusher[s] \notin {"recv", "append", "last"}
    BY <1>5, NotUsed DEF ClosePools
  <2>2. UNCHANGED <<locked, inCall, flusher>> /\ pc[s] = "closing" /\ pools' = pools \ {s}
    BY <1>5 DEF ClosePools, log
  <2>3. Goto(s, "gone") \/ Goto(s, "unlock")  BY <1>5 DEF ClosePools
  <2>4. /\ pools' \subseteq Sessions /\ locked' \subseteq Sessions /\ (~Shared => s \in locked')
        /\ flusher' \in [Sessions -> {"off", "recv", "append", "last", "done"}]
    BY <2>2 DEF IInv, TypePart, LockWhere
  <2>5. \A t, u \in locked' : t = u  BY <2>2 DEF IInv, LockAlone
  <2> QED  BY <2>1, <2>2, <2>3, <2>4, <2>5, Move
<1>6. CASE Unlock(s)
  <2>1. s \notin inCall /\ flusher[s] \notin {"recv", "append", "last"}
    BY <1>6, NotUsed DEF Unlock
  <2>2. UNCHANGED <<pools, inCall, flusher>> /\ pc[s] = "unlock" /\ Goto(s, "unregister")
    BY <1>6 DEF Unlock, log
  <2>3. locked' = locked \ {s}  BY <1>6 DEF Unlock, Unlocked
  <2>4. /\ pools' \subseteq Sessions /\ locked' \subseteq Sessions /\ s \notin pools'
        /\ flusher' \in [Sessions -> {"off", "recv", "append", "last", "done"}]
    BY <2>2, <2>3 DEF IInv, TypePart, PoolsWhere
  <2>5. \A t, u \in locked' : t = u  BY <2>3 DEF IInv, LockAlone
  <2> QED  BY <2>1, <2>2, <2>3, <2>4, <2>5, Move
<1>7. CASE Unregister(s)
  <2>1. s \notin inCall /\ flusher[s] \notin {"recv", "append", "last"}
    BY <1>7, NotUsed DEF Unregister
  <2>2. UNCHANGED <<locked, pools, inCall, flusher>> /\ pc[s] = "unregister"
    BY <1>7 DEF Unregister, log
  <2>3. Goto(s, "gone") \/ Goto(s, "failed")  BY <1>7 DEF Unregister
  <2> QED  BY <2>1, <2>2, <2>3, PlainMove
<1> QED  BY <1>1, <1>2, <1>3, <1>4, <1>5, <1>6, <1>7 DEF Closing

\* A crash takes what the process had, and sessions that had ended had nothing.
LEMMA CrashKeeps ==
    ASSUME IInv, NEW p \in Procs, Crash(p)
    PROVE  IInv'
<1> DEFINE dead == {s \in Sessions : Proc[s] = p}
           live == {s \in dead : pc[s] \notin {"new", "failed", "gone", "crashed"}}
<1>1. /\ pc' = [s \in Sessions |-> IF s \in live THEN "crashed" ELSE pc[s]]
      /\ flusher' = [s \in Sessions |-> IF s \in live THEN "off" ELSE flusher[s]]
      /\ locked' = locked \ dead /\ pools' = pools \ dead /\ inCall' = inCall \ dead
  BY DEF Crash
<1>2. live \subseteq dead /\ \A s \in dead \ live : pc[s] \in {"new", "failed", "gone", "crashed"}
  OBVIOUS
<1>3. dead \subseteq Sessions  OBVIOUS
<1> HIDE DEF dead, live
<1>4. TypePart'  BY <1>1, <1>2, <1>3 DEF IInv, TypePart, Pcs
<1>5. PoolsWhere'  BY <1>1, <1>2, <1>3 DEF IInv, TypePart, PoolsWhere, Piped, Used
<1>6. LockWhere'  BY <1>1, <1>2, <1>3 DEF IInv, LockWhere, Held, Piped, Used
<1>7. LockAlone'  BY <1>1 DEF IInv, LockAlone
<1>8. UsersWhere'  BY <1>1, <1>2, <1>3 DEF IInv, UsersWhere, Used
<1> QED  BY <1>4, <1>5, <1>6, <1>7, <1>8 DEF IInv

-----------------------------------------------------------------------------
LEMMA Inductive ==
    ASSUME IInv, Posix = FALSE, [Next]_vars
    PROVE  IInv'
<1>1. CASE UNCHANGED vars
  BY <1>1 DEF vars, guards, log, IInv, TypePart, PoolsWhere, LockWhere, LockAlone, UsersWhere
<1>2. CASE Next
  BY <1>2, OpeningKeeps, UseKeeps, ClosingKeeps, CrashKeeps DEF Next
<1> QED  BY <1>1, <1>2

LEMMA Initial == Init => IInv
BY DEF Init, IInv, TypePart, PoolsWhere, LockWhere, LockAlone, UsersWhere, Pcs, Held, Piped, Used

\* The sets that are small are small: at most one session has pools.
LEMMA Alone == IInv => SingleWriter
<1> SUFFICES ASSUME IInv PROVE SingleWriter  OBVIOUS
<1>1. Shared \/ Cardinality(pools) <= 1
  <2> SUFFICES ASSUME ~Shared PROVE Cardinality(pools) <= 1  OBVIOUS
  <2>1. \A s, t \in pools : s = t
    BY DEF IInv, TypePart, PoolsWhere, LockWhere, LockAlone, Held
  <2>2. CASE pools = {}  BY <2>2, FS_EmptySet
  <2>3. CASE \E s : pools = {s}  BY <2>3, FS_Singleton
  <2> QED  BY <2>1, <2>2, <2>3
<1>2. \A s \in Sessions : (s \in inCall \/ flusher[s] \in {"append", "last"}) => s \in pools
  BY DEF IInv, UsersWhere, PoolsWhere, Piped, Used
<1> QED  BY <1>1, <1>2 DEF SingleWriter

\* lock.go, Store.Close, Engine.Close: where kernel locks belong to open files,
\* at most one session of all processes has the file open, through every failed
\* Open, overlapping Close and crash, and no loop or flusher outlives the pools.
THEOREM OneWriter == (Posix = FALSE) => (Spec => []SingleWriter)
<1> SUFFICES ASSUME Posix = FALSE PROVE Spec => []SingleWriter  OBVIOUS
<1>1. IInv /\ [Next]_vars => IInv'  BY Inductive
<1> QED  BY Initial, <1>1, Alone, PTL DEF Spec
-----------------------------------------------------------------------------
(* The task log: what the storage sink accepted is on its way in order.     *)

\* Of n lines accepted, the channel c holds the last ones, the batch b those
\* before them, and every earlier one is in the table d or among the lost l.
Transit(n, c, b, d, l) ==
    LET k == n - Len(c) - Len(b)
    IN /\ k \in Nat
       /\ Range(d) \cup l = 1 .. k
       /\ \A i, j \in DOMAIN d : i < j => d[i] < d[j]
       /\ \A i \in DOMAIN b : b[i] = k + i
       /\ \A i \in DOMAIN c : c[i] = k + Len(b) + i

LogTypes ==
    /\ TypePart /\ opened \subseteq Sessions
    /\ sealed \in [Sessions -> BOOLEAN] /\ closedCh \in [Sessions -> BOOLEAN]
    /\ ch \in [Sessions -> Seq(Nat)] /\ batch \in [Sessions -> Seq(Nat)]
    /\ lines \in [Sessions -> Nat] /\ stored \in [Sessions -> Seq(Nat)]
    /\ lost \in [Sessions -> SUBSET Nat]

Ending == {"closing", "unlock", "unregister", "gone"}

\* Where a session that was open can be, and the order in which its log ends:
\* sealed, closed, drained, flushed, joined.
LogEnds == \A s \in Sessions :
    /\ s \in opened => pc[s] \in Used \cup Ending \cup {"crashed"}
    /\ closedCh[s] \/ pc[s] = "sealed" => sealed[s]
    /\ flusher[s] \in {"last", "done"} => closedCh[s] /\ ch[s] = <<>>
    /\ flusher[s] = "done" => batch[s] = <<>>
    /\ s \in opened /\ pc[s] \in Ending => flusher[s] = "done"
    /\ pc[s] = "crashed" => flusher[s] = "off"

InTransit == \A s \in Sessions :
    pc[s] # "crashed" => Transit(lines[s], ch[s], batch[s], stored[s], lost[s])

LogInv == LogTypes /\ LogEnds /\ InTransit

\* A line is accepted.
LEMMA LineAccepted ==
    ASSUME NEW n \in Nat, NEW c \in Seq(Nat), NEW b \in Seq(Nat), NEW d \in Seq(Nat), NEW l,
           Transit(n, c, b, d, l)
    PROVE  Transit(n + 1, Append(c, n + 1), b, d, l)
<1> DEFINE e == Append(c, n + 1)
           k == n - Len(c) - Len(b)
<1>1. e \in Seq(Nat) /\ Len(e) = Len(c) + 1 /\ DOMAIN e = 1 .. Len(c) + 1
      /\ e[Len(c) + 1] = n + 1 /\ \A i \in 1 .. Len(c) : e[i] = c[i]
  OBVIOUS
<1>2. DOMAIN c = 1 .. Len(c) /\ Len(c) \in Nat /\ Len(b) \in Nat  OBVIOUS
<1>3. n + 1 - Len(e) - Len(b) = k  BY <1>1, <1>2
<1>4. \A i \in DOMAIN e : e[i] = k + Len(b) + i
  BY <1>1, <1>2 DEF Transit
<1>5. /\ k \in Nat /\ Range(d) \cup l = 1 .. k /\ \A i, j \in DOMAIN d : i < j => d[i] < d[j]
      /\ \A i \in DOMAIN b : b[i] = k + i
  BY DEF Transit
<1> HIDE DEF e, k
<1>6. Transit(n + 1, e, b, d, l)
  <2>1. ASSUME NEW m, m = n + 1 PROVE Transit(m, e, b, d, l)
    <3>1. m - Len(e) - Len(b) = k  BY <1>3, <2>1
    <3> QED  BY <1>4, <1>5, <3>1 DEF Transit
  <2> QED  BY <2>1
<1> QED  BY <1>6 DEF e

\* The flusher takes a line from the channel.
LEMMA LineReceived ==
    ASSUME NEW n \in Nat, NEW c \in Seq(Nat), NEW b \in Seq(Nat), NEW d \in Seq(Nat), NEW l,
           Transit(n, c, b, d, l), c # <<>>
    PROVE  Transit(n, Tail(c), Append(b, Head(c)), d, l)
<1> DEFINE e == Tail(c)
           f == Append(b, Head(c))
           k == n - Len(c) - Len(b)
<1>1. Len(c) \in Nat \ {0} /\ Len(b) \in Nat /\ DOMAIN c = 1 .. Len(c) /\ DOMAIN b = 1 .. Len(b)
      /\ Head(c) = c[1] /\ Head(c) \in Nat
  OBVIOUS
<1>2. Len(e) = Len(c) - 1 /\ DOMAIN e = 1 .. Len(c) - 1 /\ \A i \in 1 .. Len(c) - 1 : e[i] = c[i + 1]
  BY <1>1
<1>3. Len(f) = Len(b) + 1 /\ DOMAIN f = 1 .. Len(b) + 1 /\ f[Len(b) + 1] = c[1]
      /\ \A i \in 1 .. Len(b) : f[i] = b[i]
  BY <1>1
<1> HIDE DEF e, f
<1>4. n - Len(e) - Len(f) = k  BY <1>1, <1>2, <1>3
<1>5. \A i \in DOMAIN f : f[i] = k + i
  <2> SUFFICES ASSUME NEW i \in DOMAIN f PROVE f[i] = k + i  OBVIOUS
  <2>1. CASE i \in 1 .. Len(b)  BY <1>1, <1>3, <2>1 DEF Transit
  <2>2. CASE i = Len(b) + 1
    <3>1. 1 \in DOMAIN c  BY <1>1
    <3>2. c[1] = k + Len(b) + 1 /\ k \in Nat  BY <3>1 DEF Transit
    <3> QED  BY <1>1, <1>3, <2>2, <3>2
  <2> QED  BY <1>1, <1>3, <2>1, <2>2
<1>6. \A i \in DOMAIN e : e[i] = k + Len(f) + i
  <2> SUFFICES ASSUME NEW i \in DOMAIN e PROVE e[i] = k + Len(f) + i  OBVIOUS
  <2>1. i + 1 \in DOMAIN c /\ e[i] = c[i + 1] /\ i \in Nat  BY <1>1, <1>2
  <2>2. c[i + 1] = k + Len(b) + (i + 1)  BY <2>1 DEF Transit
  <2> QED  BY <1>1, <1>3, <2>1, <2>2
<1>7. k \in Nat /\ Range(d) \cup l = 1 .. k /\ \A i, j \in DOMAIN d : i < j => d[i] < d[j]
  BY DEF Transit
<1> HIDE DEF k
<1>8. Transit(n, e, f, d, l)  BY <1>4, <1>5, <1>6, <1>7 DEF Transit
<1> QED  BY <1>8 DEF e, f

\* The batch is the next lines after those that are stored or lost.
LEMMA BatchIsNext ==
    ASSUME NEW n \in Nat, NEW c \in Seq(Nat), NEW b \in Seq(Nat), NEW d \in Seq(Nat), NEW l,
           Transit(n, c, b, d, l), NEW k, k = n - Len(c) - Len(b)
    PROVE  /\ k \in Nat /\ k + Len(b) \in Nat /\ n - Len(c) - Len(<<>>) = k + Len(b)
           /\ (1 .. k) \cup Range(b) = 1 .. k + Len(b)
           /\ \A i \in DOMAIN c : c[i] = k + Len(b) + Len(<<>>) + i
<1>1. Len(c) \in Nat /\ Len(b) \in Nat /\ DOMAIN b = 1 .. Len(b) /\ Len(<<>>) = 0 /\ k \in Nat
  BY DEF Transit
<1>2. \A i \in 1 .. Len(b) : b[i] = k + i  BY <1>1 DEF Transit
<1>3. Range(b) = {b[i] : i \in 1 .. Len(b)}  BY <1>1 DEF Range
<1>4. ASSUME NEW x \in 1 .. k + Len(b), ~(x \in 1 .. k)
      PROVE  x \in Range(b)
  <2>1. x - k \in 1 .. Len(b) /\ k + (x - k) = x  BY <1>1, <1>4
  <2>2. b[x - k] = x  BY <1>2, <2>1
  <2> QED  BY <1>3, <2>1, <2>2
<1>5. \A x \in Range(b) : x \in 1 .. k + Len(b)  BY <1>1, <1>2, <1>3
<1>6. \A x \in 1 .. k : x \in 1 .. k + Len(b)  BY <1>1
<1>7. (1 .. k) \cup Range(b) = 1 .. k + Len(b)  BY <1>4, <1>5, <1>6
<1>8. \A i \in DOMAIN c : c[i] = k + Len(b) + Len(<<>>) + i
  <2> SUFFICES ASSUME NEW i \in DOMAIN c PROVE c[i] = k + Len(b) + Len(<<>>) + i  OBVIOUS
  <2>1. i \in Nat /\ c[i] = k + Len(b) + i  BY DEF Transit
  <2> QED  BY <1>1, <2>1
<1> QED  BY <1>1, <1>7, <1>8

\* The batch is stored.
LEMMA BatchStored ==
    ASSUME NEW n \in Nat, NEW c \in Seq(Nat), NEW b \in Seq(Nat), NEW d \in Seq(Nat), NEW l,
           Transit(n, c, b, d, l)
    PROVE  Transit(n, c, <<>>, d \o b, l)
<1> DEFINE k == n - Len(c) - Len(b)
           e == d \o b
<1>1. Len(c) \in Nat /\ Len(b) \in Nat /\ Len(d) \in Nat /\ k \in Nat
      /\ DOMAIN b = 1 .. Len(b) /\ DOMAIN d = 1 .. Len(d)
  BY DEF Transit
<1>2. /\ DOMAIN e = 1 .. Len(d) + Len(b)
      /\ \A i \in 1 .. Len(d) : e[i] = d[i]
      /\ \A i \in 1 .. Len(d) + Len(b) : i > Len(d) => e[i] = b[i - Len(d)]
  OBVIOUS
<1>3. Range(d) \cup l = 1 .. k /\ \A i, j \in DOMAIN d : i < j => d[i] < d[j]  BY DEF Transit
<1>4. \A i \in 1 .. Len(b) : b[i] = k + i  BY <1>1 DEF Transit
<1>5. /\ k + Len(b) \in Nat /\ n - Len(c) - Len(<<>>) = k + Len(b)
      /\ (1 .. k) \cup Range(b) = 1 .. k + Len(b)
      /\ \A i \in DOMAIN c : c[i] = k + Len(b) + Len(<<>>) + i
  BY BatchIsNext
<1> HIDE DEF e, k
<1>6. \A i \in 1 .. Len(d) : d[i] \in 1 .. k
  <2>1. Range(d) = {d[i] : i \in 1 .. Len(d)}  BY <1>1 DEF Range
  <2> QED  BY <1>3, <2>1
<1>7. Range(e) = Range(d) \cup Range(b)
  <2>1. /\ Range(d) = {d[i] : i \in 1 .. Len(d)} /\ Range(b) = {b[i] : i \in 1 .. Len(b)}
        /\ Range(e) = {e[i] : i \in 1 .. Len(d) + Len(b)}
    BY <1>1, <1>2 DEF Range
  <2>2. ASSUME NEW i \in 1 .. Len(d) + Len(b) PROVE e[i] \in Range(d) \cup Range(b)
    <3>1. CASE i <= Len(d)  BY <1>1, <1>2, <2>1, <3>1
    <3>2. CASE i > Len(d)
      <4>1. i - Len(d) \in 1 .. Len(b)  BY <1>1, <3>2
      <4> QED  BY <1>2, <2>1, <3>2, <4>1
    <3> QED  BY <1>1, <3>1, <3>2
  <2>3. ASSUME NEW i \in 1 .. Len(d) PROVE d[i] \in Range(e)
    <3>1. i \in 1 .. Len(d) + Len(b)  BY <1>1
    <3> QED  BY <1>2, <2>1, <3>1
  <2>4. ASSUME NEW i \in 1 .. Len(b) PROVE b[i] \in Range(e)
    <3>1. Len(d) + i \in 1 .. Len(d) + Len(b) /\ Len(d) + i > Len(d) /\ (Len(d) + i) - Len(d) = i  BY <1>1
    <3>2. e[Len(d) + i] = b[i]  BY <1>2, <3>1
    <3> QED  BY <2>1, <3>1, <3>2
  <2> QED  BY <2>1, <2>2, <2>3, <2>4
<1>8. Range(e) \cup l = 1 .. k + Len(b)  BY <1>3, <1>5, <1>7
<1>9. ASSUME NEW i \in DOMAIN e, NEW j \in DOMAIN e, i < j
      PROVE  e[i] < e[j]
  <2>1. i \in Nat /\ j \in Nat /\ i >= 1 /\ j <= Len(d) + Len(b)  BY <1>1, <1>2
  <2>2. CASE j <= Len(d)
    <3>1. i \in 1 .. Len(d) /\ j \in 1 .. Len(d)  BY <1>1, <1>9, <2>1, <2>2
    <3> QED  BY <1>1, <1>2, <1>3, <1>9, <3>1
  <2>3. CASE i <= Len(d) /\ j > Len(d)
    <3>1. i \in 1 .. Len(d) /\ j - Len(d) \in 1 .. Len(b)  BY <1>1, <2>1, <2>3
    <3>2. e[i] = d[i] /\ d[i] \in 1 .. k /\ e[j] = b[j - Len(d)] /\ b[j - Len(d)] = k + (j - Len(d))
      BY <1>2, <1>4, <1>6, <2>3, <3>1
    <3> QED  BY <1>1, <2>1, <2>3, <3>1, <3>2
  <2>4. CASE i > Len(d)
    <3>1. i - Len(d) \in 1 .. Len(b) /\ j - Len(d) \in 1 .. Len(b)  BY <1>1, <1>9, <2>1, <2>4
    <3>2. j > Len(d)  BY <1>1, <1>9, <2>1, <2>4
    <3>3. e[i] = b[i - Len(d)] /\ e[j] = b[j - Len(d)]  BY <1>2, <2>4, <3>2
    <3>4. e[i] = k + (i - Len(d)) /\ e[j] = k + (j - Len(d))  BY <1>4, <3>1, <3>3
    <3> QED  BY <1>1, <1>9, <2>1, <3>4
  <2> QED  BY <1>1, <2>1, <2>2, <2>3, <2>4
<1>10. DOMAIN <<>> = {}  OBVIOUS
<1>11. Transit(n, c, <<>>, e, l)  BY <1>5, <1>8, <1>9, <1>10 DEF Transit
<1> QED  BY <1>11 DEF e

\* The append fails and the batch is lost.
LEMMA BatchLost ==
    ASSUME NEW n \in Nat, NEW c \in Seq(Nat), NEW b \in Seq(Nat), NEW d \in Seq(Nat), NEW l,
           Transit(n, c, b, d, l)
    PROVE  Transit(n, c, <<>>, d, l \cup Range(b))
<1> DEFINE k == n - Len(c) - Len(b)
<1>1. Range(d) \cup l = 1 .. k /\ \A i, j \in DOMAIN d : i < j => d[i] < d[j]  BY DEF Transit
<1>2. /\ k + Len(b) \in Nat /\ n - Len(c) - Len(<<>>) = k + Len(b)
      /\ (1 .. k) \cup Range(b) = 1 .. k + Len(b)
      /\ \A i \in DOMAIN c : c[i] = k + Len(b) + Len(<<>>) + i
  BY BatchIsNext
<1> HIDE DEF k
<1>3. Range(d) \cup (l \cup Range(b)) = 1 .. k + Len(b)  BY <1>1, <1>2
<1>4. DOMAIN <<>> = {}  OBVIOUS
<1> QED  BY <1>1, <1>2, <1>3, <1>4 DEF Transit

-----------------------------------------------------------------------------
\* A session that moves and leaves every log alone.
LEMMA LogUntouched ==
    ASSUME LogInv, NEW s \in Sessions, NEW p \in Pcs, Goto(s, p), UNCHANGED <<log, opened>>,
           LogTypes', pc[s] # "crashed", p \notin {"crashed", "sealed"},
           s \in opened => p \in Used \cup Ending,
           s \in opened /\ p \in Ending => flusher[s] = "done"
    PROVE  LogInv'
<1>1. pc'[s] = p /\ \A t \in Sessions \ {s} : pc'[t] = pc[t]  BY DEF Goto, LogInv, LogTypes, TypePart
<1>2. UNCHANGED <<sealed, closedCh, ch, batch, flusher, lines, stored, lost, opened>>  BY DEF log
<1>3. LogEnds'
  <2> SUFFICES ASSUME NEW t \in Sessions
               PROVE  /\ t \in opened => pc'[t] \in Used \cup Ending \cup {"crashed"}
                      /\ closedCh[t] \/ pc'[t] = "sealed" => sealed[t]
                      /\ flusher[t] \in {"last", "done"} => closedCh[t] /\ ch[t] = <<>>
                      /\ flusher[t] = "done" => batch[t] = <<>>
                      /\ t \in opened /\ pc'[t] \in Ending => flusher[t] = "done"
                      /\ pc'[t] = "crashed" => flusher[t] = "off"
    BY <1>2 DEF LogEnds
  <2>1. CASE t = s  BY <1>1, <2>1 DEF LogInv, LogEnds
  <2>2. CASE t # s
    <3>1. pc'[t] = pc[t]  BY <1>1, <2>2
    <3> QED  BY <3>1 DEF LogInv, LogEnds
  <2> QED  BY <2>1, <2>2
<1>4. InTransit'  BY <1>1, <1>2 DEF LogInv, InTransit
<1> QED  BY <1>3, <1>4 DEF LogInv

\* Opens and Closes.
LEMMA MovesKeepLog ==
    ASSUME LogInv, NEW s \in Sessions,
           Reserve(s) \/ Opening(s) \/ PoolsFail(s) \/ OpenFails(s) \/ Close(s) \/ Closing(s)
    PROVE  LogInv'
<1> USE DEF Used, Ending, Piped, Held, Pcs
<1>0. pc \in [Sessions -> Pcs] /\ locked \subseteq Sessions /\ pools \subseteq Sessions
  BY DEF LogInv, LogTypes, TypePart
<1>1. ASSUME NEW p \in Pcs, Goto(s, p), UNCHANGED <<log, opened, inCall>>,
             locked' \subseteq locked \cup {s}, pools' \subseteq pools \cup {s},
             pc[s] # "crashed", p \notin {"crashed", "sealed"},
             s \in opened => p \in Used \cup Ending,
             s \in opened /\ p \in Ending => flusher[s] = "done"
      PROVE  LogInv'
  <2>1. LogTypes'
    <3>1. pc' \in [Sessions -> Pcs]  BY <1>0, <1>1 DEF Goto
    <3>2. TypePart'  BY <1>1, <3>1 DEF log, LogInv, LogTypes, TypePart
    <3> QED  BY <1>1, <3>2 DEF log, LogInv, LogTypes
  <2> QED  BY <1>1, <2>1, LogUntouched
<1>2. CASE Reserve(s) \/ TakeLock(s) \/ Refused(s) \/ OpenPools(s) \/ PoolsFail(s)
  <2>1. /\ pc[s] \in {"new", "reserved", "locked"} /\ UNCHANGED <<log, opened, inCall>>
        /\ locked' \subseteq locked \cup {s} /\ pools' \subseteq pools \cup {s}
    BY <1>2 DEF Reserve, TakeLock, Refused, OpenPools, PoolsFail, guards
  <2>2. s \notin opened  BY <2>1 DEF LogInv, LogEnds
  <2>3. \E p \in {"locked", "failed", "reserved", "version", "unlock"} : Goto(s, p)
    BY <1>2 DEF Reserve, TakeLock, Refused, OpenPools, PoolsFail
  <2> QED  BY <1>1, <2>1, <2>2, <2>3
<1>3. CASE ReadVersion(s) \/ LockMigration(s) \/ Migrate(s) \/ OpenFails(s)
  <2>1. /\ pc[s] \in {"version", "lockMigration", "migrate", "start"}
        /\ UNCHANGED <<log, opened, inCall, locked, pools>>
    BY <1>3 DEF ReadVersion, LockMigration, Migrate, OpenFails, guards
  <2>2. s \notin opened  BY <2>1 DEF LogInv, LogEnds
  <2>3. pc' = pc \/ \E p \in {"closing", "start", "lockMigration", "migrate"} : Goto(s, p)
    BY <1>3 DEF ReadVersion, LockMigration, Migrate, OpenFails
  <2>4. CASE pc' = pc
    BY <2>1, <2>4 DEF log, LogInv, LogTypes, TypePart, LogEnds, InTransit
  <2> QED  BY <1>1, <2>1, <2>2, <2>3, <2>4
<1>4. CASE Start(s)
  <2>1. /\ pc[s] = "start" /\ opened' = opened \cup {s} /\ flusher' = [flusher EXCEPT ![s] = "recv"]
        /\ UNCHANGED <<locked, pools, inCall, sealed, closedCh, ch, batch, lines, stored, lost>>
        /\ Goto(s, "open")
    BY <1>4 DEF Start, guards
  <2>2. /\ pc' \in [Sessions -> Pcs] /\ pc'[s] = "open" /\ \A t \in Sessions \ {s} : pc'[t] = pc[t]
        /\ flusher'[s] = "recv" /\ \A t \in Sessions \ {s} : flusher'[t] = flusher[t]
    BY <1>0, <2>1 DEF Goto, LogInv, LogTypes, TypePart
  <2>3. LogTypes'  BY <2>1, <2>2 DEF LogInv, LogTypes, TypePart
  <2>4. LogEnds'
    <3> SUFFICES ASSUME NEW t \in Sessions
                 PROVE  /\ t \in opened' => pc'[t] \in Used \cup Ending \cup {"crashed"}
                        /\ closedCh[t] \/ pc'[t] = "sealed" => sealed[t]
                        /\ flusher'[t] \in {"last", "done"} => closedCh[t] /\ ch[t] = <<>>
                        /\ flusher'[t] = "done" => batch[t] = <<>>
                        /\ t \in opened' /\ pc'[t] \in Ending => flusher'[t] = "done"
                        /\ pc'[t] = "crashed" => flusher'[t] = "off"
      BY <2>1 DEF LogEnds
    <3>1. CASE t = s  BY <2>2, <3>1 DEF LogInv, LogEnds
    <3>2. CASE t # s  BY <2>1, <2>2, <3>2 DEF LogInv, LogEnds
    <3> QED  BY <3>1, <3>2
  <2>5. InTransit'  BY <2>1, <2>2 DEF LogInv, InTransit
  <2> QED  BY <2>3, <2>4, <2>5 DEF LogInv
<1>5. CASE Close(s) \/ JoinLoops(s) \/ JoinFlusher(s) \/ ClosePools(s) \/ Unlock(s) \/ Unregister(s)
  <2>1. /\ UNCHANGED <<log, opened, inCall>>
        /\ locked' \subseteq locked \cup {s} /\ pools' \subseteq pools \cup {s}
        /\ pc[s] \in {"open", "joining", "flushing", "closing", "unlock", "unregister"}
    BY <1>5 DEF Close, JoinLoops, JoinFlusher, ClosePools, Unlock, Unregister, Unlocked, guards
  <2>2. \E p \in {"joining", "sealing", "closing", "gone", "unlock", "unregister", "failed"} :
           /\ Goto(s, p)
           /\ s \in opened => p # "failed"
           /\ p \in Ending => flusher[s] = "done" \/ pc[s] \in Ending
    BY <1>5 DEF Close, JoinLoops, JoinFlusher, ClosePools, Unlock, Unregister
  <2>3. s \in opened /\ pc[s] \in Ending => flusher[s] = "done"  BY DEF LogInv, LogEnds
  <2> QED  BY <1>1, <2>1, <2>2, <2>3
<1>6. CASE SealLog(s) \/ CloseLog(s)
  <2>1. /\ UNCHANGED <<locked, pools, inCall, opened, ch, batch, flusher, lines, stored, lost>>
        /\ pc[s] \in {"sealing", "sealed"}
        /\ \E p \in {"sealed", "flushing"} : Goto(s, p)
        /\ \/ sealed' = [sealed EXCEPT ![s] = TRUE] /\ closedCh' = closedCh
           \/ pc[s] = "sealed" /\ closedCh' = [closedCh EXCEPT ![s] = TRUE] /\ sealed' = sealed
    BY <1>6 DEF SealLog, CloseLog, guards
  <2>2. PICK p \in {"sealed", "flushing"} : Goto(s, p)  BY <2>1
  <2>3. pc' \in [Sessions -> Pcs] /\ pc'[s] = p /\ \A t \in Sessions \ {s} : pc'[t] = pc[t]
    BY <1>0, <2>2 DEF Goto
  <2>4. sealed' \in [Sessions -> BOOLEAN] /\ closedCh' \in [Sessions -> BOOLEAN]
    BY <2>1 DEF LogInv, LogTypes
  <2>5. LogTypes'  BY <2>1, <2>3, <2>4 DEF LogInv, LogTypes, TypePart
  <2>6. sealed[s] \/ pc[s] # "sealed"  BY DEF LogInv, LogEnds
  <2>7. /\ sealed'[s] /\ (closedCh[s] => closedCh'[s])
        /\ \A t \in Sessions \ {s} : sealed'[t] = sealed[t] /\ closedCh'[t] = closedCh[t]
    BY <2>1, <2>6 DEF LogInv, LogTypes
  <2>8. LogEnds'
    <3> SUFFICES ASSUME NEW t \in Sessions
                 PROVE  /\ t \in opened => pc'[t] \in Used \cup Ending \cup {"crashed"}
                        /\ closedCh'[t] \/ pc'[t] = "sealed" => sealed'[t]
                        /\ flusher[t] \in {"last", "done"} => closedCh'[t] /\ ch[t] = <<>>
                        /\ flusher[t] = "done" => batch[t] = <<>>
                        /\ t \in opened /\ pc'[t] \in Ending => flusher[t] = "done"
                        /\ pc'[t] = "crashed" => flusher[t] = "off"
      BY <2>1 DEF LogEnds
    <3>1. CASE t = s  BY <2>3, <2>7, <3>1 DEF LogInv, LogEnds
    <3>2. CASE t # s  BY <2>3, <2>7, <3>2 DEF LogInv, LogEnds
    <3> QED  BY <3>1, <3>2
  <2>9. InTransit'  BY <2>1, <2>3 DEF LogInv, InTransit
  <2> QED  BY <2>5, <2>8, <2>9 DEF LogInv
<1> QED  BY <1>2, <1>3, <1>4, <1>5, <1>6 DEF Opening, Closing

\* One session's log moves on.
LEMMA LogMoves ==
    ASSUME LogInv, NEW s \in Sessions, pc[s] # "crashed",
           UNCHANGED <<pc, guards, inCall, opened, sealed, closedCh>>, LogTypes',
           \A t \in Sessions \ {s} : /\ ch'[t] = ch[t] /\ batch'[t] = batch[t] /\ flusher'[t] = flusher[t]
                                     /\ lines'[t] = lines[t] /\ stored'[t] = stored[t] /\ lost'[t] = lost[t],
           Transit(lines'[s], ch'[s], batch'[s], stored'[s], lost'[s]),
           flusher'[s] \in {"last", "done"} => closedCh[s] /\ ch'[s] = <<>>,
           flusher'[s] = "done" => batch'[s] = <<>>,
           flusher[s] = "done" => flusher'[s] = "done"
    PROVE  LogInv'
<1>1. LogEnds'
  <2> SUFFICES ASSUME NEW t \in Sessions
               PROVE  /\ t \in opened => pc[t] \in Used \cup Ending \cup {"crashed"}
                      /\ closedCh[t] \/ pc[t] = "sealed" => sealed[t]
                      /\ flusher'[t] \in {"last", "done"} => closedCh[t] /\ ch'[t] = <<>>
                      /\ flusher'[t] = "done" => batch'[t] = <<>>
                      /\ t \in opened /\ pc[t] \in Ending => flusher'[t] = "done"
                      /\ pc[t] = "crashed" => flusher'[t] = "off"
    BY DEF LogEnds
  <2>1. CASE t = s  BY <2>1 DEF LogInv, LogEnds
  <2>2. CASE t # s  BY <2>2 DEF LogInv, LogEnds
  <2> QED  BY <2>1, <2>2
<1>2. InTransit'
  <2> SUFFICES ASSUME NEW t \in Sessions, pc[t] # "crashed"
               PROVE  Transit(lines'[t], ch'[t], batch'[t], stored'[t], lost'[t])
    BY DEF InTransit
  <2>1. CASE t # s  BY <2>1 DEF LogInv, InTransit
  <2> QED  BY <2>1
<1> QED  BY <1>1, <1>2 DEF LogInv

\* Loops, log lines and the flusher.
LEMMA UseKeepsLog ==
    ASSUME LogInv, NEW s \in Sessions, LoopCall(s) \/ LoopReturn(s) \/ TaskLog(s) \/ Flusher(s)
    PROVE  LogInv'
<1>1. /\ lines[s] \in Nat /\ ch[s] \in Seq(Nat) /\ batch[s] \in Seq(Nat) /\ stored[s] \in Seq(Nat)
      /\ lost[s] \in SUBSET Nat
      /\ flusher[s] \in {"recv", "append", "last"} => pc[s] # "crashed"
      /\ pc[s] # "crashed" => Transit(lines[s], ch[s], batch[s], stored[s], lost[s])
      /\ closedCh[s] => sealed[s]
      /\ flusher[s] \in {"last", "done"} => closedCh[s] /\ ch[s] = <<>>
      /\ flusher[s] = "done" => batch[s] = <<>>
  BY DEF LogInv, LogTypes, LogEnds, InTransit
<1>2. CASE LoopCall(s) \/ LoopReturn(s)
  <2>1. UNCHANGED <<pc, locked, pools, opened, log>> /\ inCall' \subseteq Sessions
    BY <1>2 DEF LoopCall, LoopReturn, guards, LogInv, LogTypes, TypePart
  <2> QED  BY <2>1 DEF log, LogInv, LogTypes, TypePart, LogEnds, InTransit
<1>3. CASE TaskLog(s)
  <2>1. /\ lines' = [lines EXCEPT ![s] = lines[s] + 1] /\ ch' = [ch EXCEPT ![s] = Append(ch[s], lines[s] + 1)]
        /\ UNCHANGED <<pc, guards, inCall, opened, sealed, closedCh, batch, flusher, stored, lost>>
        /\ ~sealed[s] /\ pc[s] # "crashed"
    BY <1>3 DEF TaskLog
  <2>2. lines' \in [Sessions -> Nat] /\ ch' \in [Sessions -> Seq(Nat)]  BY <1>1, <2>1 DEF LogInv, LogTypes
  <2>3. LogTypes'  BY <2>1, <2>2 DEF guards, LogInv, LogTypes, TypePart
  <2>4. Transit(lines[s] + 1, Append(ch[s], lines[s] + 1), batch[s], stored[s], lost[s])
    BY <1>1, <2>1, LineAccepted
  <2>5. lines'[s] = lines[s] + 1 /\ ch'[s] = Append(ch[s], lines[s] + 1)  BY <2>1 DEF LogInv, LogTypes
  <2>6. Transit(lines'[s], ch'[s], batch'[s], stored'[s], lost'[s])  BY <2>1, <2>4, <2>5
  <2>7. \A t \in Sessions \ {s} : ch'[t] = ch[t] /\ lines'[t] = lines[t]  BY <2>1 DEF LogInv, LogTypes
  <2>8. flusher[s] \notin {"last", "done"}  BY <1>1, <2>1
  <2> QED  BY <2>1, <2>3, <2>6, <2>7, <2>8, LogMoves
<1>4. CASE FlushReceive(s)
  <2>1. /\ flusher[s] = "recv" /\ ch[s] # <<>>
        /\ ch' = [ch EXCEPT ![s] = Tail(ch[s])] /\ batch' = [batch EXCEPT ![s] = Append(batch[s], Head(ch[s]))]
        /\ \E f \in {"recv", "append"} : flusher' = [flusher EXCEPT ![s] = f]
        /\ UNCHANGED <<pc, guards, inCall, opened, sealed, closedCh, lines, stored, lost>>
    BY <1>4 DEF FlushReceive
  <2>2. Tail(ch[s]) \in Seq(Nat) /\ Append(batch[s], Head(ch[s])) \in Seq(Nat)  BY <1>1, <2>1
  <2>3. ch' \in [Sessions -> Seq(Nat)] /\ batch' \in [Sessions -> Seq(Nat)]
    BY <2>1, <2>2 DEF LogInv, LogTypes
  <2>4. LogTypes'  BY <2>1, <2>3 DEF guards, LogInv, LogTypes, TypePart
  <2>5. Transit(lines[s], Tail(ch[s]), Append(batch[s], Head(ch[s])), stored[s], lost[s])
    BY <1>1, <2>1, LineReceived
  <2>6. /\ ch'[s] = Tail(ch[s]) /\ batch'[s] = Append(batch[s], Head(ch[s])) /\ flusher'[s] \in {"recv", "append"}
        /\ \A t \in Sessions \ {s} : ch'[t] = ch[t] /\ batch'[t] = batch[t] /\ flusher'[t] = flusher[t]
    BY <2>1 DEF LogInv, LogTypes, TypePart
  <2>7. Transit(lines'[s], ch'[s], batch'[s], stored'[s], lost'[s])  BY <2>1, <2>5, <2>6
  <2> QED  BY <1>1, <2>1, <2>4, <2>6, <2>7, LogMoves
<1>5. CASE FlushTimer(s) \/ FlushEnd(s)
  <2>1. /\ flusher[s] = "recv"
        /\ \E f \in {"append", "last", "done"} :
              /\ flusher' = [flusher EXCEPT ![s] = f]
              /\ f \in {"last", "done"} => closedCh[s] /\ ch[s] = <<>>
              /\ f = "done" => batch[s] = <<>>
        /\ UNCHANGED <<pc, guards, inCall, opened, sealed, closedCh, ch, batch, lines, stored, lost>>
    BY <1>5 DEF FlushTimer, FlushEnd
  <2>2. LogTypes'  BY <2>1 DEF guards, LogInv, LogTypes, TypePart
  <2>3. /\ flusher'[s] \in {"last", "done"} => closedCh[s] /\ ch[s] = <<>>
        /\ flusher'[s] = "done" => batch[s] = <<>>
        /\ \A t \in Sessions \ {s} : flusher'[t] = flusher[t]
    BY <2>1 DEF LogInv, LogTypes, TypePart
  <2>4. Transit(lines'[s], ch'[s], batch'[s], stored'[s], lost'[s])  BY <1>1, <2>1
  <2> QED  BY <1>1, <2>1, <2>2, <2>3, <2>4, LogMoves
<1>6. CASE AppendLogs(s)
  <2>1. /\ flusher[s] \in {"append", "last"}
        /\ flusher' = [flusher EXCEPT ![s] = IF flusher[s] = "last" THEN "done" ELSE "recv"]
        /\ batch' = [batch EXCEPT ![s] = <<>>]
        /\ UNCHANGED <<pc, guards, inCall, opened, sealed, closedCh, ch, lines>>
        /\ \/ stored' = [stored EXCEPT ![s] = stored[s] \o batch[s]] /\ lost' = lost
           \/ lost' = [lost EXCEPT ![s] = lost[s] \cup Range(batch[s])] /\ stored' = stored
    BY <1>6 DEF AppendLogs
  <2>2. Range(batch[s]) \subseteq Nat
    BY <1>1 DEF Range
  <2>3. /\ batch' \in [Sessions -> Seq(Nat)] /\ stored' \in [Sessions -> Seq(Nat)]
        /\ lost' \in [Sessions -> SUBSET Nat]
        /\ flusher' \in [Sessions -> {"off", "recv", "append", "last", "done"}]
    <3>1. stored[s] \o batch[s] \in Seq(Nat) /\ <<>> \in Seq(Nat)  BY <1>1
    <3>2. lost[s] \cup Range(batch[s]) \in SUBSET Nat  BY <1>1, <2>2
    <3>3. stored' \in [Sessions -> Seq(Nat)]  BY <2>1, <3>1 DEF LogInv, LogTypes
    <3>4. lost' \in [Sessions -> SUBSET Nat]  BY <2>1, <3>2 DEF LogInv, LogTypes
    <3>5. batch' \in [Sessions -> Seq(Nat)]  BY <2>1, <3>1 DEF LogInv, LogTypes
    <3>6. flusher' \in [Sessions -> {"off", "recv", "append", "last", "done"}]
      BY <2>1 DEF LogInv, LogTypes, TypePart
    <3> QED  BY <3>3, <3>4, <3>5, <3>6
  <2>4. LogTypes'  BY <2>1, <2>3 DEF guards, LogInv, LogTypes, TypePart
  <2>5. /\ batch'[s] = <<>> /\ ch'[s] = ch[s] /\ lines'[s] = lines[s]
        /\ flusher'[s] \in {"last", "done"} => flusher[s] = "last"
        /\ \A t \in Sessions \ {s} : /\ batch'[t] = batch[t] /\ flusher'[t] = flusher[t]
                                     /\ stored'[t] = stored[t] /\ lost'[t] = lost[t]
    BY <2>1 DEF LogInv, LogTypes, TypePart
  <2>6. Transit(lines'[s], ch'[s], batch'[s], stored'[s], lost'[s])
    <3>1. Transit(lines[s], ch[s], batch[s], stored[s], lost[s])  BY <1>1, <2>1
    <3>2. CASE stored' = [stored EXCEPT ![s] = stored[s] \o batch[s]] /\ lost' = lost
      <4>1. stored'[s] = stored[s] \o batch[s]  BY <3>2 DEF LogInv, LogTypes
      <4>2. Transit(lines[s], ch[s], <<>>, stored[s] \o batch[s], lost[s])  BY <1>1, <3>1, BatchStored
      <4> QED  BY <2>5, <3>2, <4>1, <4>2
    <3>3. CASE lost' = [lost EXCEPT ![s] = lost[s] \cup Range(batch[s])] /\ stored' = stored
      <4>1. lost'[s] = lost[s] \cup Range(batch[s])  BY <3>3 DEF LogInv, LogTypes
      <4>2. Transit(lines[s], ch[s], <<>>, stored[s], lost[s] \cup Range(batch[s]))  BY <1>1, <3>1, BatchLost
      <4> QED  BY <2>5, <3>3, <4>1, <4>2
    <3> QED  BY <2>1, <3>2, <3>3
  <2>7. flusher'[s] \in {"last", "done"} => closedCh[s] /\ ch'[s] = <<>>  BY <1>1, <2>5
  <2> QED  BY <1>1, <2>1, <2>4, <2>5, <2>6, <2>7, LogMoves
<1> QED  BY <1>2, <1>3, <1>4, <1>5, <1>6 DEF Flusher

LEMMA CrashKeepsLog ==
    ASSUME LogInv, NEW p \in Procs, Crash(p)
    PROVE  LogInv'
<1> DEFINE dead == {s \in Sessions : Proc[s] = p}
           live == {s \in dead : pc[s] \notin {"new", "failed", "gone", "crashed"}}
<1>1. /\ pc' = [s \in Sessions |-> IF s \in live THEN "crashed" ELSE pc[s]]
      /\ flusher' = [s \in Sessions |-> IF s \in live THEN "off" ELSE flusher[s]]
      /\ ch' = [s \in Sessions |-> IF s \in live THEN <<>> ELSE ch[s]]
      /\ batch' = [s \in Sessions |-> IF s \in live THEN <<>> ELSE batch[s]]
      /\ locked' = locked \ dead /\ pools' = pools \ dead /\ inCall' = inCall \ dead
      /\ UNCHANGED <<opened, sealed, closedCh, lines, stored, lost>>
  BY DEF Crash
<1> HIDE DEF dead, live
<1>2. LogTypes'
  <2>1. <<>> \in Seq(Nat)  OBVIOUS
  <2>2. ch' \in [Sessions -> Seq(Nat)] /\ batch' \in [Sessions -> Seq(Nat)]
    BY <1>1, <2>1 DEF LogInv, LogTypes
  <2>3. TypePart'  BY <1>1 DEF LogInv, LogTypes, TypePart, Pcs
  <2> QED  BY <1>1, <2>2, <2>3 DEF LogInv, LogTypes
<1>3. LogEnds'
  <2> SUFFICES ASSUME NEW t \in Sessions
               PROVE  /\ t \in opened => pc'[t] \in Used \cup Ending \cup {"crashed"}
                      /\ closedCh[t] \/ pc'[t] = "sealed" => sealed[t]
                      /\ flusher'[t] \in {"last", "done"} => closedCh[t] /\ ch'[t] = <<>>
                      /\ flusher'[t] = "done" => batch'[t] = <<>>
                      /\ t \in opened /\ pc'[t] \in Ending => flusher'[t] = "done"
                      /\ pc'[t] = "crashed" => flusher'[t] = "off"
    BY <1>1 DEF LogEnds
  <2>1. CASE t \in live
    <3>1. pc'[t] = "crashed" /\ flusher'[t] = "off"  BY <1>1, <2>1
    <3> QED  BY <3>1 DEF LogInv, LogEnds, Ending
  <2>2. CASE t \notin live
    <3>1. pc'[t] = pc[t] /\ flusher'[t] = flusher[t] /\ ch'[t] = ch[t] /\ batch'[t] = batch[t]  BY <1>1, <2>2
    <3> QED  BY <3>1 DEF LogInv, LogEnds
  <2> QED  BY <2>1, <2>2
<1>4. InTransit'
  <2> SUFFICES ASSUME NEW t \in Sessions, pc'[t] # "crashed"
               PROVE  Transit(lines[t], ch'[t], batch'[t], stored[t], lost[t])
    BY <1>1 DEF InTransit
  <2>1. t \notin live  BY <1>1
  <2>2. pc'[t] = pc[t] /\ ch'[t] = ch[t] /\ batch'[t] = batch[t]  BY <1>1, <2>1
  <2> QED  BY <2>2 DEF LogInv, InTransit
<1> QED  BY <1>2, <1>3, <1>4 DEF LogInv

\* storageLogSink, flushLogs, Engine.Close: in every session, whatever the
\* other sessions and the processes do, every log line that was accepted is in
\* the database, in order, when the store is closed, unless its append failed.
THEOREM LinesReachTheTable == Spec => []AcceptedLinesKept
<1>1. Init => LogInv
  <2> SUFFICES ASSUME Init PROVE LogInv  OBVIOUS
  <2>1. LogTypes  BY DEF Init, LogTypes, TypePart, Pcs
  <2>2. LogEnds  BY DEF Init, LogEnds
  <2>3. Transit(0, <<>>, <<>>, <<>>, {})
    <3>1. Len(<<>>) = 0 /\ DOMAIN <<>> = {} /\ Range(<<>>) = {}  BY DEF Range
    <3>2. 1 .. 0 = {}  OBVIOUS
    <3> QED  BY <3>1, <3>2 DEF Transit
  <2>4. InTransit  BY <2>3 DEF Init, InTransit
  <2> QED  BY <2>1, <2>2, <2>4 DEF LogInv
<1>2. LogInv /\ [Next]_vars => LogInv'
  <2> SUFFICES ASSUME LogInv, [Next]_vars PROVE LogInv'  OBVIOUS
  <2>1. CASE UNCHANGED vars
    BY <2>1 DEF vars, guards, log, LogInv, LogTypes, TypePart, LogEnds, InTransit
  <2>2. CASE Next
    BY <2>2, MovesKeepLog, UseKeepsLog, CrashKeepsLog DEF Next
  <2> QED  BY <2>1, <2>2
<1>3. LogInv => AcceptedLinesKept
  <2> SUFFICES ASSUME LogInv, NEW s \in opened, pc[s] \in {"closing", "unlock", "unregister", "gone"}
               PROVE  /\ 1 .. lines[s] = Range(stored[s]) \cup lost[s]
                      /\ \A i, j \in DOMAIN stored[s] : i < j => stored[s][i] < stored[s][j]
    BY DEF AcceptedLinesKept
  <2>1. s \in Sessions /\ lines[s] \in Nat  BY DEF LogInv, LogTypes
  <2>2. ch[s] = <<>> /\ batch[s] = <<>>  BY <2>1 DEF LogInv, LogEnds, Ending
  <2>3. Transit(lines[s], <<>>, <<>>, stored[s], lost[s])  BY <2>1, <2>2 DEF LogInv, InTransit
  <2>4. lines[s] - Len(<<>>) - Len(<<>>) = lines[s]  BY <2>1
  <2> QED  BY <2>3, <2>4 DEF Transit
<1> QED  BY <1>1, <1>2, <1>3, PTL DEF Spec

=============================================================================
