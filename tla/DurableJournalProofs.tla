------------------------ MODULE DurableJournalProofs ------------------------
(***************************************************************************)
(* Proofs about DurableJournal, for every set of task versions, events and *)
(* executors and every number of calls and faults.                         *)
(***************************************************************************)
EXTENDS DurableJournal, TLAPS

Records == [pc : Pcs, att : Nat, cache : Seq(Rows), cursor : Nat \ {0}, val : Nat]

-----------------------------------------------------------------------------
(* Sequences.                                                              *)

\* A journal gains an entry at its end and keeps the others.
LEMMA AppendFacts ==
    ASSUME NEW S, NEW s \in Seq(S), NEW e \in S
    PROVE  /\ Append(s, e) \in Seq(S) /\ Len(Append(s, e)) = Len(s) + 1
           /\ Append(s, e)[Len(s) + 1] = e
           /\ \A i \in 1..Len(s) : Append(s, e)[i] = s[i]
  OBVIOUS

\* Any function on the positions of a sequence is a sequence of the same length.
LEMMA MapFacts ==
    ASSUME NEW S, NEW T, NEW s \in Seq(S), NEW f \in [1..Len(s) -> T]
    PROVE  f \in Seq(T) /\ Len(f) = Len(s)
  OBVIOUS

\* An UPDATE of one entry changes nothing else.
LEMMA UpdateFacts ==
    ASSUME NEW S, NEW s \in Seq(S), NEW k \in 1..Len(s), NEW e \in S
    PROVE  /\ [s EXCEPT ![k] = e] \in Seq(S) /\ Len([s EXCEPT ![k] = e]) = Len(s)
           /\ [s EXCEPT ![k] = e][k] = e
           /\ \A i \in 1..Len(s) : i # k => [s EXCEPT ![k] = e][i] = s[i]
  <1>. DEFINE t == [s EXCEPT ![k] = e]
  <1>1. s \in [1..Len(s) -> S]
    OBVIOUS
  <1>2. t \in [1..Len(s) -> S] /\ t[k] = e /\ \A i \in 1..Len(s) : i # k => t[i] = s[i]
    BY <1>1
  <1>3. t \in Seq(S) /\ Len(t) = Len(s)
    BY <1>2, MapFacts
  <1>. QED BY <1>2, <1>3

\* A due time lies ahead of a clock that is positive.
LEMMA CallFacts ==
    ASSUME TypeOK, NEW w \in Execs, ex[w].cursor <= Len(program)
    PROVE  /\ Call(w) \in Calls /\ Len(program) <= MaxCalls
           /\ \A at \in Nat, done \in BOOLEAN : NewEntry(w, at, done) \in Rows
           /\ Deadline(w) \in Nat /\ now + Call(w).dur \in Nat
  <1>1. program \in Seq(Calls) /\ Len(program) <= MaxCalls
    BY ProgramAssumption DEF TypeOK
  <1>2. ex[w].cursor \in 1..Len(program)
    BY <1>1 DEF TypeOK
  <1>3. program[ex[w].cursor] \in Calls
    BY <1>1, <1>2
  <1>4. Call(w) \in Calls
    BY <1>3 DEF Call
  <1>5. /\ Call(w).kind \in {"sleep", "wait", "once"} /\ Call(w).label \in STRING
        /\ Call(w).dur \in Nat
    BY <1>4 DEF Calls
  <1>6. ASSUME NEW at \in Nat, NEW done \in BOOLEAN
        PROVE  NewEntry(w, at, done) \in Rows
    BY <1>5 DEF NewEntry, Rows
  <1>7. now \in Nat
    BY DEF TypeOK
  <1>8. Deadline(w) \in Nat /\ now + Call(w).dur \in Nat
    BY <1>5, <1>7 DEF Deadline
  <1>. QED BY <1>1, <1>4, <1>6, <1>8
-----------------------------------------------------------------------------
(* What the steps of an executor do to its record.                         *)

\* An executor without a task.
LEMMA IdleTyped == Idle \in Records /\ Idle.pc = "idle" /\ Idle.cursor = 1 /\ Idle.cache = <<>>
  <1>1. <<>> \in Seq(Rows)
    OBVIOUS
  <1>2. "idle" \in Pcs
    BY DEF Pcs
  <1>. QED BY <1>1, <1>2 DEF Idle, Records

\* Leaving the task keeps the attempt and forgets the rest.
LEMMA LeaveFacts ==
    ASSUME TypeOK, NEW w \in Execs, NEW pc \in Pcs, Leave(w, pc)
    PROVE  /\ ex' \in [Execs -> Records] /\ ex'[w].pc = pc
           /\ \A v \in Execs \ {w} : ex'[v] = ex[v]
  <1>1. ex \in [Execs -> Records]
    BY DEF TypeOK, Records
  <1>2. ex[w].att \in Nat
    BY <1>1 DEF Records
  <1>. DEFINE e == [Idle EXCEPT !.pc = pc, !.att = ex[w].att]
  <1>3. Idle \in Records
    BY IdleTyped
  <1>4. e \in Records /\ e.pc = pc
    BY <1>2, <1>3 DEF Records
  <1>. QED BY <1>1, <1>4 DEF Leave

\* Moving on inside the task changes nothing else.
LEMMA GotoFacts ==
    ASSUME TypeOK, NEW w \in Execs, NEW pc \in Pcs, Goto(w, pc)
    PROVE  /\ ex' \in [Execs -> Records]
           /\ ex'[w].pc = pc /\ ex'[w].cache = ex[w].cache /\ ex'[w].cursor = ex[w].cursor
           /\ \A v \in Execs \ {w} : ex'[v] = ex[v]
  BY DEF TypeOK, Records, Goto

\* A call that returns moves the cursor and is remembered.
LEMMA ReturnFacts ==
    ASSUME TypeOK, NEW w \in Execs, NEW t \in BOOLEAN, NEW v \in Nat, NEW c \in Seq(Rows),
           ex[w].cursor <= Len(program), Return(w, t, v, c)
    PROVE  /\ ex' \in [Execs -> Records]
           /\ ex'[w].pc = "body" /\ ex'[w].cache = c /\ ex'[w].cursor = ex[w].cursor + 1
           /\ \A u \in Execs \ {w} : ex'[u] = ex[u]
           /\ returned' = returned \cup {[idx |-> ex[w].cursor, kind |-> Call(w).kind, label |-> Call(w).label,
                                          timedOut |-> t, value |-> v]}
           /\ returned' \subseteq [idx : Nat \ {0}, kind : {"sleep", "wait", "once"}, label : STRING,
                                   timedOut : BOOLEAN, value : Nat]
  <1>1. ex \in [Execs -> Records]
    BY DEF TypeOK, Records
  <1>. DEFINE e == [ex[w] EXCEPT !.pc = "body", !.cursor = ex[w].cursor + 1, !.cache = c, !.val = 0]
  <1>2. ex' = [ex EXCEPT ![w] = e]
    BY <1>1 DEF Return, Records
  <1>3. e \in Records /\ e.pc = "body" /\ e.cache = c /\ e.cursor = ex[w].cursor + 1
    <2>1. "body" \in Pcs
      BY DEF Pcs, InTask
    <2>2. ex[w] \in Records /\ ex[w].cursor + 1 \in Nat \ {0}
      BY <1>1 DEF Records
    <2>. QED BY <2>1, <2>2 DEF Records
  <1>4. Call(w).kind \in {"sleep", "wait", "once"} /\ Call(w).label \in STRING
    BY CallFacts DEF Calls
  <1>5. ex[w].cursor \in Nat \ {0}
    BY <1>1 DEF Records
  <1>6. returned' = returned \cup {[idx |-> ex[w].cursor, kind |-> Call(w).kind, label |-> Call(w).label,
                                     timedOut |-> t, value |-> v]}
    BY DEF Return
  <1>. QED BY <1>1, <1>2, <1>3, <1>4, <1>5, <1>6 DEF TypeOK

\* Spending from the budget keeps it one, and only a dead-letter retry revives.
LEMMA SpendFacts ==
    ASSUME TypeOK, NEW op \in Ops, Spend(op)
    PROVE  /\ budget' \in [Ops -> Nat] /\ \A o \in Ops : budget'[o] <= Budget[o]
           /\ op # "retryDead" => (Revived' <=> Revived)
           /\ op = "retryDead" => Revived'
           /\ Spent(op) + 1 \in 1..Budget[op]
  <1>1. /\ budget \in [Ops -> Nat] /\ Budget \in [Ops -> Nat]
        /\ \A o \in Ops : budget[o] <= Budget[o]
        /\ budget[op] > 0 /\ budget' = [budget EXCEPT ![op] = budget[op] - 1]
    BY JournalAssumption DEF TypeOK, Spend
  <1>2. "retryDead" \in Ops
    BY DEF Ops
  <1>3. budget' \in [Ops -> Nat] /\ \A o \in Ops : budget'[o] <= Budget[o]
    BY <1>1
  <1>4. op # "retryDead" => budget'["retryDead"] = budget["retryDead"]
    BY <1>1, <1>2
  <1>5. op = "retryDead" => budget'["retryDead"] < Budget["retryDead"]
    BY <1>1
  <1>6. Spent(op) + 1 \in 1..Budget[op]
    BY <1>1 DEF Spent
  <1>7. Revived <=> Budget["retryDead"] - budget["retryDead"] > 0
    BY DEF Revived, Spent
  <1>8. Revived' <=> Budget["retryDead"] - budget'["retryDead"] > 0
    BY DEF Revived, Spent
  <1>9. op = "retryDead" => Budget["retryDead"] - budget'["retryDead"] > 0
    BY <1>1, <1>2, <1>3, <1>5
  <1>. QED BY <1>3, <1>4, <1>6, <1>7, <1>8, <1>9
-----------------------------------------------------------------------------
(* What a longer or further decided journal leaves true.                   *)

IInv == TypeOK /\ JournalInv

\* A journal that is not written to is a log.
LEMMA StillLog ==
    ASSUME TypeOK, journal' = journal
    PROVE  LogStep
  BY DEF TypeOK, LogStep

\* An entry added at the end keeps the journal a log.
LEMMA AppendLog ==
    ASSUME TypeOK, NEW e \in Rows, journal' = Append(journal, e)
    PROVE  LogStep /\ journal' \in Seq(Rows) /\ Len(journal') = Len(journal) + 1 /\ journal'[Len(journal) + 1] = e
           /\ \A i \in 1..Len(journal) : journal'[i] = journal[i]
  <1>1. journal \in Seq(Rows)
    BY DEF TypeOK
  <1>2. /\ journal' \in Seq(Rows) /\ Len(journal') = Len(journal) + 1 /\ journal'[Len(journal) + 1] = e
        /\ \A i \in 1..Len(journal) : journal'[i] = journal[i]
    BY <1>1, AppendFacts
  <1>. QED BY <1>2 DEF LogStep

\* An executor's copy is still a beginning of the journal, and it has missed nothing.
LEMMA KeepsCopies ==
    ASSUME TypeOK, TypeOK', NEW v \in Execs, Cached(v), LogStep, ex'[v].cache = ex[v].cache,
           Revived => Revived',
           ~Revived' => \A i \in 1..Len(journal) : journal[i].kind = "once" => journal'[i] = journal[i],
           ~Revived' => \A i \in 1..Len(journal') : OpenWait(i)' => i <= Len(journal)
    PROVE  /\ ex[v].cache \in Seq(Rows) /\ ex[v].cursor \in Nat \ {0}
           /\ journal \in Seq(Rows) /\ journal' \in Seq(Rows)
           /\ Len(ex[v].cache) \in Nat /\ Len(journal) \in Nat /\ Len(journal') \in Nat
           /\ Len(journal) <= Len(journal')
           /\ Len(ex[v].cache) <= Len(journal) /\ ex[v].cursor <= Len(ex[v].cache) + 1
           /\ \A i \in 1..Len(journal) :
                  /\ journal'[i].kind = journal[i].kind
                  /\ journal[i].kind = "wait" /\ journal[i].done => journal'[i] = journal[i]
           /\ \A i \in 1..Len(ex'[v].cache) : Copies(ex[v].cache[i], journal[i])'
           /\ \A i \in 1..Len(journal') : i < ex[v].cursor /\ journal'[i].kind = "wait" => journal'[i].done
           /\ NoneMissed(v)'
  <1>1. /\ ex[v].cache \in Seq(Rows) /\ ex[v].cursor \in Nat \ {0}
        /\ journal \in Seq(Rows) /\ journal' \in Seq(Rows)
    BY DEF TypeOK
  <1>2. /\ Len(ex[v].cache) \in Nat /\ Len(journal) \in Nat /\ Len(journal') \in Nat
        /\ Len(journal) <= Len(journal')
        /\ Len(ex[v].cache) <= Len(journal) /\ ex[v].cursor <= Len(ex[v].cache) + 1
    BY <1>1 DEF Cached, LogStep
  <1>3. \A i \in 1..Len(journal) :
          /\ journal'[i].kind = journal[i].kind /\ journal'[i].label = journal[i].label
          /\ journal'[i].at = journal[i].at
          /\ journal[i].kind = "wait" /\ journal[i].done => journal'[i] = journal[i]
    BY DEF LogStep
  <1>4. \A i \in 1..Len(ex'[v].cache) : Copies(ex[v].cache[i], journal[i])'
    <2>. TAKE i \in 1..Len(ex'[v].cache)
    <2>1. i \in 1..Len(journal) /\ Copies(ex[v].cache[i], journal[i])
      BY <1>2 DEF Cached
    <2>2. ~Revived' /\ journal[i].kind = "once" => journal'[i] = journal[i]
      BY <2>1
    <2>. QED BY <1>3, <2>1, <2>2 DEF Copies
  <1>5. ASSUME NEW i \in 1..Len(journal'), i < ex[v].cursor, journal'[i].kind = "wait"
        PROVE  journal'[i].done
    <2>1. i \in 1..Len(journal)
      BY <1>1, <1>2, <1>5
    <2>2. journal[i].kind = "wait" /\ journal[i].done
      BY <1>3, <1>5, <2>1 DEF Cached
    <2>. QED BY <1>3, <2>1, <2>2
  <1>6. NoneMissed(v)'
    <2>. SUFFICES ASSUME ~Revived'
                  PROVE  /\ \A i \in 1..Len(journal') : OpenWait(i)' => journal'[i].at > 0
                         /\ \A i \in 1..Len(ex[v].cache) :
                              ex[v].cache[i].kind = "wait" /\ ex[v].cache[i].at = 0 => ex[v].cache[i].done
      BY DEF NoneMissed, OpenWait
    <2>1. NoneMissed(v) /\ ~Revived
      BY DEF Cached
    <2>2. ASSUME NEW i \in 1..Len(journal'), OpenWait(i)' PROVE journal'[i].at > 0
      <3>1. i \in 1..Len(journal)
        BY <1>2, <2>2
      <3>2. OpenWait(i)
        BY <1>3, <2>2, <3>1 DEF OpenWait
      <3>. QED BY <1>3, <2>1, <3>1, <3>2 DEF NoneMissed
    <2>. QED BY <2>1, <2>2 DEF NoneMissed
  <1>. QED BY <1>1, <1>2, <1>3, <1>4, <1>5, <1>6

\* An executor in the middle of a call is at the call its entry was made for.
LEMMA EntryFacts ==
    ASSUME TypeOK, NEW w \in Execs, Cached(w), Replay(w)
    PROVE  /\ ex[w].cursor \in 1..Len(ex[w].cache) /\ ex[w].cursor \in 1..Len(journal)
           /\ Entry(w) \in Rows /\ journal[ex[w].cursor] \in Rows
           /\ Copies(Entry(w), journal[ex[w].cursor])
  <1>1. /\ ex[w].cache \in Seq(Rows) /\ ex[w].cursor \in Nat \ {0} /\ journal \in Seq(Rows)
    BY DEF TypeOK
  <1>2. ex[w].cursor \in 1..Len(ex[w].cache) /\ ex[w].cursor \in 1..Len(journal)
    BY <1>1 DEF Replay, Cached
  <1>3. Copies(ex[w].cache[ex[w].cursor], journal[ex[w].cursor])
    BY <1>2 DEF Cached
  <1>. QED BY <1>1, <1>2, <1>3 DEF Entry

\* An executor that is left alone still has a beginning of the journal.
LEMMA KeepsCached ==
    ASSUME TypeOK, TypeOK', NEW v \in Execs, Cached(v), LogStep, program' = program, ex'[v] = ex[v],
           Revived => Revived',
           ~Revived' => \A i \in 1..Len(journal) : journal[i].kind = "once" => journal'[i] = journal[i],
           ~Revived' => \A i \in 1..Len(journal') : OpenWait(i)' => i <= Len(journal)
    PROVE  Cached(v)'
  <1>1. /\ Len(ex[v].cache) \in Nat /\ Len(journal) \in Nat /\ Len(journal') \in Nat
        /\ Len(journal) <= Len(journal')
        /\ Len(ex[v].cache) <= Len(journal) /\ ex[v].cursor <= Len(ex[v].cache) + 1
        /\ \A i \in 1..Len(journal) :
               /\ journal'[i].kind = journal[i].kind
               /\ journal[i].kind = "wait" /\ journal[i].done => journal'[i] = journal[i]
        /\ \A i \in 1..Len(ex'[v].cache) : Copies(ex[v].cache[i], journal[i])'
        /\ \A i \in 1..Len(journal') : i < ex[v].cursor /\ journal'[i].kind = "wait" => journal'[i].done
        /\ NoneMissed(v)'
    BY KeepsCopies
  <1>2. /\ ex[v].pc \in {"fn", "memo"} => InCall(v, "once")'
        /\ ex[v].pc \in {"timeout", "reread"} => InCall(v, "wait")'
    BY DEF Cached, InCall, Aligned, Entry, Call
  <1>3. ASSUME ex[v].pc = "reread" PROVE journal'[ex[v].cursor].done
    <2>1. Replay(v) /\ Aligned(v) /\ Call(v).kind = "wait" /\ journal[ex[v].cursor].done
      BY <1>3 DEF Cached, InCall, Replay
    <2>2. ex[v].cursor \in 1..Len(journal) /\ Copies(Entry(v), journal[ex[v].cursor])
      BY <2>1, EntryFacts
    <2>3. journal[ex[v].cursor].kind = "wait"
      BY <2>1, <2>2 DEF Copies, Aligned
    <2>. QED BY <1>1, <2>1, <2>2, <2>3
  <1>4. ex[v].pc = "claimed" => ex[v].cursor = 1 /\ ex[v].cache = <<>>
    BY DEF Cached
  <1>5. Len(ex[v].cache) <= Len(journal') /\ ex[v].cursor <= Len(ex[v].cache) + 1
    BY <1>1
  <1>. QED BY <1>1, <1>2, <1>3, <1>4, <1>5 DEF Cached

\* An executor whose call returns has passed a call whose wait, if any, is decided.
LEMMA Advances ==
    ASSUME TypeOK, TypeOK', NEW w \in Execs, Cached(w), LogStep, Len(journal') = Len(journal),
           ex'[w].pc = "body", ex'[w].cursor = ex[w].cursor + 1, ex'[w].cache = ex[w].cache, Replay(w),
           Revived => Revived',
           ~Revived' => \A i \in 1..Len(journal) : journal[i].kind = "once" => journal'[i] = journal[i],
           journal[ex[w].cursor].kind = "wait" => journal'[ex[w].cursor].done
    PROVE  Cached(w)'
  <1>1. /\ Len(ex[w].cache) \in Nat /\ Len(journal) \in Nat /\ ex[w].cursor \in Nat
        /\ Len(ex[w].cache) <= Len(journal)
        /\ \A i \in 1..Len(journal) : journal'[i].kind = journal[i].kind
        /\ \A i \in 1..Len(ex'[w].cache) : Copies(ex[w].cache[i], journal[i])'
        /\ \A i \in 1..Len(journal') : i < ex[w].cursor /\ journal'[i].kind = "wait" => journal'[i].done
        /\ NoneMissed(w)'
    BY KeepsCopies
  <1>2. ex[w].cursor \in 1..Len(ex[w].cache)
    BY EntryFacts
  <1>3. ASSUME NEW i \in 1..Len(journal'), i < ex[w].cursor + 1, journal'[i].kind = "wait"
        PROVE  journal'[i].done
    <2>1. CASE i < ex[w].cursor
      BY <1>1, <1>3, <2>1
    <2>2. CASE i = ex[w].cursor
      BY <1>1, <1>3, <2>2
    <2>. QED BY <1>1, <1>3, <2>1, <2>2
  <1>4. ex[w].cursor + 1 <= Len(ex[w].cache) + 1
    BY <1>1, <1>2
  <1>. QED BY <1>1, <1>3, <1>4 DEF Cached

\* What a call was told stays what its entry says.
LEMMA KeepsBacked ==
    ASSUME TypeOK, TypeOK', NEW x \in returned, Backed(x), LogStep, Revived => Revived'
    PROVE  Backed(x)'
  <1>1. x.idx \in 1..Len(journal) /\ Len(journal) <= Len(journal')
    BY DEF TypeOK, Backed, LogStep
  <1>2. /\ journal'[x.idx].kind = journal[x.idx].kind /\ journal'[x.idx].label = journal[x.idx].label
        /\ journal[x.idx].done /\ (journal[x.idx].kind = "once" => ~Revived)
             => journal'[x.idx] = journal[x.idx]
    BY <1>1 DEF LogStep
  <1>3. x.idx <= Len(journal')
    BY <1>1 DEF TypeOK
  <1>4. /\ x.kind = journal[x.idx].kind /\ x.label = journal[x.idx].label
        /\ x.kind = "sleep" => ~x.timedOut /\ x.value = 0
        /\ x.kind = "wait" => /\ journal[x.idx].done
                              /\ x.timedOut = journal[x.idx].timedOut /\ x.value = journal[x.idx].value
        /\ x.kind = "once" => ~x.timedOut
        /\ x.kind = "once" /\ ~Revived => journal[x.idx].done /\ x.value = journal[x.idx].value
    BY DEF Backed
  <1>5. /\ x.kind = "wait" => journal'[x.idx] = journal[x.idx]
        /\ x.kind = "once" /\ ~Revived => journal'[x.idx] = journal[x.idx]
    BY <1>2, <1>4
  <1>6. x.kind = "wait" => /\ journal'[x.idx].done
                           /\ x.timedOut = journal'[x.idx].timedOut /\ x.value = journal'[x.idx].value
    BY <1>4, <1>5
  <1>7. x.kind = "once" /\ ~Revived' => journal'[x.idx].done /\ x.value = journal'[x.idx].value
    BY <1>4, <1>5
  <1>. QED BY <1>2, <1>3, <1>4, <1>6, <1>7 DEF Backed

\* Nothing is told twice differently: old returns stay backed, new ones have to be.
LEMMA KeepsTold ==
    ASSUME TypeOK, TypeOK', Told, LogStep, Revived => Revived',
           \A x \in returned' : x \in returned \/ Backed(x)'
    PROVE  Told'
  <1>1. ASSUME NEW x \in returned PROVE Backed(x)'
    BY KeepsBacked DEF Told
  <1>. QED BY <1>1 DEF Told

\* A step that is not newly suspended is still awaited by its entry.
LEMMA StaysAwaited ==
    ASSUME IInv, TypeOK', journal' = journal, Revived => Revived',
           stepStatus' = "SUSPENDED" =>
               UNCHANGED <<stepStatus, resumeAt>> /\ (runStatus' = "LIVE" => runStatus = "LIVE")
    PROVE  EventReachesWaiter' /\ WakesOnTime'
  BY DEF IInv, JournalInv, EventReachesWaiter, EventNeverLost, WakesOnTime

\* Steps that write nothing to the journal and start no task keep the invariant.
LEMMA Quiet ==
    ASSUME IInv, TypeOK', UNCHANGED <<journal, returned>>, Revived => Revived',
           \A v \in Execs : ex'[v].pc \in Holding => ex[v].pc \in Holding,
           \A v \in Execs : ex'[v].pc \in InTask => ex'[v] = ex[v] /\ program' = program,
           ~Revived' => \/ UNCHANGED <<stepStatus, resumeAt>>
                        \/ stepStatus' \notin {"QUEUED", "RUNNING", "SUSPENDED"}
                        \/ /\ stepStatus = "RUNNING" /\ stepStatus' \in {"QUEUED", "SUSPENDED"}
                           /\ \A v \in Execs : ex'[v].pc \notin Holding,
           EventReachesWaiter', WakesOnTime'
    PROVE  IInv'
  <1>0. /\ TypeOK /\ OneTask /\ Caches /\ Told /\ MemoSpares /\ OpenIsLast /\ OpenAwaited /\ Blank
    BY DEF IInv, JournalInv
  <1>1. LogStep
    BY <1>0, StillLog
  <1>2. OneTask'
    BY <1>0 DEF OneTask
  <1>3. Caches'
    <2>. SUFFICES ASSUME NEW v \in Execs, ex'[v].pc \in InTask PROVE Cached(v)'
      BY DEF Caches
    <2>1. ex'[v] = ex[v] /\ program' = program /\ Cached(v)
      BY <1>0 DEF Caches
    <2>. QED BY <1>0, <1>1, <2>1, KeepsCached DEF OpenWait
  <1>4. Told'
    BY <1>0, <1>1, KeepsTold
  <1>5. MemoSpares'
    <2>1. {"fn", "memo"} \subseteq InTask
      BY DEF InTask
    <2>. QED BY <1>0, <2>1 DEF MemoSpares
  <1>6. OpenIsLast' /\ Blank'
    BY <1>0 DEF OpenIsLast, Blank, OpenWait
  <1>7. OpenAwaited'
    BY <1>0 DEF OpenAwaited, OpenWait
  <1>. QED BY <1>2, <1>3, <1>4, <1>5, <1>6, <1>7 DEF IInv, JournalInv

\* Steps inside the task keep the invariant if the executor's own copy, memo and
\* new return are right and an entry is added only behind decided waits.
LEMMA Inside ==
    ASSUME IInv, TypeOK', NEW w \in Execs, ex[w].pc \in InTask, ex'[w].pc \in InTask,
           \A v \in Execs \ {w} : ex'[v] = ex[v],
           UNCHANGED <<row, program>>, Revived' <=> Revived, LogStep,
           Cached(w)', Blank',
           ex'[w].pc \in {"fn", "memo"} /\ ~Revived' => ~journal'[ex'[w].cursor].done,
           \A x \in returned' : x \in returned \/ Backed(x)',
           Len(journal') = Len(journal) \/ \A i \in 1..Len(journal') : ~OpenWait(i)'
    PROVE  IInv'
  <1>0. /\ TypeOK /\ OneTask /\ Caches /\ Told /\ MemoSpares /\ OpenIsLast /\ OpenAwaited /\ Blank
        /\ EventReachesWaiter /\ WakesOnTime
    BY DEF IInv, JournalInv
  <1>a. /\ journal \in Seq(Rows) /\ journal' \in Seq(Rows) /\ Len(journal) \in Nat /\ Len(journal') \in Nat
        /\ Len(journal) <= Len(journal')
    BY SMTT(30), <1>0 DEF TypeOK, LogStep
  <1>b. \A i \in 1..Len(journal) :
          /\ journal'[i].kind = journal[i].kind /\ journal'[i].at = journal[i].at
          /\ journal[i].kind = "wait" /\ journal[i].done => journal'[i] = journal[i]
    BY DEF LogStep
  <1>c. \A i \in 1..Len(journal') : OpenWait(i)' => i \in 1..Len(journal) /\ OpenWait(i)
    BY <1>a, <1>b DEF OpenWait
  <1>d. InTask \subseteq Holding /\ {"fn", "memo"} \subseteq InTask
    BY DEF Holding, InTask
  <1>e. ~Revived => \A v \in Execs \ {w} : ex[v].pc \notin Holding
    BY <1>0, <1>d DEF OneTask
  <1>f. ~Revived => stepStatus \notin {"QUEUED", "SUSPENDED"}
    BY <1>0, <1>d DEF OneTask
  <1>2. OneTask'
    BY <1>0, <1>d, <1>e, <1>f DEF OneTask, row
  <1>3. Caches'
    <2>. SUFFICES ASSUME NEW v \in Execs \ {w}, ex'[v].pc \in InTask PROVE Cached(v)'
      BY DEF Caches
    <2>1. ex'[v] = ex[v] /\ Cached(v)
      BY <1>0 DEF Caches
    <2>2. Revived
      BY <1>d, <1>e, <2>1
    <2>. QED BY <1>0, <2>1, <2>2, KeepsCached
  <1>4. Told'
    BY <1>0, KeepsTold
  <1>5. MemoSpares'
    BY <1>d, <1>e DEF MemoSpares
  <1>6. OpenIsLast'
    BY <1>0, <1>a, <1>c DEF OpenIsLast
  <1>7. OpenAwaited'
    BY <1>0, <1>b, <1>c DEF OpenAwaited, row
  <1>8. EventReachesWaiter'
    BY <1>f DEF EventReachesWaiter, EventNeverLost, row
  <1>9. WakesOnTime'
    <2>. SUFFICES ASSUME stepStatus' = "SUSPENDED"
                  PROVE  \E i \in DOMAIN journal' : journal'[i].kind \in {"sleep", "wait"} /\ journal'[i].at = resumeAt'
      BY DEF WakesOnTime
    <2>1. DOMAIN journal = 1..Len(journal) /\ DOMAIN journal' = 1..Len(journal')
      BY <1>a
    <2>2. stepStatus = "SUSPENDED" /\ resumeAt' = resumeAt
      BY DEF row
    <2>3. PICK i \in 1..Len(journal) : journal[i].kind \in {"sleep", "wait"} /\ journal[i].at = resumeAt
      BY <1>0, <2>1, <2>2 DEF WakesOnTime
    <2>4. i \in 1..Len(journal') /\ journal'[i].kind = journal[i].kind /\ journal'[i].at = resumeAt'
      BY <1>a, <1>b, <2>2, <2>3
    <2>. QED BY <2>1, <2>3, <2>4
  <1>. QED BY <1>2, <1>3, <1>4, <1>5, <1>6, <1>7, <1>8, <1>9 DEF IInv, JournalInv
-----------------------------------------------------------------------------
(* Steps that write nothing to the journal and start no task.              *)

\* Without a retry from the dead letters nothing is revived.
LEMMA Unspent ==
    ASSUME budget' = budget
    PROVE  Revived' <=> Revived
  BY DEF Revived, Spent

\* The executor is done with the step.
LEMMA GoesIdle ==
    ASSUME TypeOK, NEW w \in Execs, ex' = [ex EXCEPT ![w] = Idle]
    PROVE  ex' \in [Execs -> Records] /\ ex'[w].pc = "idle" /\ \A v \in Execs \ {w} : ex'[v] = ex[v]
  BY IdleTyped DEF TypeOK, Records

\* The states of an executor outside the task.
LEMMA OutsideFacts ==
    /\ {"failed", "done", "suspended", "idle"} \subseteq Pcs \ InTask
    /\ InTask \subseteq Holding /\ InTask \subseteq Pcs
    /\ "failed" \in Holding /\ {"idle", "done", "suspended"} \cap Holding = {}
  BY DEF Holding, InTask, Pcs

\* Unwinding from the task without touching the step's row.
LEMMA Unwinds ==
    ASSUME IInv, NEW w \in Execs, ex[w].pc \in InTask, NEW pc \in {"failed", "done"}, Leave(w, pc),
           UNCHANGED <<row, journal, program, now, fnRuns, returned>>,
           budget' \in [Ops -> Nat], \A op \in Ops : budget'[op] <= Budget[op], Revived' <=> Revived
    PROVE  IInv'
  <1>0. TypeOK
    BY DEF IInv
  <1>1. /\ ex' \in [Execs -> Records] /\ ex'[w].pc = pc
        /\ \A v \in Execs \ {w} : ex'[v] = ex[v]
    BY <1>0, LeaveFacts, OutsideFacts
  <1>2. TypeOK'
    BY <1>0, <1>1 DEF TypeOK, Records, row
  <1>3. EventReachesWaiter' /\ WakesOnTime'
    BY <1>2, StaysAwaited DEF row
  <1>4. pc \notin InTask /\ ex[w].pc \in Holding
    BY OutsideFacts
  <1>. QED BY <1>1, <1>2, <1>3, <1>4, Quiet DEF row

\* A misaligned replay keeps the invariant (ErrJournalMisaligned).
LEMMA MisalignedKeeps ==
    ASSUME IInv, NEW w \in Execs, Misaligned(w)
    PROVE  IInv'
  <1>1. ex[w].pc \in InTask /\ Leave(w, "failed") /\ UNCHANGED <<row, journal, program, now, budget, fnRuns, returned>>
    BY DEF Misaligned, AtCall, InTask
  <1>2. budget' \in [Ops -> Nat] /\ (\A op \in Ops : budget'[op] <= Budget[op]) /\ (Revived' <=> Revived)
    BY <1>1, Unspent DEF IInv, TypeOK
  <1>. QED BY <1>1, <1>2, Unwinds

\* So does a task that runs to its end,
LEMMA TaskDoneKeeps ==
    ASSUME IInv, NEW w \in Execs, TaskDone(w)
    PROVE  IInv'
  <1>1. ex[w].pc \in InTask /\ Leave(w, "done") /\ UNCHANGED <<row, journal, program, now, budget, fnRuns, returned>>
    BY DEF TaskDone, InTask
  <1>2. budget' \in [Ops -> Nat] /\ (\A op \in Ops : budget'[op] <= Budget[op]) /\ (Revived' <=> Revived)
    BY <1>1, Unspent DEF IInv, TypeOK
  <1>. QED BY <1>1, <1>2, Unwinds

\* and one that returns an error of its own or of the store.
LEMMA CallFailsKeeps ==
    ASSUME IInv, NEW w \in Execs, CallFails(w)
    PROVE  IInv'
  <1>1. ex[w].pc \in InTask /\ Leave(w, "failed") /\ UNCHANGED <<row, journal, program, now, fnRuns, returned>>
    BY DEF CallFails, InTask
  <1>2. TypeOK /\ {"fail", "storeError"} \subseteq Ops
    BY DEF IInv, Ops
  <1>3. Spend("storeError") \/ Spend("fail")
    BY DEF CallFails
  <1>4. budget' \in [Ops -> Nat] /\ (\A op \in Ops : budget'[op] <= Budget[op]) /\ (Revived' <=> Revived)
    <2>1. CASE Spend("storeError")
      BY <1>2, <2>1, SpendFacts
    <2>2. CASE Spend("fail")
      BY <1>2, <2>2, SpendFacts
    <2>. QED BY <1>3, <2>1, <2>2
  <1>. QED BY <1>1, <1>4, Unwinds

\* The executor closes its books: what it does to the row starts no task.
LEMMA ClosesKeeps ==
    ASSUME IInv, NEW w \in Execs, ex' = [ex EXCEPT ![w] = Idle],
           UNCHANGED <<attempts, journal, program, now, budget, fnRuns, returned>>,
           resumeAt' \in Nat, runStatus' \in {"LIVE", "OVER", "DEADLETTER"}, runStatus' = "LIVE" => runStatus = "LIVE",
           \/ UNCHANGED <<stepStatus, resumeAt>>
           \/ stepStatus' \in {"SUCCEEDED", "FAILED", "CANCELLED"}
           \/ ex[w].pc = "failed" /\ stepStatus = "RUNNING" /\ stepStatus' = "QUEUED"
    PROVE  IInv'
  <1>0. TypeOK /\ OneTask
    BY DEF IInv, JournalInv
  <1>1. /\ ex' \in [Execs -> Records] /\ ex'[w].pc = "idle"
        /\ \A v \in Execs \ {w} : ex'[v] = ex[v]
    BY <1>0, GoesIdle
  <1>2. TypeOK'
    BY <1>0, <1>1 DEF TypeOK, Records
  <1>3. Revived' <=> Revived
    BY Unspent
  <1>4. EventReachesWaiter' /\ WakesOnTime'
    BY <1>2, <1>3, StaysAwaited
  <1>5. \A v \in Execs : /\ ex'[v].pc \in Holding => ex[v].pc \in Holding
                         /\ ex'[v].pc \in InTask => ex'[v] = ex[v] /\ program' = program
    BY <1>1, OutsideFacts
  <1>6. ex[w].pc = "failed" /\ ~Revived => \A v \in Execs : ex'[v].pc \notin Holding
    BY <1>0, <1>1, OutsideFacts DEF OneTask
  <1>7. ~Revived' => \/ UNCHANGED <<stepStatus, resumeAt>>
                     \/ stepStatus' \notin {"QUEUED", "RUNNING", "SUSPENDED"}
                     \/ /\ stepStatus = "RUNNING" /\ stepStatus' \in {"QUEUED", "SUSPENDED"}
                        /\ \A v \in Execs : ex'[v].pc \notin Holding
    BY <1>3, <1>6
  <1>. QED BY <1>2, <1>3, <1>4, <1>5, <1>7, Quiet

\* The executor of a suspended task goes away.
LEMMA SuspendedKeeps ==
    ASSUME IInv, NEW w \in Execs, Suspended(w)
    PROVE  IInv'
  <1>1. resumeAt \in Nat /\ runStatus \in {"LIVE", "OVER", "DEADLETTER"}
    BY DEF IInv, TypeOK
  <1>2. UNCHANGED <<stepStatus, resumeAt>> \/ (stepStatus' = "CANCELLED" /\ resumeAt' = 0)
    BY DEF Suspended, StepCancelled
  <1>3. resumeAt' \in Nat
    BY <1>1, <1>2
  <1>. QED BY <1>1, <1>2, <1>3, ClosesKeeps DEF Suspended

\* A success is recorded.
LEMMA CompleteKeeps ==
    ASSUME IInv, NEW w \in Execs, completeStepTx(w)
    PROVE  IInv'
  BY ClosesKeeps DEF completeStepTx, IInv, TypeOK

\* A failed attempt is retried, or fails the run.
LEMMA AttemptFailsKeeps ==
    ASSUME IInv, NEW w \in Execs, AttemptFails(w)
    PROVE  IInv'
  <1>1. resumeAt \in Nat /\ runStatus \in {"LIVE", "OVER", "DEADLETTER"}
    BY DEF IInv, TypeOK
  <1>2. \/ UNCHANGED <<stepStatus, resumeAt>>
        \/ stepStatus' \in {"FAILED", "CANCELLED"} /\ resumeAt' \in {0, resumeAt}
        \/ ex[w].pc = "failed" /\ stepStatus = "RUNNING" /\ stepStatus' = "QUEUED" /\ resumeAt' = resumeAt
    BY DEF AttemptFails, StepCancelled
  <1>3. runStatus' = runStatus \/ runStatus' = "DEADLETTER"
    BY DEF AttemptFails
  <1>4. resumeAt' \in Nat
    BY <1>1, <1>2
  <1>. QED BY <1>1, <1>2, <1>3, <1>4, ClosesKeeps DEF AttemptFails

\* Clients, siblings and the clock leave the executors and the journal alone.
LEMMA OutsideKeeps ==
    ASSUME IInv, UNCHANGED <<attempts, journal, ex, program, fnRuns, returned>>,
           resumeAt' = resumeAt, now' \in Nat \ {0}, runStatus' \in {"LIVE", "OVER", "DEADLETTER"},
           runStatus' = "LIVE" => runStatus = "LIVE",
           stepStatus' = stepStatus \/ stepStatus' = "CANCELLED",
           budget' \in [Ops -> Nat], \A op \in Ops : budget'[op] <= Budget[op], Revived' <=> Revived
    PROVE  IInv'
  <1>1. TypeOK'
    BY DEF IInv, TypeOK
  <1>2. EventReachesWaiter' /\ WakesOnTime'
    BY <1>1, StaysAwaited
  <1>. QED BY <1>1, <1>2, Quiet

\* A cancelled run takes a step that is not running with it.
LEMMA CancelRunKeeps ==
    ASSUME IInv, CancelRun
    PROVE  IInv'
  <1>1. TypeOK /\ "cancel" \in Ops /\ Spend("cancel")
    BY DEF IInv, CancelRun, Ops
  <1>2. budget' \in [Ops -> Nat] /\ (\A op \in Ops : budget'[op] <= Budget[op]) /\ (Revived' <=> Revived)
    BY <1>1, SpendFacts
  <1>. QED BY <1>1, <1>2, OutsideKeeps DEF CancelRun, TypeOK

\* A failing sibling takes the step with it.
LEMMA SiblingFailsKeeps ==
    ASSUME IInv, SiblingFails
    PROVE  IInv'
  <1>1. TypeOK /\ "sibling" \in Ops /\ Spend("sibling")
    BY DEF IInv, SiblingFails, Ops
  <1>2. budget' \in [Ops -> Nat] /\ (\A op \in Ops : budget'[op] <= Budget[op]) /\ (Revived' <=> Revived)
    BY <1>1, SpendFacts
  <1>. QED BY <1>1, <1>2, OutsideKeeps DEF SiblingFails, TypeOK

\* Time passes, or the clock is set back.
LEMMA TickKeeps ==
    ASSUME IInv, Tick \/ ClockBack
    PROVE  IInv'
  <1>0. TypeOK /\ "skew" \in Ops
    BY DEF IInv, Ops
  <1>1. now' \in Nat \ {0}
    BY <1>0 DEF TypeOK, Tick, ClockBack
  <1>2. budget' \in [Ops -> Nat] /\ (\A op \in Ops : budget'[op] <= Budget[op]) /\ (Revived' <=> Revived)
    <2>1. CASE Tick
      BY <1>0, <2>1, Unspent DEF Tick, TypeOK
    <2>2. CASE ClockBack
      BY <1>0, <2>2, SpendFacts DEF ClockBack
    <2>. QED BY <2>1, <2>2
  <1>. QED BY <1>0, <1>1, <1>2, OutsideKeeps DEF Tick, ClockBack, TypeOK, row

\* A dead-letter retry queues the step; the promises it ends are those the invariant makes only before it.
LEMMA RetryKeeps ==
    ASSUME IInv, RetryDeadLetter
    PROVE  IInv'
  <1>1. TypeOK /\ "retryDead" \in Ops /\ Spend("retryDead")
    BY DEF IInv, RetryDeadLetter, Ops
  <1>2. budget' \in [Ops -> Nat] /\ (\A op \in Ops : budget'[op] <= Budget[op]) /\ Revived'
    BY <1>1, SpendFacts
  <1>3. TypeOK'
    BY <1>1, <1>2 DEF RetryDeadLetter, TypeOK
  <1>4. EventReachesWaiter' /\ WakesOnTime'
    BY <1>2, <1>3, StaysAwaited DEF RetryDeadLetter
  <1>. QED BY <1>2, <1>3, <1>4, Quiet DEF RetryDeadLetter

\* A crash forgets the executors and requeues the step.
LEMMA RestartKeeps ==
    ASSUME IInv, Restart
    PROVE  IInv'
  <1>1. TypeOK /\ "restart" \in Ops /\ Spend("restart")
    BY DEF IInv, Restart, Ops
  <1>2. budget' \in [Ops -> Nat] /\ (\A op \in Ops : budget'[op] <= Budget[op]) /\ (Revived' <=> Revived)
    BY <1>1, SpendFacts
  <1>3. ex' \in [Execs -> Records] /\ \A v \in Execs : ex'[v].pc = "idle"
    BY IdleTyped DEF Restart
  <1>4. TypeOK'
    BY <1>1, <1>2, <1>3 DEF Restart, TypeOK, Records
  <1>5. EventReachesWaiter' /\ WakesOnTime'
    BY <1>2, <1>4, StaysAwaited DEF Restart
  <1>6. \A v \in Execs : ex'[v].pc \notin Holding /\ ex'[v].pc \notin InTask
    BY <1>3, OutsideFacts
  <1>7. UNCHANGED <<journal, returned>> /\ (\/ UNCHANGED <<stepStatus, resumeAt>>
                                            \/ stepStatus = "RUNNING" /\ stepStatus' = "QUEUED")
    BY DEF Restart
  <1>. QED BY <1>2, <1>4, <1>5, <1>6, <1>7, Quiet
-----------------------------------------------------------------------------
(* Steps inside the task that leave the journal alone.                     *)

\* An executor inside the task has its copy, and its types.
LEMMA TaskFacts ==
    ASSUME IInv, NEW w \in Execs, ex[w].pc \in InTask
    PROVE  /\ TypeOK /\ Cached(w) /\ ex[w] \in Records
           /\ ex[w].cache \in Seq(Rows) /\ ex[w].cursor \in Nat \ {0} /\ journal \in Seq(Rows)
           /\ Len(ex[w].cache) \in Nat /\ Len(journal) \in Nat
           /\ Len(ex[w].cache) <= Len(journal) /\ ex[w].cursor <= Len(ex[w].cache) + 1
           /\ ~Revived => stepStatus \notin {"QUEUED", "SUSPENDED"}
  <1>1. TypeOK /\ Cached(w) /\ OneTask
    BY DEF IInv, JournalInv, Caches
  <1>2. ex[w] \in Records /\ ex[w].cache \in Seq(Rows) /\ ex[w].cursor \in Nat \ {0} /\ journal \in Seq(Rows)
    BY <1>1 DEF TypeOK, Records
  <1>3. ~Revived => stepStatus \notin {"QUEUED", "SUSPENDED"}
    BY <1>1, OutsideFacts DEF OneTask
  <1>. QED BY <1>1, <1>2, <1>3 DEF Cached

\* A call that finds its entry decided returns what the entry says.
LEMMA ReturnsOld ==
    ASSUME IInv, NEW w \in Execs, ex[w].pc \in InTask, Replay(w), Aligned(w), ex[w].cursor <= Len(program),
           NEW t \in BOOLEAN, NEW v \in Nat, Return(w, t, v, ex[w].cache),
           UNCHANGED <<row, journal, program, now, budget, fnRuns>>,
           Call(w).kind = "sleep" => ~t /\ v = 0,
           Call(w).kind = "wait" => /\ journal[ex[w].cursor].done
                                    /\ t = journal[ex[w].cursor].timedOut /\ v = journal[ex[w].cursor].value,
           Call(w).kind = "once" => ~t,
           Call(w).kind = "once" /\ ~Revived =>
               journal[ex[w].cursor].done /\ v = journal[ex[w].cursor].value
    PROVE  IInv'
  <1>1. TypeOK /\ Cached(w) /\ ex[w].cache \in Seq(Rows) /\ Blank
    BY TaskFacts DEF IInv, JournalInv
  <1>. DEFINE x == [idx |-> ex[w].cursor, kind |-> Call(w).kind, label |-> Call(w).label,
                    timedOut |-> t, value |-> v]
  <1>2. /\ ex' \in [Execs -> Records]
        /\ ex'[w].pc = "body" /\ ex'[w].cache = ex[w].cache /\ ex'[w].cursor = ex[w].cursor + 1
        /\ \A u \in Execs \ {w} : ex'[u] = ex[u]
        /\ returned' = returned \cup {x}
        /\ returned' \subseteq [idx : Nat \ {0}, kind : {"sleep", "wait", "once"}, label : STRING,
                                timedOut : BOOLEAN, value : Nat]
    BY <1>1, ReturnFacts
  <1>3. TypeOK'
    BY <1>1, <1>2 DEF TypeOK, Records, row
  <1>4. LogStep /\ (Revived' <=> Revived)
    BY <1>1, StillLog, Unspent
  <1>5. ex[w].cursor \in 1..Len(journal) /\ Copies(Entry(w), journal[ex[w].cursor])
    BY <1>1, EntryFacts
  <1>6. Call(w).kind = journal[ex[w].cursor].kind /\ Call(w).label = journal[ex[w].cursor].label
    BY <1>5 DEF Copies, Aligned
  <1>7. Cached(w)'
    BY <1>1, <1>2, <1>3, <1>4, <1>6, Advances
  <1>8. ASSUME NEW y \in returned', y \notin returned PROVE Backed(y)'
    <2>1. /\ y.idx = ex[w].cursor /\ y.kind = Call(w).kind /\ y.label = Call(w).label
          /\ y.timedOut = t /\ y.value = v
      BY <1>2, <1>8
    <2>. QED BY <1>4, <1>5, <1>6, <2>1 DEF Backed
  <1>9. Blank' /\ "body" \in InTask
    BY <1>1 DEF Blank, InTask
  <1>. QED BY <1>2, <1>3, <1>4, <1>7, <1>8, <1>9, Inside

\* A call that moves on to its next statement.
LEMMA GoesOn ==
    ASSUME IInv, NEW w \in Execs, ex[w].pc \in InTask, Replay(w), Aligned(w), ex[w].cursor <= Len(program),
           NEW pc \in {"fn", "timeout", "reread"}, Goto(w, pc),
           UNCHANGED <<row, journal, program, now, budget, fnRuns, returned>>,
           pc = "fn" => Call(w).kind = "once" /\ ~Entry(w).done,
           pc \in {"timeout", "reread"} => Call(w).kind = "wait",
           pc = "reread" => journal[ex[w].cursor].done
    PROVE  IInv'
  <1>1. TypeOK /\ Cached(w) /\ Blank /\ pc \in InTask /\ pc \in Pcs
    BY TaskFacts DEF IInv, JournalInv, InTask, Pcs
  <1>2. /\ ex' \in [Execs -> Records]
        /\ ex'[w].pc = pc /\ ex'[w].cache = ex[w].cache /\ ex'[w].cursor = ex[w].cursor
        /\ \A v \in Execs \ {w} : ex'[v] = ex[v]
    BY <1>1, GotoFacts
  <1>3. TypeOK'
    BY <1>1, <1>2 DEF TypeOK, Records, row
  <1>4. LogStep /\ (Revived' <=> Revived)
    BY <1>1, StillLog, Unspent
  <1>5. ex[w].cursor \in 1..Len(journal) /\ Copies(Entry(w), journal[ex[w].cursor])
    BY <1>1, EntryFacts
  <1>6. /\ Len(ex[w].cache) <= Len(journal) /\ ex[w].cursor <= Len(ex[w].cache) + 1
        /\ \A i \in 1..Len(ex'[w].cache) : Copies(ex[w].cache[i], journal[i])'
        /\ \A i \in 1..Len(journal') : i < ex[w].cursor /\ journal'[i].kind = "wait" => journal'[i].done
        /\ NoneMissed(w)'
    BY <1>1, <1>2, <1>3, <1>4, KeepsCopies
  <1>7. \A kind : Call(w).kind = kind => InCall(w, kind)'
    BY <1>2 DEF InCall, Aligned, Entry, Call, Replay
  <1>8. Cached(w)'
    BY <1>2, <1>6, <1>7 DEF Cached
  <1>9. pc = "fn" /\ ~Revived => ~journal[ex[w].cursor].done
    BY <1>5 DEF Copies, Aligned
  <1>10. Blank'
    BY <1>1 DEF Blank
  <1>. QED BY <1>1, <1>2, <1>3, <1>4, <1>8, <1>9, <1>10, Inside

\* A replayed await that is not due suspends the step for the remainder.
LEMMA Resuspends ==
    ASSUME IInv, NEW w \in Execs, ex[w].pc \in InTask, Replay(w), Entry(w).kind \in {"sleep", "wait"},
           ~Revived => Entry(w).at > 0, SuspendStep(w, Entry(w).at),
           UNCHANGED <<attempts, runStatus, journal, program, now, budget, fnRuns, returned>>
    PROVE  IInv'
  <1>1. TypeOK /\ Cached(w) /\ OneTask
    BY TaskFacts DEF IInv, JournalInv
  <1>2. Revived' <=> Revived
    BY Unspent
  <1>3. CASE stepStatus # "RUNNING"
    <2>1. Leave(w, "failed") /\ UNCHANGED row
      BY <1>3 DEF SuspendStep, row
    <2>2. budget' \in [Ops -> Nat] /\ \A op \in Ops : budget'[op] <= Budget[op]
      BY <1>1 DEF TypeOK
    <2>. QED BY <1>2, <2>1, <2>2, Unwinds
  <1>4. CASE stepStatus = "RUNNING"
    <2>1. stepStatus' = "SUSPENDED" /\ resumeAt' = Entry(w).at /\ Leave(w, "suspended")
      BY <1>4 DEF SuspendStep
    <2>2. /\ ex' \in [Execs -> Records] /\ ex'[w].pc = "suspended"
          /\ \A v \in Execs \ {w} : ex'[v] = ex[v]
      BY <1>1, <2>1, LeaveFacts, OutsideFacts
    <2>3. /\ ex[w].cursor \in 1..Len(journal) /\ Entry(w) \in Rows
          /\ Copies(Entry(w), journal[ex[w].cursor])
      BY <1>1, EntryFacts
    <2>4. Entry(w).at \in Nat
      BY <2>3 DEF Rows
    <2>5. TypeOK'
      BY <1>1, <2>1, <2>2, <2>4 DEF TypeOK, Records
    <2>6. WakesOnTime'
      <3>1. ex[w].cursor \in DOMAIN journal
        BY <1>1, <2>3 DEF TypeOK
      <3>. QED BY <2>1, <2>3, <3>1 DEF WakesOnTime, Copies
    <2>7. EventReachesWaiter'
      <3>1. ~Revived' => resumeAt' # 0
        BY <1>2, <2>1, <2>4
      <3>. QED BY <3>1 DEF EventReachesWaiter, EventNeverLost
    <2>8. \A v \in Execs : /\ ex'[v].pc \in Holding => ex[v].pc \in Holding
                           /\ ex'[v].pc \in InTask => ex'[v] = ex[v] /\ program' = program
      BY <2>2, OutsideFacts
    <2>9. ~Revived' => \A v \in Execs : ex'[v].pc \notin Holding
      BY <1>1, <1>2, <2>2, OutsideFacts DEF OneTask
    <2>. QED BY <1>2, <1>4, <2>1, <2>5, <2>6, <2>7, <2>8, <2>9, Quiet
  <1>. QED BY <1>3, <1>4
-----------------------------------------------------------------------------
(* Steps that add an entry.                                                *)

\* A call that finds its slot free is at the end of the journal, has all of it, and
\* every wait before it is decided.
LEMMA FreshFacts ==
    ASSUME IInv, NEW w \in Execs, ex[w].pc \in InTask, ~Replay(w), SlotFree(w)
    PROVE  /\ ex[w].cursor = Len(journal) + 1 /\ Len(ex[w].cache) = Len(journal)
           /\ \A i \in 1..Len(journal) : ~OpenWait(i)
  <1>1. /\ Cached(w) /\ ex[w].cursor \in Nat /\ Len(ex[w].cache) \in Nat /\ Len(journal) \in Nat
        /\ Len(ex[w].cache) <= Len(journal) /\ ex[w].cursor <= Len(ex[w].cache) + 1
    BY TaskFacts
  <1>2. ex[w].cursor = Len(journal) + 1 /\ Len(ex[w].cache) = Len(journal)
    BY <1>1 DEF Replay, SlotFree
  <1>. QED BY <1>1, <1>2 DEF Cached, OpenWait

\* A sleep of no length returns at once; RunOnce records its intent before fn.
LEMMA FreshAppends ==
    ASSUME IInv, TypeOK', NEW w \in Execs, ex[w].pc \in InTask, ~Replay(w), SlotFree(w),
           NEW e \in Rows, e.kind \in {"sleep", "once"}, ~e.done => ~e.timedOut /\ e.value = 0,
           journal' = Append(journal, e), ex'[w].cache = Append(ex[w].cache, e),
           \A v \in Execs \ {w} : ex'[v] = ex[v], UNCHANGED <<row, program>>, Revived' <=> Revived,
           \/ ex'[w].pc = "body" /\ ex'[w].cursor = ex[w].cursor + 1
           \/ /\ ex'[w].pc = "fn" /\ ex'[w].cursor = ex[w].cursor /\ ex[w].cursor <= Len(program)
              /\ Call(w).kind = "once" /\ e.kind = "once" /\ e.label = Call(w).label /\ ~e.done,
           \A x \in returned' : x \in returned \/ Backed(x)'
    PROVE  IInv'
  <1>1. /\ TypeOK /\ Cached(w) /\ ex[w].cache \in Seq(Rows) /\ ex[w].cursor \in Nat /\ Len(journal) \in Nat
        /\ Blank
    BY TaskFacts DEF IInv, JournalInv
  <1>2. /\ ex[w].cursor = Len(journal) + 1 /\ Len(ex[w].cache) = Len(journal)
        /\ \A i \in 1..Len(journal) : ~OpenWait(i)
    BY FreshFacts
  <1>3. /\ LogStep /\ Len(journal') = Len(journal) + 1 /\ journal'[Len(journal) + 1] = e
        /\ \A i \in 1..Len(journal) : journal'[i] = journal[i]
    BY <1>1, AppendLog
  <1>4. /\ Len(ex'[w].cache) = Len(journal) + 1 /\ ex'[w].cache[Len(journal) + 1] = e
        /\ \A i \in 1..Len(journal) : ex'[w].cache[i] = ex[w].cache[i]
    BY <1>1, <1>2, AppendFacts
  <1>5. \A i \in 1..Len(journal') : i \in 1..Len(journal) \/ i = Len(journal) + 1
    BY <1>1, <1>3
  <1>6. \A i \in 1..Len(journal') : ~OpenWait(i)'
    BY <1>2, <1>3, <1>5 DEF OpenWait
  <1>7. Cached(w)'
    <2>1. \A i \in 1..Len(ex'[w].cache) : Copies(ex[w].cache[i], journal[i])'
      <3>. TAKE i \in 1..Len(ex'[w].cache)
      <3>1. CASE i \in 1..Len(journal)
        <4>1. Copies(ex[w].cache[i], journal[i]) /\ ex'[w].cache[i] = ex[w].cache[i] /\ journal'[i] = journal[i]
          BY <1>1, <1>2, <1>3, <1>4, <3>1 DEF Cached
        <4>. QED BY <4>1 DEF Copies
      <3>2. CASE i = Len(journal) + 1
        BY <1>3, <1>4, <3>2 DEF Copies
      <3>. QED BY <1>3, <1>4, <1>5, <3>1, <3>2
    <2>2. \A i \in 1..Len(journal') : journal'[i].kind = "wait" => journal'[i].done
      BY <1>6 DEF OpenWait
    <2>3. NoneMissed(w)'
      <3>. SUFFICES ASSUME ~Revived', NEW i \in 1..Len(ex'[w].cache),
                           ex'[w].cache[i].kind = "wait" /\ ex'[w].cache[i].at = 0
                    PROVE  ex'[w].cache[i].done
        BY <1>6 DEF NoneMissed
      <3>1. i \in 1..Len(journal)
        BY <1>3, <1>4, <1>5
      <3>. QED BY <1>1, <1>2, <1>4, <3>1 DEF Cached, NoneMissed
    <2>4. Len(ex'[w].cache) <= Len(journal') /\ ex'[w].cursor <= Len(ex'[w].cache) + 1
      BY <1>1, <1>2, <1>3, <1>4
    <2>5. ex'[w].pc = "fn" => InCall(w, "once")'
      BY <1>1, <1>2, <1>4 DEF InCall, Aligned, Entry, Call
    <2>. QED BY <2>1, <2>2, <2>3, <2>4, <2>5 DEF Cached
  <1>8. Blank'
    BY <1>1, <1>3, <1>5 DEF Blank
  <1>9. ex'[w].pc \in {"fn", "memo"} /\ ~Revived' => ~journal'[ex'[w].cursor].done
    BY <1>2, <1>3
  <1>10. ex'[w].pc \in InTask
    BY DEF InTask
  <1>. QED BY <1>3, <1>6, <1>7, <1>8, <1>9, <1>10, Inside

\* The entry of a sleep or a wait is added with the suspension of the step.
LEMMA FreshSuspends ==
    ASSUME IInv, NEW w \in Execs, ex[w].pc \in InTask, ~Replay(w), ex[w].cursor <= Len(program),
           Call(w).kind \in {"sleep", "wait"}, NEW at \in Nat, Call(w).kind = "sleep" => at > 0,
           SuspendWithJournal(w, at),
           UNCHANGED <<attempts, runStatus, program, now, budget, fnRuns, returned>>
    PROVE  IInv'
  <1>1. TypeOK /\ OneTask /\ Caches /\ Told /\ MemoSpares /\ OpenAwaited /\ Blank
    BY DEF IInv, JournalInv
  <1>2. Revived' <=> Revived
    BY Unspent
  <1>3. CASE ~(stepStatus = "RUNNING" /\ SlotFree(w))
    <2>1. Leave(w, "failed") /\ UNCHANGED <<row, journal>>
      BY <1>3 DEF SuspendWithJournal, row
    <2>2. budget' \in [Ops -> Nat] /\ \A op \in Ops : budget'[op] <= Budget[op]
      BY <1>1 DEF TypeOK
    <2>. QED BY <1>2, <2>1, <2>2, Unwinds
  <1>4. CASE stepStatus = "RUNNING" /\ SlotFree(w)
    <2>1. /\ stepStatus' = "SUSPENDED" /\ resumeAt' = at /\ Leave(w, "suspended")
          /\ journal' = Append(journal, NewEntry(w, at, FALSE))
      BY <1>4 DEF SuspendWithJournal
    <2>. DEFINE e == NewEntry(w, at, FALSE)
    <2>2. /\ e \in Rows /\ e.kind = Call(w).kind /\ e.at = at /\ ~e.done /\ ~e.timedOut /\ e.value = 0
      <3>1. e \in Rows
        BY <1>1, CallFacts
      <3>. QED BY <3>1 DEF NewEntry
    <2>. HIDE DEF e
    <2>3. /\ ex' \in [Execs -> Records] /\ ex'[w].pc = "suspended"
          /\ \A v \in Execs \ {w} : ex'[v] = ex[v]
      BY <1>1, <2>1, LeaveFacts, OutsideFacts
    <2>4. /\ LogStep /\ journal' \in Seq(Rows) /\ Len(journal') = Len(journal) + 1
          /\ journal'[Len(journal) + 1] = e
          /\ \A i \in 1..Len(journal) : journal'[i] = journal[i]
      BY <1>1, <2>1, <2>2, AppendLog DEF e
    <2>5. TypeOK'
      BY <1>1, <2>1, <2>3, <2>4 DEF TypeOK, Records
    <2>6. Len(journal) \in Nat /\ \A i \in 1..Len(journal) : ~OpenWait(i)
      BY <1>4, FreshFacts, TaskFacts
    <2>7. /\ \A i \in 1..Len(journal') : i \in 1..Len(journal) \/ i = Len(journal) + 1
          /\ DOMAIN journal' = 1..Len(journal') /\ Len(journal) + 1 \in 1..Len(journal')
      BY <2>4, <2>6
    <2>8. \A i \in 1..Len(journal') : OpenWait(i)' => i = Len(journal) + 1
      BY <2>4, <2>6, <2>7 DEF OpenWait
    <2>9. ~Revived => \A v \in Execs : ex'[v].pc \notin Holding
      BY <1>1, <2>3, OutsideFacts DEF OneTask
    <2>10. OneTask'
      BY <1>2, <2>9 DEF OneTask
    <2>11. Caches'
      <3>. SUFFICES ASSUME NEW v \in Execs, ex'[v].pc \in InTask PROVE Cached(v)'
        BY DEF Caches
      <3>1. Revived /\ ex'[v] = ex[v] /\ Cached(v)
        BY <1>1, <2>3, <2>9, OutsideFacts DEF Caches
      <3>. QED BY <1>1, <1>2, <2>4, <2>5, <3>1, KeepsCached
    <2>12. Told'
      BY <1>1, <1>2, <2>4, <2>5, KeepsTold
    <2>13. MemoSpares'
      <3>1. {"fn", "memo"} \subseteq Holding
        BY DEF Holding, InTask
      <3>. QED BY <1>2, <2>9, <3>1 DEF MemoSpares
    <2>14. OpenIsLast'
      BY <2>4, <2>8 DEF OpenIsLast
    <2>15. OpenAwaited'
      BY <2>1, <2>2, <2>4, <2>8 DEF OpenAwaited
    <2>16. EventReachesWaiter'
      <3>. SUFFICES ASSUME resumeAt' = 0
                    PROVE  \E i \in DOMAIN journal' : journal'[i].kind = "wait" /\ ~journal'[i].done
        BY DEF EventReachesWaiter, EventNeverLost
      <3>1. e.kind = "wait"
        BY <2>1, <2>2
      <3>2. journal'[Len(journal) + 1].kind = "wait" /\ ~journal'[Len(journal) + 1].done
        BY <2>2, <2>4, <3>1
      <3>. QED BY <2>7, <3>2
    <2>17. WakesOnTime'
      BY <2>1, <2>2, <2>4, <2>7 DEF WakesOnTime
    <2>18. Blank'
      BY <1>1, <2>2, <2>4, <2>7 DEF Blank
    <2>. QED BY <2>5, <2>10, <2>11, <2>12, <2>13, <2>14, <2>15, <2>16, <2>17, <2>18 DEF IInv, JournalInv
  <1>. QED BY <1>3, <1>4
-----------------------------------------------------------------------------
(* The claim, and the durable helpers.                                     *)

\* The claim finds no executor in the task and no open wait without a deadline.
LEMMA ClaimKeeps ==
    ASSUME IInv, NEW w \in Execs, claimQueueTx(w)
    PROVE  IInv'
  <1>1. /\ TypeOK /\ OneTask /\ Caches /\ Told /\ MemoSpares /\ OpenIsLast /\ OpenAwaited /\ Blank
    BY DEF IInv, JournalInv
  <1>. DEFINE e == [Idle EXCEPT !.pc = "claimed", !.att = attempts']
  <1>2. /\ UNCHANGED <<runStatus, journal, program, now, budget, fnRuns, returned>>
        /\ stepStatus' = "RUNNING" /\ resumeAt' = 0 /\ ex' = [ex EXCEPT ![w] = e]
        /\ stepStatus = "QUEUED" \/ (stepStatus = "SUSPENDED" /\ resumeAt # 0)
    BY DEF claimQueueTx, Due
  <1>3. attempts' \in Nat
    BY <1>1 DEF claimQueueTx, TypeOK
  <1>4. e \in Records /\ e.pc = "claimed" /\ e.cursor = 1 /\ e.cache = <<>>
    <2>1. "claimed" \in Pcs
      BY DEF Pcs, InTask
    <2>2. Idle \in Records /\ Idle.cursor = 1 /\ Idle.cache = <<>>
      BY IdleTyped
    <2>. QED BY <1>3, <2>1, <2>2 DEF Records
  <1>. HIDE DEF e
  <1>5. /\ ex' \in [Execs -> Records] /\ ex'[w] = e /\ \A v \in Execs \ {w} : ex'[v] = ex[v]
    BY <1>1, <1>2, <1>4 DEF TypeOK, Records
  <1>6. TypeOK'
    BY <1>1, <1>2, <1>3, <1>5 DEF TypeOK, Records
  <1>7. Revived' <=> Revived
    BY <1>2, Unspent
  <1>8. LogStep
    BY <1>1, <1>2, StillLog
  <1>9. ~Revived => \A v \in Execs : ex[v].pc \notin Holding
    BY <1>1, <1>2 DEF OneTask
  <1>10. ~Revived => \A i \in 1..Len(journal) : ~(OpenWait(i) /\ journal[i].at = 0)
    BY <1>1, <1>2 DEF OpenAwaited
  <1>11. OneTask'
    BY <1>2, <1>5, <1>7, <1>9 DEF OneTask
  <1>12. Caches'
    <2>1. Cached(w)'
      <3>1. Len(ex'[w].cache) = 0 /\ ex'[w].cursor = 1 /\ Len(journal) \in Nat
        BY <1>1, <1>4, <1>5 DEF TypeOK
      <3>2. \A i \in 1..Len(journal) : journal[i].at \in Nat
        <4>1. \A i \in 1..Len(journal) : journal[i] \in Rows
          BY <1>1 DEF TypeOK
        <4>. QED BY <4>1 DEF Rows
      <3>3. NoneMissed(w)'
        BY <1>2, <1>7, <1>10, <3>1, <3>2 DEF NoneMissed, OpenWait
      <3>. QED BY <1>2, <1>4, <1>5, <3>1, <3>3 DEF Cached
    <2>2. ASSUME NEW v \in Execs \ {w}, ex'[v].pc \in InTask PROVE Cached(v)'
      <3>1. ex'[v] = ex[v] /\ Cached(v)
        BY <1>1, <1>5, <2>2 DEF Caches
      <3>. QED BY <1>1, <1>2, <1>6, <1>7, <1>8, <3>1, KeepsCached DEF OpenWait
    <2>. QED BY <2>1, <2>2 DEF Caches
  <1>13. Told'
    BY <1>1, <1>2, <1>6, <1>7, <1>8, KeepsTold
  <1>14. MemoSpares'
    BY <1>1, <1>2, <1>4, <1>5, <1>7 DEF MemoSpares
  <1>15. OpenIsLast' /\ Blank'
    BY <1>1, <1>2 DEF OpenIsLast, Blank, OpenWait
  <1>16. OpenAwaited'
    BY <1>2, <1>7, <1>10 DEF OpenAwaited, OpenWait
  <1>17. EventReachesWaiter' /\ WakesOnTime'
    BY <1>2 DEF EventReachesWaiter, EventNeverLost, WakesOnTime
  <1>. QED BY <1>6, <1>11, <1>12, <1>13, <1>14, <1>15, <1>16, <1>17 DEF IInv, JournalInv

\* A loaded journal is a copy; a failed load is an empty one.
LEMMA LoadKeeps ==
    ASSUME IInv, NEW w \in Execs, LoadJournal(w)
    PROVE  IInv'
  <1>0. ex[w].pc = "claimed" /\ ex[w].pc \in InTask /\ UNCHANGED <<row, journal, program, now, fnRuns, returned>>
    BY DEF LoadJournal, InTask
  <1>1. /\ TypeOK /\ Cached(w) /\ ex[w] \in Records /\ journal \in Seq(Rows) /\ Len(journal) \in Nat /\ Blank
        /\ ex[w].cursor = 1 /\ ex[w].cache = <<>>
    BY <1>0, TaskFacts DEF IInv, JournalInv, Cached
  <1>2. PICK c \in {journal, <<>>} : ex' = [ex EXCEPT ![w] = [ex[w] EXCEPT !.pc = "body", !.cache = c]]
    <2>1. CASE ex' = [ex EXCEPT ![w].pc = "body", ![w].cache = journal]
      BY <1>1, <2>1 DEF TypeOK
    <2>2. CASE ex' = [ex EXCEPT ![w].pc = "body"]
      <3>1. [ex[w] EXCEPT !.pc = "body"] = [ex[w] EXCEPT !.pc = "body", !.cache = <<>>]
        BY <1>1 DEF Records
      <3>. QED BY <1>1, <2>2, <3>1 DEF TypeOK
    <2>. QED BY <2>1, <2>2 DEF LoadJournal
  <1>3. c \in Seq(Rows)
    <2>1. <<>> \in Seq(Rows)
      OBVIOUS
    <2>. QED BY <1>1, <2>1
  <1>. DEFINE e == [ex[w] EXCEPT !.pc = "body", !.cache = c]
  <1>4. e \in Records /\ e.pc = "body" /\ e.cursor = 1 /\ e.cache = c
    <2>1. "body" \in Pcs
      BY DEF Pcs, InTask
    <2>. QED BY <1>1, <1>3, <2>1 DEF Records
  <1>. HIDE DEF e
  <1>5. /\ ex' \in [Execs -> Records] /\ ex'[w] = e /\ \A v \in Execs \ {w} : ex'[v] = ex[v]
    BY <1>1, <1>2, <1>4 DEF TypeOK, Records, e
  <1>6. budget' \in [Ops -> Nat] /\ (\A op \in Ops : budget'[op] <= Budget[op]) /\ (Revived' <=> Revived)
    <2>1. CASE UNCHANGED budget
      BY <1>1, <2>1, Unspent DEF TypeOK
    <2>2. CASE Spend("storeError")
      <3>1. "storeError" \in Ops
        BY DEF Ops
      <3>. QED BY <1>1, <2>2, <3>1, SpendFacts
    <2>. QED BY <2>1, <2>2 DEF LoadJournal
  <1>7. TypeOK'
    BY <1>0, <1>1, <1>5, <1>6 DEF TypeOK, Records, row
  <1>8. LogStep
    BY <1>0, <1>1, StillLog
  <1>9. Cached(w)'
    <2>1. Len(c) \in Nat /\ Len(c) <= Len(journal) /\ \A i \in 1..Len(c) : i \in 1..Len(journal) /\ c[i] = journal[i]
      BY <1>1
    <2>2. \A i \in 1..Len(ex'[w].cache) : Copies(ex[w].cache[i], journal[i])'
      <3>. TAKE i \in 1..Len(ex'[w].cache)
      <3>1. ex'[w].cache[i] = journal'[i]
        BY <1>0, <1>4, <1>5, <2>1
      <3>. QED BY <3>1 DEF Copies
    <2>3. NoneMissed(w)'
      <3>. SUFFICES ASSUME ~Revived
                    PROVE  /\ \A i \in 1..Len(journal) : OpenWait(i) => journal[i].at > 0
                           /\ \A i \in 1..Len(c) : c[i].kind = "wait" /\ c[i].at = 0 => c[i].done
        BY <1>0, <1>4, <1>5, <1>6 DEF NoneMissed, OpenWait
      <3>1. \A i \in 1..Len(journal) : OpenWait(i) => journal[i].at > 0
        BY <1>1 DEF Cached, NoneMissed
      <3>. QED BY <2>1, <3>1 DEF OpenWait
    <2>4. Len(ex'[w].cache) <= Len(journal') /\ ex'[w].cursor <= Len(ex'[w].cache) + 1
      BY <1>0, <1>4, <1>5, <2>1
    <2>. QED BY <1>4, <1>5, <2>2, <2>3, <2>4 DEF Cached
  <1>10. Blank' /\ "body" \in InTask
    BY <1>0, <1>1 DEF Blank, InTask
  <1>. QED BY <1>0, <1>4, <1>5, <1>6, <1>7, <1>8, <1>9, <1>10, Inside

\* SleepDurable keeps the invariant.
LEMMA SleepKeeps ==
    ASSUME IInv, NEW w \in Execs, SleepDurable(w)
    PROVE  IInv'
  <1>0. /\ ex[w].pc = "body" /\ ex[w].pc \in InTask /\ ex[w].cursor <= Len(program) /\ Call(w).kind = "sleep"
        /\ UNCHANGED <<attempts, runStatus, program, now, budget, fnRuns>>
    BY DEF SleepDurable, AtCall, InTask
  <1>1. /\ TypeOK /\ Cached(w) /\ ex[w].cache \in Seq(Rows) /\ now \in Nat \ {0} /\ Call(w).dur \in Nat
        /\ now + Call(w).dur \in Nat /\ Call(w) \in Calls
    BY <1>0, TaskFacts, CallFacts DEF TypeOK, Calls
  <1>2. budget' \in [Ops -> Nat] /\ (\A op \in Ops : budget'[op] <= Budget[op]) /\ (Revived' <=> Revived)
    BY <1>0, <1>1, Unspent DEF TypeOK
  <1>3. CASE ~Replay(w) /\ SuspendWithJournal(w, now + Call(w).dur) /\ UNCHANGED returned /\ Call(w).dur > 0
    <2>1. now + Call(w).dur > 0
      BY <1>1
    <2>. QED BY <1>0, <1>1, <1>3, <2>1, FreshSuspends
  <1>4. CASE /\ ~Replay(w) /\ SlotFree(w) /\ AppendJournal(w, now, TRUE) /\ UNCHANGED <<stepStatus, resumeAt>>
             /\ Return(w, FALSE, 0, Append(ex[w].cache, NewEntry(w, now, TRUE)))
    <2>. DEFINE e == NewEntry(w, now, TRUE)
    <2>1. e \in Rows /\ e.kind = "sleep" /\ e.label = Call(w).label /\ e.done /\ journal' = Append(journal, e)
      <3>1. e \in Rows
        BY <1>0, <1>1, CallFacts
      <3>. QED BY <1>0, <1>4, <3>1 DEF NewEntry, AppendJournal
    <2>2. Append(ex[w].cache, e) \in Seq(Rows)
      BY <1>1, <2>1, AppendFacts
    <2>3. /\ ex' \in [Execs -> Records]
          /\ ex'[w].pc = "body" /\ ex'[w].cache = Append(ex[w].cache, e) /\ ex'[w].cursor = ex[w].cursor + 1
          /\ \A u \in Execs \ {w} : ex'[u] = ex[u]
          /\ returned' = returned \cup {[idx |-> ex[w].cursor, kind |-> Call(w).kind, label |-> Call(w).label,
                                         timedOut |-> FALSE, value |-> 0]}
          /\ returned' \subseteq [idx : Nat \ {0}, kind : {"sleep", "wait", "once"}, label : STRING,
                                  timedOut : BOOLEAN, value : Nat]
      BY <1>0, <1>1, <1>4, <2>2, ReturnFacts, 0 \in Nat, FALSE \in BOOLEAN
    <2>. HIDE DEF e
    <2>4. /\ journal' \in Seq(Rows) /\ Len(journal') = Len(journal) + 1 /\ journal'[Len(journal) + 1] = e
      BY <1>1, <2>1, AppendLog
    <2>5. TypeOK'
      BY <1>0, <1>1, <1>2, <1>4, <2>3, <2>4 DEF TypeOK, Records
    <2>6. ex[w].cursor = Len(journal) + 1
      BY <1>0, <1>4, FreshFacts
    <2>7. ASSUME NEW y \in returned', y \notin returned PROVE Backed(y)'
      <3>1. /\ y.idx = ex[w].cursor /\ y.kind = "sleep" /\ y.label = Call(w).label
            /\ y.timedOut = FALSE /\ y.value = 0
        BY <1>0, <2>3, <2>7
      <3>2. y.idx <= Len(journal') /\ journal'[y.idx] = e
        BY <1>1, <2>4, <2>6, <3>1 DEF TypeOK
      <3>. QED BY <2>1, <3>1, <3>2 DEF Backed
    <2>. QED BY <1>0, <1>2, <1>4, <2>1, <2>3, <2>5, <2>7, FreshAppends DEF row
  <1>5. CASE Leave(w, "failed") /\ UNCHANGED <<stepStatus, resumeAt, journal, returned>>
    BY <1>0, <1>2, <1>5, Unwinds DEF row
  <1>6. CASE /\ Replay(w) /\ Aligned(w) /\ Entry(w).at > now
             /\ SuspendStep(w, Entry(w).at) /\ UNCHANGED <<journal, returned>>
    <2>1. Entry(w).at \in Nat
      BY <1>1, <1>6, EntryFacts DEF Rows
    <2>2. Entry(w).at > 0
      BY <1>1, <1>6, <2>1
    <2>. QED BY <1>0, <1>6, <2>2, Resuspends DEF Aligned
  <1>7. CASE Replay(w) /\ Aligned(w) /\ Return(w, FALSE, 0, ex[w].cache) /\ UNCHANGED <<stepStatus, resumeAt, journal>>
    BY <1>0, <1>7, ReturnsOld, 0 \in Nat, FALSE \in BOOLEAN DEF row
  <1>. QED BY <1>3, <1>4, <1>5, <1>6, <1>7 DEF SleepDurable

\* RunOnce keeps it up to the call of fn,
LEMMA RunOnceKeeps ==
    ASSUME IInv, NEW w \in Execs, RunOnce(w)
    PROVE  IInv'
  <1>0. /\ ex[w].pc = "body" /\ ex[w].pc \in InTask /\ ex[w].cursor <= Len(program) /\ Call(w).kind = "once"
        /\ UNCHANGED <<row, program, now, budget, fnRuns>>
    BY DEF RunOnce, AtCall, InTask
  <1>1. /\ TypeOK /\ Cached(w) /\ ex[w] \in Records /\ ex[w].cache \in Seq(Rows) /\ now \in Nat
    BY <1>0, TaskFacts DEF TypeOK
  <1>2. budget' \in [Ops -> Nat] /\ (\A op \in Ops : budget'[op] <= Budget[op]) /\ (Revived' <=> Revived)
    BY <1>0, <1>1, Unspent DEF TypeOK
  <1>3. CASE /\ ~Replay(w) /\ SlotFree(w) /\ AppendJournal(w, 0, FALSE) /\ UNCHANGED returned
             /\ ex' = [ex EXCEPT ![w].pc = "fn", ![w].cache = Append(@, NewEntry(w, 0, FALSE))]
    <2>. DEFINE e == NewEntry(w, 0, FALSE)
    <2>1. /\ e \in Rows /\ e.kind = "once" /\ e.label = Call(w).label /\ ~e.done /\ ~e.timedOut /\ e.value = 0
          /\ journal' = Append(journal, e)
      <3>1. e \in Rows
        BY <1>0, <1>1, CallFacts
      <3>. QED BY <1>0, <1>3, <3>1 DEF NewEntry, AppendJournal
    <2>2. Append(ex[w].cache, e) \in Seq(Rows) /\ journal' \in Seq(Rows)
      BY <1>1, <2>1, AppendFacts, AppendLog
    <2>. DEFINE r == [ex[w] EXCEPT !.pc = "fn", !.cache = Append(ex[w].cache, e)]
    <2>3. ex' = [ex EXCEPT ![w] = r]
      BY <1>1, <1>3 DEF TypeOK
    <2>4. r \in Records /\ r.pc = "fn" /\ r.cache = Append(ex[w].cache, e) /\ r.cursor = ex[w].cursor
      <3>1. "fn" \in Pcs
        BY DEF Pcs, InTask
      <3>. QED BY <1>1, <2>2, <3>1 DEF Records
    <2>. HIDE DEF e, r
    <2>5. ex' \in [Execs -> Records] /\ ex'[w] = r /\ \A v \in Execs \ {w} : ex'[v] = ex[v]
      BY <1>1, <2>3, <2>4 DEF TypeOK, Records
    <2>6. TypeOK'
      BY <1>0, <1>1, <1>2, <1>3, <2>2, <2>5 DEF TypeOK, Records, row
    <2>. QED BY <1>0, <1>2, <1>3, <2>1, <2>4, <2>5, <2>6, FreshAppends
  <1>4. CASE Leave(w, "failed") /\ UNCHANGED <<journal, returned>>
    BY <1>0, <1>2, <1>4, Unwinds
  <1>5. CASE Replay(w) /\ Aligned(w) /\ ~Memoized(w) /\ Goto(w, "fn") /\ UNCHANGED <<journal, returned>>
    BY <1>0, <1>5, GoesOn DEF Memoized
  <1>6. CASE /\ Replay(w) /\ Aligned(w) /\ Memoized(w)
             /\ Return(w, FALSE, Entry(w).value, ex[w].cache) /\ UNCHANGED journal
    <2>1. Entry(w) \in Rows /\ Copies(Entry(w), journal[ex[w].cursor])
      BY <1>1, <1>6, EntryFacts
    <2>2. Entry(w).value \in Nat
      BY <2>1 DEF Rows
    <2>3. ~Revived => journal[ex[w].cursor].done /\ Entry(w).value = journal[ex[w].cursor].value
      BY <1>0, <1>6, <2>1 DEF Copies, Memoized, Aligned
    <2>. QED BY <1>0, <1>6, <2>2, <2>3, ReturnsOld, FALSE \in BOOLEAN
  <1>. QED BY <1>3, <1>4, <1>5, <1>6 DEF RunOnce

\* while fn runs,
LEMMA RunFnKeeps ==
    ASSUME IInv, NEW w \in Execs, RunFn(w)
    PROVE  IInv'
  <1>0. ex[w].pc = "fn" /\ ex[w].pc \in InTask /\ UNCHANGED <<row, journal, program, now, returned>>
    BY DEF RunFn, InTask
  <1>1. /\ TypeOK /\ Cached(w) /\ ex[w] \in Records /\ Blank /\ MemoSpares /\ fnRuns \in Nat
    BY <1>0, TaskFacts DEF IInv, JournalInv, TypeOK
  <1>2. CASE Spend("fail") /\ Leave(w, "failed") /\ UNCHANGED fnRuns
    <2>1. "fail" \in Ops
      BY DEF Ops
    <2>2. budget' \in [Ops -> Nat] /\ (\A op \in Ops : budget'[op] <= Budget[op]) /\ (Revived' <=> Revived)
      BY <1>1, <1>2, <2>1, SpendFacts
    <2>. QED BY <1>0, <1>2, <2>2, Unwinds
  <1>3. CASE /\ fnRuns' = fnRuns + 1 /\ UNCHANGED budget
             /\ ex' = [ex EXCEPT ![w].pc = "memo", ![w].val = fnRuns + 1]
    <2>. DEFINE r == [ex[w] EXCEPT !.pc = "memo", !.val = fnRuns + 1]
    <2>1. ex' = [ex EXCEPT ![w] = r]
      BY <1>1, <1>3 DEF TypeOK
    <2>2. r \in Records /\ r.pc = "memo" /\ r.cache = ex[w].cache /\ r.cursor = ex[w].cursor
      <3>1. "memo" \in Pcs /\ fnRuns + 1 \in Nat
        BY <1>1 DEF Pcs, InTask
      <3>. QED BY <1>1, <3>1 DEF Records
    <2>. HIDE DEF r
    <2>3. ex' \in [Execs -> Records] /\ ex'[w] = r /\ \A v \in Execs \ {w} : ex'[v] = ex[v]
      BY <1>1, <2>1, <2>2 DEF TypeOK, Records
    <2>4. TypeOK'
      BY <1>0, <1>1, <1>3, <2>3 DEF TypeOK, Records, row
    <2>5. LogStep /\ (Revived' <=> Revived)
      BY <1>0, <1>1, <1>3, StillLog, Unspent
    <2>6. /\ Len(ex[w].cache) <= Len(journal) /\ ex[w].cursor <= Len(ex[w].cache) + 1
          /\ \A i \in 1..Len(ex'[w].cache) : Copies(ex[w].cache[i], journal[i])'
          /\ \A i \in 1..Len(journal') : i < ex[w].cursor /\ journal'[i].kind = "wait" => journal'[i].done
          /\ NoneMissed(w)'
      BY <1>0, <1>1, <2>2, <2>3, <2>4, <2>5, KeepsCopies
    <2>7. InCall(w, "once")'
      BY <1>0, <1>1, <2>2, <2>3 DEF Cached, InCall, Aligned, Entry, Call
    <2>8. Cached(w)'
      BY <1>0, <2>2, <2>3, <2>6, <2>7 DEF Cached
    <2>9. ~Revived => ~journal[ex[w].cursor].done
      BY <1>0, <1>1 DEF MemoSpares
    <2>10. Blank' /\ "memo" \in InTask
      BY <1>0, <1>1 DEF Blank, InTask
    <2>. QED BY <1>0, <2>2, <2>3, <2>4, <2>5, <2>8, <2>9, <2>10, Inside
  <1>. QED BY <1>2, <1>3 DEF RunFn

\* and when its result is recorded: no result is there yet, unless revived.
LEMMA CompleteOnceKeeps ==
    ASSUME IInv, NEW w \in Execs, CompleteJournalOnce(w)
    PROVE  IInv' /\ LogStep
  <1>. DEFINE i == ex[w].cursor
  <1>0. /\ ex[w].pc = "memo" /\ ex[w].pc \in InTask /\ UNCHANGED <<row, program, now, budget, fnRuns>>
    BY DEF CompleteJournalOnce, InTask
  <1>1. /\ TypeOK /\ Cached(w) /\ ex[w] \in Records /\ Blank /\ MemoSpares /\ ex[w].val \in Nat
        /\ ex[w].cache \in Seq(Rows) /\ journal \in Seq(Rows) /\ Len(journal) \in Nat
        /\ Len(ex[w].cache) \in Nat /\ Len(ex[w].cache) <= Len(journal)
    BY <1>0, TaskFacts DEF IInv, JournalInv, Records
  <1>2. Replay(w) /\ Aligned(w) /\ i <= Len(program) /\ Call(w).kind = "once"
    BY <1>0, <1>1 DEF Cached, InCall, Replay
  <1>3. /\ i \in 1..Len(ex[w].cache) /\ i \in 1..Len(journal) /\ Entry(w) \in Rows /\ journal[i] \in Rows
        /\ Copies(Entry(w), journal[i])
    BY <1>1, <1>2, EntryFacts
  <1>4. journal[i].kind = "once" /\ journal[i].label = Call(w).label /\ Entry(w).kind = "once"
    BY <1>2, <1>3 DEF Copies, Aligned
  <1>. DEFINE e == [journal[i] EXCEPT !.done = TRUE, !.value = ex[w].val]
              c == [Entry(w) EXCEPT !.done = TRUE, !.value = ex[w].val]
              t == [ex[w].cache EXCEPT ![i] = c]
  <1>5. /\ e \in Rows /\ e.kind = journal[i].kind /\ e.label = journal[i].label /\ e.at = journal[i].at
        /\ e.done = TRUE /\ e.value = ex[w].val
    BY <1>1, <1>3 DEF Rows
  <1>6. /\ c \in Rows /\ c.kind = "once" /\ c.label = Entry(w).label /\ c.at = Entry(w).at
        /\ c.done = TRUE /\ c.value = ex[w].val
    BY <1>1, <1>3, <1>4 DEF Rows
  <1>7. journal' = [journal EXCEPT ![i] = e] /\ Return(w, FALSE, ex[w].val, t)
    BY DEF CompleteJournalOnce, Entry
  <1>. HIDE DEF e, c
  <1>8. /\ journal' \in Seq(Rows) /\ Len(journal') = Len(journal) /\ journal'[i] = e
        /\ \A j \in 1..Len(journal) : j # i => journal'[j] = journal[j]
    BY <1>1, <1>3, <1>5, <1>7, UpdateFacts
  <1>9. /\ t \in Seq(Rows) /\ Len(t) = Len(ex[w].cache) /\ t[i] = c
        /\ \A j \in 1..Len(ex[w].cache) : j # i => t[j] = ex[w].cache[j]
    BY <1>1, <1>3, <1>6, UpdateFacts
  <1>. HIDE DEF t
  <1>10. /\ ex' \in [Execs -> Records]
         /\ ex'[w].pc = "body" /\ ex'[w].cache = t /\ ex'[w].cursor = i + 1
         /\ \A u \in Execs \ {w} : ex'[u] = ex[u]
         /\ returned' = returned \cup {[idx |-> i, kind |-> Call(w).kind, label |-> Call(w).label,
                                        timedOut |-> FALSE, value |-> ex[w].val]}
         /\ returned' \subseteq [idx : Nat \ {0}, kind : {"sleep", "wait", "once"}, label : STRING,
                                 timedOut : BOOLEAN, value : Nat]
    BY <1>1, <1>2, <1>7, <1>9, ReturnFacts, FALSE \in BOOLEAN
  <1>11. TypeOK'
    BY <1>0, <1>1, <1>8, <1>10 DEF TypeOK, Records, row
  <1>12. Revived' <=> Revived
    BY <1>0, Unspent
  <1>13. ~Revived => ~journal[i].done
    BY <1>0, <1>1 DEF MemoSpares
  <1>14. LogStep
    BY <1>4, <1>5, <1>8, <1>13 DEF LogStep
  <1>15. Cached(w)'
    <2>1. \A j \in 1..Len(ex'[w].cache) : Copies(ex[w].cache[j], journal[j])'
      <3>. TAKE j \in 1..Len(ex'[w].cache)
      <3>1. j \in 1..Len(ex[w].cache) /\ j \in 1..Len(journal)
        BY <1>1, <1>9, <1>10
      <3>2. Copies(ex[w].cache[j], journal[j])
        BY <1>1, <3>1 DEF Cached
      <3>3. CASE j # i
        <4>1. ex'[w].cache[j] = ex[w].cache[j] /\ journal'[j] = journal[j]
          BY <1>8, <1>9, <1>10, <3>1, <3>3
        <4>. QED BY <1>12, <3>2, <4>1 DEF Copies
      <3>4. CASE j = i
        <4>1. ex'[w].cache[j] = c /\ journal'[j] = e
          BY <1>8, <1>9, <1>10, <3>4
        <4>. QED BY <1>3, <1>4, <1>5, <1>6, <4>1 DEF Copies
      <3>. QED BY <3>3, <3>4
    <2>2. ASSUME NEW j \in 1..Len(journal'), j < i + 1, journal'[j].kind = "wait" PROVE journal'[j].done
      <3>1. j # i
        BY <1>4, <1>5, <1>8, <2>2
      <3>2. j < i /\ j \in 1..Len(journal) /\ journal'[j] = journal[j]
        BY <1>3, <1>8, <2>2, <3>1
      <3>. QED BY <1>1, <2>2, <3>2 DEF Cached
    <2>3. NoneMissed(w)'
      <3>. SUFFICES ASSUME ~Revived
                    PROVE  /\ \A j \in 1..Len(journal) : journal'[j].kind = "wait" /\ ~journal'[j].done => journal'[j].at > 0
                           /\ \A j \in 1..Len(t) : t[j].kind = "wait" /\ t[j].at = 0 => t[j].done
        BY <1>8, <1>10, <1>12 DEF NoneMissed, OpenWait
      <3>1. \A j \in 1..Len(journal) : journal'[j].kind = "wait" /\ ~journal'[j].done => journal'[j].at > 0
        BY <1>1, <1>5, <1>8 DEF Cached, NoneMissed, OpenWait
      <3>2. \A j \in 1..Len(t) : t[j].kind = "wait" /\ t[j].at = 0 => t[j].done
        BY <1>1, <1>6, <1>9 DEF Cached, NoneMissed
      <3>. QED BY <3>1, <3>2
    <2>4. Len(t) <= Len(journal') /\ i + 1 <= Len(t) + 1
      BY <1>1, <1>3, <1>8, <1>9
    <2>. QED BY <1>10, <2>1, <2>2, <2>3, <2>4 DEF Cached
  <1>16. ASSUME NEW y \in returned', y \notin returned PROVE Backed(y)'
    <2>1. /\ y.idx = i /\ y.kind = "once" /\ y.label = Call(w).label /\ ~y.timedOut /\ y.value = ex[w].val
      BY <1>2, <1>10, <1>16
    <2>2. y.idx <= Len(journal') /\ journal'[y.idx] = e
      BY <1>3, <1>8, <2>1
    <2>. QED BY <1>4, <1>5, <2>1, <2>2 DEF Backed
  <1>17. Blank' /\ "body" \in InTask
    BY <1>1, <1>5, <1>8 DEF Blank, InTask
  <1>18. IInv'
    BY <1>0, <1>8, <1>10, <1>11, <1>12, <1>14, <1>15, <1>16, <1>17, Inside
  <1>. QED BY <1>14, <1>18

\* WaitFor keeps the invariant: a replay that suspends again has a deadline, unless revived.
LEMMA WaitForKeeps ==
    ASSUME IInv, NEW w \in Execs, WaitFor(w)
    PROVE  IInv'
  <1>0. /\ ex[w].pc = "body" /\ ex[w].pc \in InTask /\ ex[w].cursor <= Len(program) /\ Call(w).kind = "wait"
        /\ UNCHANGED <<attempts, runStatus, program, now, budget, fnRuns>>
    BY DEF WaitFor, AtCall, InTask
  <1>1. TypeOK /\ Cached(w) /\ ex[w].cache \in Seq(Rows) /\ Deadline(w) \in Nat
    BY <1>0, TaskFacts, CallFacts
  <1>2. CASE ~Replay(w) /\ SuspendWithJournal(w, Deadline(w)) /\ UNCHANGED returned
    BY <1>0, <1>1, <1>2, FreshSuspends
  <1>3. CASE /\ Replay(w) /\ Aligned(w) /\ Entry(w).done /\ UNCHANGED <<stepStatus, resumeAt, journal>>
             /\ Return(w, Entry(w).timedOut, Entry(w).value, ex[w].cache)
    <2>1. Entry(w) \in Rows /\ Copies(Entry(w), journal[ex[w].cursor])
      BY <1>1, <1>3, EntryFacts
    <2>2. Entry(w).timedOut \in BOOLEAN /\ Entry(w).value \in Nat
      BY <2>1 DEF Rows
    <2>3. /\ journal[ex[w].cursor].done
          /\ Entry(w).timedOut = journal[ex[w].cursor].timedOut /\ Entry(w).value = journal[ex[w].cursor].value
      BY <1>0, <1>3, <2>1 DEF Copies, Aligned
    <2>. QED BY <1>0, <1>3, <2>2, <2>3, ReturnsOld DEF row
  <1>4. CASE /\ Replay(w) /\ Aligned(w) /\ Goto(w, "timeout")
             /\ UNCHANGED <<stepStatus, resumeAt, journal, returned>>
    BY <1>0, <1>4, GoesOn DEF row
  <1>5. CASE /\ Replay(w) /\ Aligned(w) /\ ~Entry(w).done /\ SuspendStep(w, Entry(w).at)
             /\ UNCHANGED <<journal, returned>>
    <2>1. Entry(w) \in Rows /\ ex[w].cursor \in 1..Len(ex[w].cache)
      BY <1>1, <1>5, EntryFacts
    <2>2. Entry(w).at \in Nat /\ Entry(w).kind = "wait"
      BY <1>0, <1>5, <2>1 DEF Rows, Aligned
    <2>3. ~Revived => Entry(w).at # 0
      BY <1>1, <1>5, <2>1, <2>2 DEF Cached, NoneMissed, Entry
    <2>4. ~Revived => Entry(w).at > 0
      BY <2>2, <2>3
    <2>. QED BY <1>0, <1>5, <2>2, <2>4, Resuspends
  <1>. QED BY <1>2, <1>3, <1>4, <1>5 DEF WaitFor

\* What an executor in the middle of a wait knows.
LEMMA InWait ==
    ASSUME IInv, NEW w \in Execs, ex[w].pc \in {"timeout", "reread"}
    PROVE  /\ ex[w].pc \in InTask /\ TypeOK /\ Cached(w) /\ Replay(w) /\ Aligned(w)
           /\ ex[w].cursor <= Len(program) /\ Call(w).kind = "wait"
           /\ ex[w].cursor \in 1..Len(ex[w].cache) /\ ex[w].cursor \in 1..Len(journal)
           /\ Entry(w) \in Rows /\ journal[ex[w].cursor] \in Rows
           /\ Copies(Entry(w), journal[ex[w].cursor])
           /\ journal[ex[w].cursor].kind = "wait" /\ journal[ex[w].cursor].label = Call(w).label
           /\ ex[w].pc = "reread" => journal[ex[w].cursor].done
  <1>1. ex[w].pc \in InTask
    BY DEF InTask
  <1>2. TypeOK /\ Cached(w)
    BY <1>1, TaskFacts
  <1>3. /\ Replay(w) /\ Aligned(w) /\ ex[w].cursor <= Len(program) /\ Call(w).kind = "wait"
        /\ ex[w].pc = "reread" => journal[ex[w].cursor].done
    BY <1>2 DEF Cached, InCall, Replay
  <1>4. /\ ex[w].cursor \in 1..Len(ex[w].cache) /\ ex[w].cursor \in 1..Len(journal)
        /\ Entry(w) \in Rows /\ journal[ex[w].cursor] \in Rows
        /\ Copies(Entry(w), journal[ex[w].cursor])
    BY <1>2, <1>3, EntryFacts
  <1>5. journal[ex[w].cursor].kind = "wait" /\ journal[ex[w].cursor].label = Call(w).label
    BY <1>3, <1>4 DEF Copies, Aligned
  <1>. QED BY <1>1, <1>2, <1>3, <1>4, <1>5

\* The timeout decides an open wait or finds it decided.
LEMMA TimeoutWaitKeeps ==
    ASSUME IInv, NEW w \in Execs, TimeoutWait(w)
    PROVE  IInv' /\ LogStep
  <1>. DEFINE i == ex[w].cursor
  <1>0. ex[w].pc = "timeout" /\ UNCHANGED <<row, program, now, budget, fnRuns>>
    BY DEF TimeoutWait
  <1>1. /\ ex[w].pc \in InTask /\ TypeOK /\ Cached(w) /\ Replay(w) /\ Aligned(w)
        /\ i <= Len(program) /\ Call(w).kind = "wait"
        /\ i \in 1..Len(ex[w].cache) /\ i \in 1..Len(journal) /\ journal[i] \in Rows
        /\ journal[i].kind = "wait" /\ journal[i].label = Call(w).label
    BY <1>0, InWait
  <1>2. journal \in Seq(Rows) /\ Len(journal) \in Nat /\ ex[w].cache \in Seq(Rows) /\ Blank
    BY <1>1, TaskFacts DEF IInv, JournalInv
  <1>3. CASE journal[i].done /\ Goto(w, "reread") /\ UNCHANGED <<journal, returned>>
    <2>1. IInv'
      BY <1>0, <1>1, <1>3, GoesOn
    <2>. QED BY <1>1, <1>3, <2>1, StillLog
  <1>4. CASE /\ ~journal[i].done /\ journal' = [journal EXCEPT ![i].done = TRUE, ![i].timedOut = TRUE]
             /\ Return(w, TRUE, 0, ex[w].cache)
    <2>. DEFINE e == [journal[i] EXCEPT !.done = TRUE, !.timedOut = TRUE]
    <2>1. /\ e \in Rows /\ e.kind = "wait" /\ e.label = journal[i].label /\ e.at = journal[i].at
          /\ e.done = TRUE /\ e.timedOut = TRUE /\ e.value = journal[i].value
      BY <1>1 DEF Rows
    <2>2. journal' = [journal EXCEPT ![i] = e]
      BY <1>4
    <2>. HIDE DEF e
    <2>3. /\ journal' \in Seq(Rows) /\ Len(journal') = Len(journal) /\ journal'[i] = e
          /\ \A j \in 1..Len(journal) : j # i => journal'[j] = journal[j]
      BY <1>1, <1>2, <2>1, <2>2, UpdateFacts
    <2>4. /\ ex' \in [Execs -> Records]
          /\ ex'[w].pc = "body" /\ ex'[w].cache = ex[w].cache /\ ex'[w].cursor = i + 1
          /\ \A u \in Execs \ {w} : ex'[u] = ex[u]
          /\ returned' = returned \cup {[idx |-> i, kind |-> Call(w).kind, label |-> Call(w).label,
                                         timedOut |-> TRUE, value |-> 0]}
          /\ returned' \subseteq [idx : Nat \ {0}, kind : {"sleep", "wait", "once"}, label : STRING,
                                  timedOut : BOOLEAN, value : Nat]
      BY <1>1, <1>2, <1>4, ReturnFacts, TRUE \in BOOLEAN, 0 \in Nat
    <2>5. TypeOK'
      BY <1>0, <1>1, <2>3, <2>4 DEF TypeOK, Records, row
    <2>6. Revived' <=> Revived
      BY <1>0, Unspent
    <2>7. LogStep
      BY <1>1, <1>4, <2>1, <2>3 DEF LogStep
    <2>8. \A j \in 1..Len(journal) : journal[j].kind = "once" => journal'[j] = journal[j]
      BY <1>1, <2>3
    <2>9. Cached(w)'
      BY <1>1, <2>1, <2>3, <2>4, <2>5, <2>6, <2>7, <2>8, Advances
    <2>10. journal[i].value = 0
      BY <1>1, <1>2, <1>4 DEF Blank
    <2>11. ASSUME NEW y \in returned', y \notin returned PROVE Backed(y)'
      <3>1. y.idx = i /\ y.kind = "wait" /\ y.label = Call(w).label /\ y.timedOut = TRUE /\ y.value = 0
        BY <1>1, <2>4, <2>11
      <3>2. y.idx <= Len(journal') /\ journal'[y.idx] = e
        BY <1>1, <2>3, <3>1
      <3>. QED BY <1>1, <2>1, <2>10, <3>1, <3>2 DEF Backed
    <2>12. Blank' /\ "body" \in InTask
      BY <1>2, <2>1, <2>3 DEF Blank, InTask
    <2>13. IInv'
      BY <1>0, <1>1, <2>3, <2>4, <2>5, <2>6, <2>7, <2>9, <2>11, <2>12, Inside
    <2>. QED BY <2>7, <2>13
  <1>. QED BY <1>3, <1>4 DEF TimeoutWait

\* The loser of the race is told what the journal says.
LEMMA GetEntryKeeps ==
    ASSUME IInv, NEW w \in Execs, GetJournalEntry(w)
    PROVE  IInv'
  <1>. DEFINE e == journal[ex[w].cursor]
  <1>0. /\ ex[w].pc = "reread" /\ UNCHANGED <<row, journal, program, now, budget, fnRuns>>
        /\ Return(w, e.timedOut, e.value, ex[w].cache)
    BY DEF GetJournalEntry
  <1>1. /\ ex[w].pc \in InTask /\ Replay(w) /\ Aligned(w) /\ ex[w].cursor <= Len(program)
        /\ Call(w).kind = "wait" /\ e \in Rows /\ e.done
    BY <1>0, InWait
  <1>2. e.timedOut \in BOOLEAN /\ e.value \in Nat
    BY <1>1 DEF Rows
  <1>. QED BY <1>0, <1>1, <1>2, ReturnsOld

\* An event decides the open wait for it and queues the step that was suspended.
LEMMA DeliverKeeps ==
    ASSUME IInv, NEW event \in Events, DeliverEvent(event)
    PROVE  IInv' /\ LogStep
  <1>0. /\ TypeOK /\ OneTask /\ Caches /\ Told /\ MemoSpares /\ OpenIsLast /\ OpenAwaited /\ Blank
        /\ EventReachesWaiter /\ WakesOnTime
    BY DEF IInv, JournalInv
  <1>1. /\ UNCHANGED <<attempts, runStatus, ex, program, now, fnRuns, returned>>
        /\ Spend("emit") /\ "emit" \in Ops
    BY DEF DeliverEvent, Ops
  <1>2. /\ budget' \in [Ops -> Nat] /\ (\A op \in Ops : budget'[op] <= Budget[op]) /\ (Revived' <=> Revived)
        /\ Spent("emit") + 1 \in Nat
    BY <1>0, <1>1, SpendFacts DEF Ops
  <1>. DEFINE e(i) == [journal[i] EXCEPT !.done = TRUE, !.value = Spent("emit") + 1]
              A == Awaiting(event)
  <1>3. journal \in Seq(Rows) /\ Len(journal) \in Nat /\ DOMAIN journal = 1..Len(journal)
        /\ \A i \in 1..Len(journal) : journal[i] \in Rows
    BY <1>0 DEF TypeOK
  <1>4. \A i \in 1..Len(journal) :
          /\ e(i) \in Rows /\ e(i).kind = journal[i].kind /\ e(i).label = journal[i].label
          /\ e(i).at = journal[i].at /\ e(i).done = TRUE
    BY <1>2, <1>3 DEF Rows
  <1>5. journal' = [i \in 1..Len(journal) |-> IF i \in A THEN e(i) ELSE journal[i]]
    BY <1>3 DEF DeliverEvent
  <1>6. A \subseteq 1..Len(journal) /\ \A i \in A : OpenWait(i) /\ runStatus = "LIVE"
    BY <1>3 DEF Awaiting, OpenWait
  <1>. HIDE DEF e, A
  <1>7. /\ journal' \in Seq(Rows) /\ Len(journal') = Len(journal)
    <2>1. journal' \in [1..Len(journal) -> Rows]
      BY <1>3, <1>4, <1>5
    <2>. QED BY <1>3, <2>1, MapFacts
  <1>8. \A i \in 1..Len(journal) : IF i \in A THEN journal'[i] = e(i) ELSE journal'[i] = journal[i]
    BY <1>5
  <1>9. LogStep
    BY <1>4, <1>6, <1>7, <1>8 DEF LogStep, OpenWait
  <1>10. \/ stepStatus' = stepStatus /\ resumeAt' = resumeAt /\ (stepStatus # "SUSPENDED" \/ A = {})
         \/ stepStatus = "SUSPENDED" /\ stepStatus' = "QUEUED" /\ resumeAt' = 0 /\ A # {}
    BY DEF DeliverEvent, A
  <1>11. TypeOK'
    BY <1>0, <1>1, <1>2, <1>7, <1>10 DEF TypeOK
  <1>12. \A i \in 1..Len(journal) : OpenWait(i)' => OpenWait(i) /\ i \notin A /\ journal'[i] = journal[i]
    BY <1>4, <1>8 DEF OpenWait
  <1>13. A # {} => \A i \in 1..Len(journal) : ~OpenWait(i)'
    <2>. SUFFICES ASSUME NEW k \in A, NEW i \in 1..Len(journal), OpenWait(i)' PROVE FALSE
      OBVIOUS
    <2>1. k = Len(journal) /\ i = Len(journal)
      BY <1>0, <1>6, <1>12 DEF OpenIsLast
    <2>. QED BY <1>12, <2>1
  <1>14. OneTask'
    BY <1>0, <1>1, <1>2, <1>10 DEF OneTask
  <1>15. \A i \in 1..Len(journal) : journal[i].kind = "once" => journal'[i] = journal[i]
    BY <1>6, <1>8 DEF OpenWait
  <1>16. Caches'
    <2>. SUFFICES ASSUME NEW v \in Execs, ex'[v].pc \in InTask PROVE Cached(v)'
      BY DEF Caches
    <2>1. ex'[v] = ex[v] /\ Cached(v)
      BY <1>0, <1>1 DEF Caches
    <2>. QED BY <1>0, <1>1, <1>2, <1>7, <1>9, <1>11, <1>15, <2>1, KeepsCached
  <1>17. Told'
    BY <1>0, <1>1, <1>2, <1>9, <1>11, KeepsTold
  <1>18. MemoSpares'
    <2>. SUFFICES ASSUME NEW w \in Execs, ex[w].pc \in {"fn", "memo"}, ~Revived
                  PROVE  ~journal'[ex[w].cursor].done
      BY <1>1, <1>2 DEF MemoSpares
    <2>1. ~journal[ex[w].cursor].done /\ ex[w].pc \in InTask
      BY <1>0 DEF MemoSpares, InTask
    <2>2. Cached(w) /\ Replay(w) /\ Aligned(w) /\ Call(w).kind = "once"
      BY <1>0, <2>1 DEF Caches, Cached, InCall, Replay
    <2>3. ex[w].cursor \in 1..Len(journal) /\ Copies(Entry(w), journal[ex[w].cursor])
      BY <1>0, <2>2, EntryFacts
    <2>4. journal[ex[w].cursor].kind = "once"
      BY <2>2, <2>3 DEF Copies, Aligned
    <2>. QED BY <1>15, <2>1, <2>3, <2>4
  <1>19. OpenIsLast'
    BY <1>0, <1>7, <1>12 DEF OpenIsLast
  <1>20. OpenAwaited'
    <2>. SUFFICES ASSUME ~Revived, NEW i \in 1..Len(journal), OpenWait(i)', journal'[i].at = 0
                  PROVE  stepStatus' \notin {"QUEUED", "RUNNING"} /\ (stepStatus' = "SUSPENDED" => resumeAt' = 0)
      BY <1>2, <1>7 DEF OpenAwaited
    <2>1. stepStatus' = stepStatus /\ resumeAt' = resumeAt /\ OpenWait(i) /\ journal[i].at = 0
      BY <1>10, <1>12, <1>13
    <2>. QED BY <1>0, <2>1 DEF OpenAwaited
  <1>21. stepStatus' = "SUSPENDED" => journal' = journal /\ stepStatus = "SUSPENDED" /\ resumeAt' = resumeAt
    <2>1. A = {} => \A i \in 1..Len(journal) : journal'[i] = journal[i]
      BY <1>8
    <2>2. A = {} => journal' = journal
      BY <1>3, <1>7, <2>1
    <2>. QED BY <1>10, <2>2
  <1>22. EventReachesWaiter' /\ WakesOnTime'
    BY <1>0, <1>1, <1>2, <1>21 DEF EventReachesWaiter, EventNeverLost, WakesOnTime
  <1>23. Blank'
    BY <1>0, <1>4, <1>7, <1>8 DEF Blank
  <1>. QED BY <1>9, <1>11, <1>14, <1>16, <1>17, <1>18, <1>19, <1>20, <1>22, <1>23 DEF IInv, JournalInv
-----------------------------------------------------------------------------
(* The theorems.                                                           *)

\* The invariant holds of a step that is queued for the first time.
LEMMA InitHolds == Init => IInv
  <1>. SUFFICES ASSUME Init PROVE IInv
    OBVIOUS
  <1>1. \A w \in Execs : ex[w].pc = "idle"
    BY IdleTyped DEF Init
  <1>2. TypeOK
    <2>1. <<>> \in Seq(Rows)
      OBVIOUS
    <2>2. ex \in [Execs -> Records]
      BY IdleTyped DEF Init
    <2>3. budget \in [Ops -> Nat] /\ \A op \in Ops : budget[op] <= Budget[op]
      BY JournalAssumption DEF Init
    <2>. QED BY <2>1, <2>2, <2>3 DEF Init, TypeOK, Records
  <1>3. \A w \in Execs : ex[w].pc \notin InTask /\ ex[w].pc \notin Holding /\ ex[w].pc \notin {"fn", "memo"}
    BY <1>1, OutsideFacts
  <1>4. Len(journal) = 0 /\ returned = {} /\ stepStatus = "QUEUED"
    BY DEF Init
  <1>5. OneTask /\ Caches /\ MemoSpares
    BY <1>3 DEF OneTask, Caches, MemoSpares
  <1>6. Told /\ OpenIsLast /\ OpenAwaited /\ Blank
    BY <1>4 DEF Told, OpenIsLast, OpenAwaited, Blank
  <1>7. EventReachesWaiter /\ WakesOnTime
    BY <1>4 DEF EventReachesWaiter, EventNeverLost, WakesOnTime
  <1>. QED BY <1>2, <1>5, <1>6, <1>7 DEF IInv, JournalInv

\* Every step keeps the invariant.
LEMMA StepHolds == IInv /\ [Next]_vars => IInv'
  <1>. SUFFICES ASSUME IInv, [Next]_vars PROVE IInv'
    OBVIOUS
  <1>1. CASE UNCHANGED vars
    <2>1. UNCHANGED <<stepStatus, resumeAt, attempts, runStatus, journal, ex, program, now, budget, fnRuns, returned>>
      BY <1>1 DEF vars, row
    <2>2. TypeOK' /\ (Revived' <=> Revived)
      BY <2>1, Unspent DEF IInv, TypeOK
    <2>3. EventReachesWaiter' /\ WakesOnTime'
      BY <2>1, <2>2, StaysAwaited
    <2>. QED BY <2>1, <2>2, <2>3, Quiet
  <1>2. ASSUME NEW w \in Execs, ExecutorStep(w) PROVE IInv'
    BY <1>2, LoadKeeps, MisalignedKeeps, SleepKeeps, RunOnceKeeps, RunFnKeeps, CompleteOnceKeeps, WaitForKeeps,
       TimeoutWaitKeeps, GetEntryKeeps, TaskDoneKeeps, SuspendedKeeps, CompleteKeeps, AttemptFailsKeeps
       DEF ExecutorStep
  <1>3. ASSUME NEW w \in Execs, claimQueueTx(w) \/ CallFails(w) PROVE IInv'
    BY <1>3, ClaimKeeps, CallFailsKeeps
  <1>4. ASSUME NEW event \in Events, DeliverEvent(event) PROVE IInv'
    BY <1>4, DeliverKeeps
  <1>5. CASE CancelRun \/ SiblingFails \/ RetryDeadLetter \/ Tick \/ ClockBack \/ Restart
    BY <1>5, CancelRunKeeps, SiblingFailsKeeps, RetryKeeps, TickKeeps, RestartKeeps
  <1>. QED BY <1>1, <1>2, <1>3, <1>4, <1>5 DEF Next

\* The inductive invariant holds in every state of the journal.
THEOREM JournalInvariant == Spec => []IInv
  BY InitHolds, StepHolds, PTL DEF Spec

\* Type correctness: the row, the journal, the executors' copies and what the durable
\* calls return (engine/durable.go) keep their types.
THEOREM JournalTypeCorrect == Spec => []TypeOK
  <1>1. IInv => TypeOK
    BY DEF IInv
  <1>. QED BY <1>1, JournalInvariant, PTL

\* Every invocation of a durable task that gets past a call is told the same by it.
THEOREM ReplaysAgree == Spec => []ReplayAgrees
  <1>1. ASSUME IInv PROVE ReplayAgrees
    <2>. SUFFICES ASSUME NEW x \in returned, NEW y \in returned, x.idx = y.idx, x.kind = "once" => ~Revived
                  PROVE  x = y
      BY DEF ReplayAgrees
    <2>1. Backed(x) /\ Backed(y)
      BY <1>1 DEF IInv, JournalInv, Told
    <2>. DEFINE R == [idx : Nat \ {0}, kind : {"sleep", "wait", "once"}, label : STRING,
                      timedOut : BOOLEAN, value : Nat]
    <2>2. x \in R /\ y \in R
      BY <1>1 DEF IInv, TypeOK
    <2>3. x.kind = y.kind /\ x.label = y.label
      BY <2>1 DEF Backed
    <2>4. x.value = y.value
      BY <2>1, <2>2, <2>3 DEF Backed
    <2>5. x.timedOut = y.timedOut
      BY <2>1, <2>2, <2>3 DEF Backed
    <2>. QED BY <2>2, <2>3, <2>4, <2>5
  <1>. QED BY <1>1, JournalInvariant, PTL

\* A recorded RunOnce result spares its function, unless the run was revived.
THEOREM MemoSparesFn == Spec => []MemoSpares
  <1>1. IInv => MemoSpares
    BY DEF IInv, JournalInv
  <1>. QED BY <1>1, JournalInvariant, PTL

\* Without a revival, a step that only an event can wake has a wait for it to find.
THEOREM EventsReachWaiters == Spec => []EventReachesWaiter
  <1>1. IInv => EventReachesWaiter
    BY DEF IInv, JournalInv
  <1>. QED BY <1>1, JournalInvariant, PTL

\* A suspension wakes at the time its own entry records.
THEOREM SuspensionsWakeOnTime == Spec => []WakesOnTime
  <1>1. IInv => WakesOnTime
    BY DEF IInv, JournalInv
  <1>. QED BY <1>1, JournalInvariant, PTL

\* The helpers that suspend or return without writing, or add one entry, log.
LEMMA HelpersLog ==
    ASSUME IInv, NEW w \in Execs, SleepDurable(w) \/ RunOnce(w) \/ WaitFor(w)
    PROVE  LogStep
  <1>1. TypeOK /\ now \in Nat /\ ex[w].cursor <= Len(program)
    BY DEF IInv, TypeOK, SleepDurable, RunOnce, WaitFor, AtCall
  <1>2. /\ \A at \in Nat, done \in BOOLEAN : NewEntry(w, at, done) \in Rows
        /\ Deadline(w) \in Nat /\ now + Call(w).dur \in Nat
    BY <1>1, CallFacts
  <1>3. \/ journal' = journal
        \/ journal' = Append(journal, NewEntry(w, now, TRUE))
        \/ journal' = Append(journal, NewEntry(w, 0, FALSE))
        \/ journal' = Append(journal, NewEntry(w, Deadline(w), FALSE))
        \/ journal' = Append(journal, NewEntry(w, now + Call(w).dur, FALSE))
    BY DEF SleepDurable, RunOnce, WaitFor, SuspendWithJournal, AppendJournal
  <1>4. \/ journal' = journal
        \/ \E e \in Rows : journal' = Append(journal, e)
    BY <1>1, <1>2, <1>3
  <1>. QED BY <1>1, <1>4, StillLog, AppendLog

\* The journal is a log: entries are added at its end and, once decided, never change
\* (the result of a RunOnce: unless the run was revived).
THEOREM JournalOnlyGrows == Spec => JournalIsLog
  <1>1. ASSUME IInv, [Next]_vars PROVE [LogStep]_vars
    <2>0. TypeOK
      BY <1>1 DEF IInv
    <2>1. CASE UNCHANGED vars
      BY <2>1
    <2>2. ASSUME NEW w \in Execs, SleepDurable(w) \/ RunOnce(w) \/ WaitFor(w) PROVE LogStep
      BY <1>1, <2>2, HelpersLog
    <2>3. ASSUME NEW w \in Execs, CompleteJournalOnce(w) \/ TimeoutWait(w) PROVE LogStep
      BY <1>1, <2>3, CompleteOnceKeeps, TimeoutWaitKeeps
    <2>4. ASSUME NEW event \in Events, DeliverEvent(event) PROVE LogStep
      BY <1>1, <2>4, DeliverKeeps
    <2>5. ASSUME NEW w \in Execs,
                 \/ claimQueueTx(w) \/ CallFails(w) \/ LoadJournal(w) \/ Misaligned(w) \/ RunFn(w)
                 \/ GetJournalEntry(w) \/ TaskDone(w) \/ Suspended(w) \/ completeStepTx(w) \/ AttemptFails(w)
          PROVE  journal' = journal
      BY <2>5 DEF claimQueueTx, CallFails, LoadJournal, Misaligned, RunFn, GetJournalEntry, TaskDone,
                  Suspended, completeStepTx, AttemptFails
    <2>6. CASE CancelRun \/ SiblingFails \/ RetryDeadLetter \/ Tick \/ ClockBack \/ Restart
      <3>1. journal' = journal
        BY <2>6 DEF CancelRun, SiblingFails, RetryDeadLetter, Tick, ClockBack, Restart
      <3>. QED BY <2>0, <3>1, StillLog
    <2>7. ASSUME NEW w \in Execs, claimQueueTx(w) \/ ExecutorStep(w) \/ CallFails(w) PROVE LogStep
      BY <2>0, <2>2, <2>3, <2>5, <2>7, StillLog DEF ExecutorStep
    <2>. QED BY <1>1, <2>1, <2>4, <2>6, <2>7 DEF Next
  <1>. QED BY <1>1, JournalInvariant, PTL DEF Spec, JournalIsLog
-----------------------------------------------------------------------------
(* WaitFor keeps the promise of AwaitOnce.                                 *)

\* A decided wait has one of the outcomes AwaitOnce knows.
Outs == {[timedOut |-> TRUE, value |-> 0]} \cup {[timedOut |-> FALSE, value |-> v] : v \in 1..Budget["emit"]}
Decisive == \A i \in 1..Len(journal) : journal[i].kind = "wait" /\ journal[i].done => Outcome(journal[i]) \in Outs

\* A payload or a timeout cannot be mistaken for an open wait.
LEMMA OutsNotOpen == \A o \in Outs : o # Open
  <1>1. "emit" \in Ops /\ Budget["emit"] \in Nat
    BY JournalAssumption DEF Ops
  <1>2. ASSUME NEW v \in 1..Budget["emit"] PROVE [timedOut |-> FALSE, value |-> v] # Open
    BY <1>1, <1>2 DEF Open
  <1>3. [timedOut |-> TRUE, value |-> 0] # Open
    BY DEF Open
  <1>. QED BY <1>2, <1>3 DEF Outs

\* Steps that decide no wait and return from none are invisible to AwaitOnce.
LEMMA Unseen ==
    ASSUME IInv, TypeOK', LogStep,
           \A i \in 1..Len(journal) : journal[i].kind = "wait" => journal'[i] = journal[i],
           \A i \in 1..Len(journal') : i > Len(journal) /\ journal'[i].kind = "wait" =>
               ~journal'[i].done /\ journal'[i].timedOut = FALSE /\ journal'[i].value = 0,
           returned \subseteq returned', \A x \in returned' : x \in returned \/ x.kind # "wait"
    PROVE  waitOutcome' = waitOutcome /\ waitTold' = waitTold /\ (Decisive => Decisive')
  <1>1. /\ journal \in Seq(Rows) /\ journal' \in Seq(Rows) /\ Len(journal) \in Nat /\ Len(journal') \in Nat
        /\ DOMAIN journal = 1..Len(journal) /\ DOMAIN journal' = 1..Len(journal')
        /\ Len(journal) <= Len(journal')
    BY DEF IInv, TypeOK, LogStep
  <1>2. \A i \in 1..Len(journal) : journal'[i].kind = journal[i].kind
    BY DEF LogStep
  <1>3. ASSUME NEW i \in 1..MaxCalls
        PROVE  (IF i \in DOMAIN journal' /\ journal'[i].kind = "wait" THEN Outcome(journal'[i]) ELSE Open)
               = (IF i \in DOMAIN journal /\ journal[i].kind = "wait" THEN Outcome(journal[i]) ELSE Open)
    <2>1. CASE i \in 1..Len(journal)
      <3>1. i \in 1..Len(journal')
        BY <1>1, <2>1
      <3>. QED BY <1>1, <1>2, <2>1, <3>1
    <2>2. CASE i \in 1..Len(journal') /\ i > Len(journal)
      BY <1>1, <2>2 DEF Outcome, Open
    <2>3. CASE i \notin 1..Len(journal')
      BY <1>1, <2>3
    <2>. QED BY <1>1, <2>1, <2>2, <2>3
  <1>4. waitOutcome' = waitOutcome
    BY <1>3 DEF waitOutcome, Outcome, Open
  <1>5. {y \in returned' : y.kind = "wait"} = {y \in returned : y.kind = "wait"}
    OBVIOUS
  <1>6. waitTold' = waitTold
    BY <1>5 DEF waitTold, Outcome
  <1>7. ASSUME Decisive PROVE Decisive'
    <2>. SUFFICES ASSUME NEW i \in 1..Len(journal'), journal'[i].kind = "wait", journal'[i].done
                  PROVE  Outcome(journal'[i]) \in Outs
      BY DEF Decisive, Outcome, Outs
    <2>1. i \in 1..Len(journal)
      BY <1>1
    <2>2. journal'[i] = journal[i]
      BY <1>2, <2>1
    <2>. QED BY <1>7, <2>1, <2>2 DEF Decisive
  <1>. QED BY <1>4, <1>6, <1>7

\* In particular a step that leaves the journal and the returns alone.
LEMMA UnseenStill ==
    ASSUME IInv, IInv', Decisive, UNCHANGED <<journal, returned>>
    PROVE  [Await!Next]_Await!vars /\ Decisive'
  <1>0. TypeOK /\ TypeOK' /\ LogStep
    BY StillLog DEF IInv
  <1>1. TypeOK /\ TypeOK' /\ LogStep /\ Len(journal) \in Nat
    <2>1. journal \in Seq(Rows)
      BY <1>0 DEF TypeOK
    <2>. QED BY <1>0, <2>1
  <1>2. \A i \in 1..Len(journal') : ~(i > Len(journal))
    BY <1>1
  <1>3. waitOutcome' = waitOutcome /\ waitTold' = waitTold /\ Decisive'
    BY <1>1, <1>2, Unseen
  <1>. QED BY <1>3 DEF Await!vars

\* A wait that returns its decision is a Tell.
LEMMA Tells ==
    ASSUME IInv, Decisive, journal' = journal, NEW w \in Execs, ex[w].cursor <= Len(program),
           ex[w].cursor \in 1..Len(journal), Call(w).kind = "wait", journal[ex[w].cursor].kind = "wait",
           journal[ex[w].cursor].done, NEW c,
           Return(w, journal[ex[w].cursor].timedOut, journal[ex[w].cursor].value, c)
    PROVE  Await!Next /\ Decisive'
  <1>. DEFINE i == ex[w].cursor
              x == [idx |-> i, kind |-> Call(w).kind, label |-> Call(w).label,
                    timedOut |-> journal[i].timedOut, value |-> journal[i].value]
  <1>1. TypeOK /\ program \in Seq(Calls) /\ Len(program) \in Nat /\ Len(program) <= MaxCalls /\ MaxCalls \in Nat
    BY ProgramAssumption DEF IInv, TypeOK
  <1>2. i \in 1..MaxCalls /\ i \in DOMAIN journal
    BY <1>1 DEF TypeOK
  <1>3. waitOutcome[i] = Outcome(journal[i])
    BY <1>2 DEF waitOutcome
  <1>4. waitOutcome[i] # Open
    BY <1>3, OutsNotOpen DEF Decisive
  <1>5. returned' = returned \cup {x}
    BY DEF Return
  <1>6. x.kind = "wait" /\ x.idx = i /\ Outcome(x) = Outcome(journal[i])
    BY DEF Outcome
  <1>7. {y \in returned' : y.kind = "wait"} = {y \in returned : y.kind = "wait"} \cup {x}
    BY <1>5, <1>6
  <1>8. waitTold' = waitTold \cup {<<i, waitOutcome[i]>>}
    <2>. DEFINE T(S) == {<<y.idx, Outcome(y)>> : y \in S}
    <2>1. waitTold' = T({y \in returned' : y.kind = "wait"}) /\ waitTold = T({y \in returned : y.kind = "wait"})
      BY DEF waitTold, Outcome
    <2>2. \A S : T(S \cup {x}) = T(S) \cup {<<x.idx, Outcome(x)>>}
      OBVIOUS
    <2>. QED BY <1>3, <1>6, <1>7, <2>1, <2>2
  <1>9. waitOutcome' = waitOutcome
    BY DEF waitOutcome, Outcome, Open
  <1>10. Decisive'
    BY DEF Decisive, Outcome, Outs
  <1>. QED BY <1>2, <1>4, <1>8, <1>9, <1>10 DEF Await!Next, Await!Tell

\* Taking the timeout settles the wait and tells its caller; losing the race is
\* invisible.
LEMMA TimeoutSettles ==
    ASSUME IInv, IInv', Decisive, NEW w \in Execs, TimeoutWait(w)
    PROVE  [Await!Next]_Await!vars /\ Decisive'
  <1>. DEFINE i == ex[w].cursor
              o == [timedOut |-> TRUE, value |-> 0]
  <1>1. /\ TypeOK /\ i <= Len(program) /\ Call(w).kind = "wait" /\ i \in 1..Len(journal)
        /\ journal[i] \in Rows /\ journal[i].kind = "wait"
    BY InWait DEF TimeoutWait
  <1>2. /\ journal \in Seq(Rows) /\ Blank /\ TypeOK' /\ LogStep
    BY <1>1, TimeoutWaitKeeps DEF IInv, JournalInv, TypeOK
  <1>3. CASE UNCHANGED <<journal, returned>>
    BY <1>3, UnseenStill
  <1>4. CASE /\ ~journal[i].done /\ journal' = [journal EXCEPT ![i].done = TRUE, ![i].timedOut = TRUE]
             /\ Return(w, TRUE, 0, ex[w].cache)
    <2>. DEFINE e == [journal[i] EXCEPT !.done = TRUE, !.timedOut = TRUE]
                x == [idx |-> i, kind |-> Call(w).kind, label |-> Call(w).label, timedOut |-> TRUE, value |-> 0]
    <2>1. journal[i].timedOut = FALSE /\ journal[i].value = 0
      BY <1>1, <1>2, <1>4 DEF Blank, Rows
    <2>2. /\ e \in Rows /\ e.kind = "wait" /\ e.timedOut = TRUE /\ e.value = 0
      BY <1>1, <2>1 DEF Rows
    <2>3. journal' = [journal EXCEPT ![i] = e]
      BY <1>4
    <2>. HIDE DEF e
    <2>4. /\ Len(journal') = Len(journal) /\ journal'[i] = e
          /\ \A j \in 1..Len(journal) : j # i => journal'[j] = journal[j]
          /\ DOMAIN journal = 1..Len(journal) /\ DOMAIN journal' = 1..Len(journal)
      BY <1>1, <1>2, <2>2, <2>3, UpdateFacts
    <2>5. Outcome(journal[i]) = Open /\ Outcome(e) = o
      BY <2>1, <2>2 DEF Outcome, Open
    <2>6. i \in 1..MaxCalls
      <3>1. program \in Seq(Calls) /\ Len(program) <= MaxCalls /\ MaxCalls \in Nat
        BY <1>1, ProgramAssumption DEF TypeOK
      <3>. QED BY <1>1, <3>1
    <2>7. waitOutcome[i] = Open
      BY <1>1, <2>4, <2>5, <2>6 DEF waitOutcome
    <2>8. ASSUME NEW j \in 1..MaxCalls
          PROVE  (IF j \in DOMAIN journal' /\ journal'[j].kind = "wait" THEN Outcome(journal'[j]) ELSE Open)
                 = (IF j \in {i} THEN o ELSE waitOutcome[j])
      <3>1. CASE j = i
        BY <1>1, <2>2, <2>4, <2>5, <3>1
      <3>2. CASE j # i
        BY <2>4, <3>2 DEF waitOutcome
      <3>. QED BY <3>1, <3>2
    <2>9. waitOutcome' = [j \in 1..MaxCalls |-> IF j \in {i} THEN o ELSE waitOutcome[j]]
      <3>1. waitOutcome' = [j \in 1..MaxCalls |->
               IF j \in DOMAIN journal' /\ journal'[j].kind = "wait" THEN Outcome(journal'[j]) ELSE Open]
        BY DEF waitOutcome, Outcome, Open
      <3>. QED BY <2>8, <3>1
    <2>10. returned' = returned \cup {x}
      BY <1>4 DEF Return
    <2>11. x.kind = "wait" /\ x.idx = i /\ Outcome(x) = o
      BY <1>1 DEF Outcome
    <2>12. {y \in returned' : y.kind = "wait"} = {y \in returned : y.kind = "wait"} \cup {x}
      BY <2>10, <2>11
    <2>13. waitTold' = waitTold \cup {<<i, o>>}
      <3>. DEFINE T(S) == {<<y.idx, Outcome(y)>> : y \in S}
      <3>1. waitTold' = T({y \in returned' : y.kind = "wait"}) /\ waitTold = T({y \in returned : y.kind = "wait"})
        BY DEF waitTold, Outcome
      <3>2. \A S : T(S \cup {x}) = T(S) \cup {<<x.idx, Outcome(x)>>}
        OBVIOUS
      <3>. QED BY <2>11, <2>12, <3>1, <3>2
    <2>14. o \in Outs /\ o # Open
      BY OutsNotOpen DEF Outs
    <2>15. Await!Settle({i}, o)
      BY <2>7, <2>9, <2>13, <2>14 DEF Await!Settle
    <2>16. Await!Next
      BY <2>6, <2>14, <2>15 DEF Await!Next, Outs
    <2>17. Decisive'
      <3>. SUFFICES ASSUME NEW j \in 1..Len(journal), journal'[j].kind = "wait", journal'[j].done
                    PROVE  Outcome(journal'[j]) \in Outs
        BY <2>4 DEF Decisive, Outcome, Outs
      <3>. QED BY <2>4, <2>5, <2>14 DEF Decisive
    <2>. QED BY <2>16, <2>17
  <1>. QED BY <1>3, <1>4 DEF TimeoutWait

\* An event settles every open wait for it at once and tells nobody yet.
LEMMA DeliverSettles ==
    ASSUME IInv, IInv', Decisive, NEW event \in Events, DeliverEvent(event)
    PROVE  [Await!Next]_Await!vars /\ Decisive'
  <1>. DEFINE A == Awaiting(event)
              n == Spent("emit") + 1
              e(i) == [journal[i] EXCEPT !.done = TRUE, !.value = n]
              o == [timedOut |-> FALSE, value |-> n]
  <1>1. /\ TypeOK /\ journal \in Seq(Rows) /\ Len(journal) \in Nat /\ DOMAIN journal = 1..Len(journal)
        /\ Blank /\ (\A i \in 1..Len(journal) : journal[i] \in Rows)
    BY DEF IInv, JournalInv, TypeOK
  <1>2. n \in 1..Budget["emit"] /\ n \in Nat
    <2>1. "emit" \in Ops /\ Spend("emit") /\ Budget["emit"] \in Nat
      BY JournalAssumption DEF Ops, DeliverEvent
    <2>2. n \in 1..Budget["emit"]
      BY <1>1, <2>1, SpendFacts
    <2>. QED BY <2>1, <2>2
  <1>3. A \subseteq 1..Len(journal) /\ \A i \in A : journal[i].kind = "wait" /\ ~journal[i].done
    BY <1>1 DEF Awaiting
  <1>4. journal' = [i \in 1..Len(journal) |-> IF i \in A THEN e(i) ELSE journal[i]] /\ returned' = returned
    BY <1>1 DEF DeliverEvent
  <1>. HIDE DEF A, n
  <1>5. \A i \in A : /\ journal[i].timedOut = FALSE /\ journal[i].value = 0
                     /\ e(i).kind = "wait" /\ e(i).timedOut = FALSE /\ e(i).value = n /\ e(i) \in Rows
    <2>. TAKE i \in A
    <2>1. journal[i] \in Rows /\ journal[i].timedOut = FALSE /\ journal[i].value = 0 /\ journal[i].kind = "wait"
      BY <1>1, <1>3 DEF Blank, Rows
    <2>. QED BY <1>2, <2>1 DEF Rows
  <1>. HIDE DEF e
  <1>6. /\ Len(journal') = Len(journal) /\ DOMAIN journal' = 1..Len(journal)
        /\ \A i \in 1..Len(journal) : IF i \in A THEN journal'[i] = e(i) ELSE journal'[i] = journal[i]
    <2>1. journal' \in [1..Len(journal) -> Rows]
      BY <1>1, <1>3, <1>4, <1>5
    <2>2. Len(journal') = Len(journal)
      BY <1>1, <2>1, MapFacts
    <2>. QED BY <1>4, <2>2
  <1>7. \A i \in A : Outcome(journal[i]) = Open /\ Outcome(e(i)) = o
    BY <1>5 DEF Outcome, Open
  <1>8. ASSUME NEW j \in 1..MaxCalls
        PROVE  (IF j \in DOMAIN journal' /\ journal'[j].kind = "wait" THEN Outcome(journal'[j]) ELSE Open)
               = (IF j \in A \cap (1..MaxCalls) THEN o ELSE waitOutcome[j])
    <2>1. CASE j \in A
      BY <1>3, <1>5, <1>6, <1>7, <2>1
    <2>2. CASE j \notin A
      BY <1>1, <1>6, <2>2 DEF waitOutcome
    <2>. QED BY <2>1, <2>2
  <1>9. waitOutcome' = [j \in 1..MaxCalls |-> IF j \in A \cap (1..MaxCalls) THEN o ELSE waitOutcome[j]]
    <2>1. waitOutcome' = [j \in 1..MaxCalls |->
             IF j \in DOMAIN journal' /\ journal'[j].kind = "wait" THEN Outcome(journal'[j]) ELSE Open]
      BY DEF waitOutcome, Outcome, Open
    <2>. QED BY <1>8, <2>1
  <1>10. waitTold' = waitTold
    BY <1>4 DEF waitTold, Outcome
  <1>11. o \in Outs /\ o # Open
    <2>1. o \in Outs
      BY <1>2 DEF Outs
    <2>. QED BY <2>1, OutsNotOpen
  <1>12. \A i \in A \cap (1..MaxCalls) : waitOutcome[i] = Open
    BY <1>1, <1>3, <1>7 DEF waitOutcome
  <1>13. Await!Settle(A \cap (1..MaxCalls), o)
    BY <1>9, <1>10, <1>11, <1>12 DEF Await!Settle
  <1>14. Await!Next
    <2>1. A \cap (1..MaxCalls) \in SUBSET (1..MaxCalls)
      OBVIOUS
    <2>. QED BY <1>11, <1>13, <2>1 DEF Await!Next, Outs
  <1>15. Decisive'
    <2>. SUFFICES ASSUME NEW j \in 1..Len(journal), journal'[j].kind = "wait", journal'[j].done
                  PROVE  Outcome(journal'[j]) \in Outs
      BY <1>6 DEF Decisive, Outcome, Outs
    <2>. QED BY <1>6, <1>7, <1>11 DEF Decisive
  <1>. QED BY <1>14, <1>15

\* A new entry, and what a sleep or RunOnce returns, are invisible.
LEMMA UnseenAppend ==
    ASSUME IInv, IInv', Decisive, NEW w \in Execs, ex[w].cursor <= Len(program),
           NEW at \in Nat, NEW done \in BOOLEAN,
           journal' = Append(journal, NewEntry(w, at, done)), Call(w).kind = "wait" => ~done,
           \/ returned' = returned
           \/ Call(w).kind # "wait" /\ \E t, v, c : Return(w, t, v, c)
    PROVE  [Await!Next]_Await!vars /\ Decisive'
  <1>. DEFINE e == NewEntry(w, at, done)
  <1>0. TypeOK /\ TypeOK'
    BY DEF IInv
  <1>1. TypeOK /\ TypeOK' /\ Len(journal) \in Nat
    <2>1. journal \in Seq(Rows)
      BY <1>0 DEF TypeOK
    <2>. QED BY <1>0, <2>1
  <1>2. e \in Rows
    BY <1>1, CallFacts
  <1>3. e.kind = Call(w).kind /\ e.done = done /\ e.timedOut = FALSE /\ e.value = 0
    BY DEF NewEntry
  <1>. HIDE DEF e
  <1>4. /\ LogStep /\ Len(journal') = Len(journal) + 1 /\ journal'[Len(journal) + 1] = e
        /\ \A i \in 1..Len(journal) : journal'[i] = journal[i]
    BY <1>1, <1>2, AppendLog DEF e
  <1>5. \A i \in 1..Len(journal') : i > Len(journal) => i = Len(journal) + 1
    BY <1>1, <1>4
  <1>6. returned \subseteq returned' /\ \A x \in returned' : x \in returned \/ x.kind # "wait"
    <2>1. CASE returned' = returned
      BY <2>1
    <2>2. CASE Call(w).kind # "wait" /\ \E t, v, c : Return(w, t, v, c)
      <3>1. PICK t, v, c : Return(w, t, v, c)
        BY <2>2
      <3>2. returned' = returned \cup {[idx |-> ex[w].cursor, kind |-> Call(w).kind, label |-> Call(w).label,
                                        timedOut |-> t, value |-> v]}
        BY <3>1 DEF Return
      <3>. QED BY <2>2, <3>2
    <2>. QED BY <2>1, <2>2
  <1>7. \A i \in 1..Len(journal') : i > Len(journal) /\ journal'[i].kind = "wait" =>
               ~journal'[i].done /\ journal'[i].timedOut = FALSE /\ journal'[i].value = 0
    BY <1>3, <1>4, <1>5
  <1>8. waitOutcome' = waitOutcome /\ waitTold' = waitTold /\ Decisive'
    BY <1>1, <1>4, <1>6, <1>7, Unseen
  <1>. QED BY <1>8 DEF Await!vars

\* A return that writes no wait entry and is not a wait's is invisible.
LEMMA UnseenReturn ==
    ASSUME IInv, IInv', Decisive, LogStep, NEW w \in Execs, Call(w).kind # "wait", Len(journal') = Len(journal),
           \A i \in 1..Len(journal) : journal[i].kind = "wait" => journal'[i] = journal[i],
           NEW t, NEW v, NEW c, Return(w, t, v, c)
    PROVE  [Await!Next]_Await!vars /\ Decisive'
  <1>0. TypeOK /\ TypeOK'
    BY DEF IInv
  <1>1. TypeOK /\ TypeOK' /\ Len(journal) \in Nat
    <2>1. journal \in Seq(Rows)
      BY <1>0 DEF TypeOK
    <2>. QED BY <1>0, <2>1
  <1>2. \A i \in 1..Len(journal') : ~(i > Len(journal))
    BY <1>1
  <1>3. returned \subseteq returned' /\ \A x \in returned' : x \in returned \/ x.kind # "wait"
    BY DEF Return
  <1>4. waitOutcome' = waitOutcome /\ waitTold' = waitTold /\ Decisive'
    BY <1>1, <1>2, <1>3, Unseen
  <1>. QED BY <1>4 DEF Await!vars

\* SleepDurable is invisible to AwaitOnce,
LEMMA SleepUnseen ==
    ASSUME IInv, IInv', Decisive, NEW w \in Execs, SleepDurable(w)
    PROVE  [Await!Next]_Await!vars /\ Decisive'
  <1>1. TypeOK /\ ex[w].cursor <= Len(program) /\ Call(w).kind = "sleep"
    BY DEF IInv, SleepDurable, AtCall
  <1>2. now \in Nat /\ now + Call(w).dur \in Nat
    BY <1>1, CallFacts DEF TypeOK
  <1>3. \/ UNCHANGED <<journal, returned>>
        \/ journal' = Append(journal, NewEntry(w, now + Call(w).dur, FALSE)) /\ returned' = returned
        \/ journal' = Append(journal, NewEntry(w, now, TRUE)) /\ \E t, v, c : Return(w, t, v, c)
        \/ journal' = journal /\ \E t, v, c : Return(w, t, v, c)
    BY DEF SleepDurable, SuspendWithJournal, SuspendStep, AppendJournal
  <1>4. CASE UNCHANGED <<journal, returned>>
    BY <1>4, UnseenStill
  <1>5. CASE journal' = Append(journal, NewEntry(w, now + Call(w).dur, FALSE)) /\ returned' = returned
    BY <1>1, <1>2, <1>5, UnseenAppend
  <1>6. CASE journal' = Append(journal, NewEntry(w, now, TRUE)) /\ \E t, v, c : Return(w, t, v, c)
    BY <1>1, <1>2, <1>6, UnseenAppend
  <1>7. CASE journal' = journal /\ \E t, v, c : Return(w, t, v, c)
    BY <1>1, <1>7, UnseenReturn, StillLog
  <1>. QED BY <1>3, <1>4, <1>5, <1>6, <1>7

\* and so is RunOnce,
LEMMA RunOnceUnseen ==
    ASSUME IInv, IInv', Decisive, NEW w \in Execs, RunOnce(w)
    PROVE  [Await!Next]_Await!vars /\ Decisive'
  <1>1. TypeOK /\ ex[w].cursor <= Len(program) /\ Call(w).kind = "once" /\ now \in Nat
    BY DEF IInv, RunOnce, AtCall, TypeOK
  <1>2. \/ UNCHANGED <<journal, returned>>
        \/ journal' = Append(journal, NewEntry(w, 0, FALSE)) /\ returned' = returned
        \/ journal' = journal /\ \E t, v, c : Return(w, t, v, c)
    BY DEF RunOnce, AppendJournal
  <1>3. CASE UNCHANGED <<journal, returned>>
    BY <1>3, UnseenStill
  <1>4. CASE journal' = Append(journal, NewEntry(w, 0, FALSE)) /\ returned' = returned
    BY <1>1, <1>4, UnseenAppend
  <1>5. CASE journal' = journal /\ \E t, v, c : Return(w, t, v, c)
    BY <1>1, <1>5, UnseenReturn, StillLog
  <1>. QED BY <1>2, <1>3, <1>4, <1>5

\* with its result.
LEMMA CompleteOnceUnseen ==
    ASSUME IInv, IInv', Decisive, NEW w \in Execs, CompleteJournalOnce(w)
    PROVE  [Await!Next]_Await!vars /\ Decisive'
  <1>. DEFINE i == ex[w].cursor
  <1>0. ex[w].pc = "memo" /\ ex[w].pc \in InTask
    BY DEF CompleteJournalOnce, InTask
  <1>1. TypeOK /\ Cached(w) /\ journal \in Seq(Rows)
    BY <1>0, TaskFacts
  <1>2. Replay(w) /\ Aligned(w) /\ Call(w).kind = "once"
    BY <1>0, <1>1 DEF Cached, InCall, Replay
  <1>3. i \in 1..Len(journal) /\ journal[i].kind = "once"
    BY <1>1, <1>2, EntryFacts DEF Copies, Aligned
  <1>4. LogStep
    BY CompleteOnceKeeps
  <1>5. /\ journal' = [journal EXCEPT ![i] = [journal[i] EXCEPT !.done = TRUE, !.value = ex[w].val]]
        /\ \E c : Return(w, FALSE, ex[w].val, c)
    BY DEF CompleteJournalOnce
  <1>6. /\ \A j \in 1..Len(journal) : j # i => journal'[j] = journal[j]
        /\ Len(journal') = Len(journal)
    BY <1>1, <1>3, <1>5
  <1>. QED BY <1>2, <1>3, <1>4, <1>5, <1>6, UnseenReturn

\* WaitFor tells a decided wait and opens a new one unseen.
LEMMA WaitForTells ==
    ASSUME IInv, IInv', Decisive, NEW w \in Execs, WaitFor(w)
    PROVE  [Await!Next]_Await!vars /\ Decisive'
  <1>0. ex[w].pc \in InTask /\ ex[w].cursor <= Len(program) /\ Call(w).kind = "wait"
    BY DEF WaitFor, AtCall, InTask
  <1>1. TypeOK /\ Cached(w) /\ Deadline(w) \in Nat
    BY <1>0, TaskFacts, CallFacts
  <1>2. \/ UNCHANGED <<journal, returned>>
        \/ journal' = Append(journal, NewEntry(w, Deadline(w), FALSE)) /\ returned' = returned
        \/ /\ Replay(w) /\ Aligned(w) /\ Entry(w).done /\ journal' = journal
           /\ Return(w, Entry(w).timedOut, Entry(w).value, ex[w].cache)
    BY DEF WaitFor, SuspendWithJournal, SuspendStep
  <1>3. CASE UNCHANGED <<journal, returned>>
    BY <1>3, UnseenStill
  <1>4. CASE journal' = Append(journal, NewEntry(w, Deadline(w), FALSE)) /\ returned' = returned
    BY <1>0, <1>1, <1>4, UnseenAppend
  <1>5. CASE /\ Replay(w) /\ Aligned(w) /\ Entry(w).done /\ journal' = journal
             /\ Return(w, Entry(w).timedOut, Entry(w).value, ex[w].cache)
    <2>1. ex[w].cursor \in 1..Len(journal) /\ Copies(Entry(w), journal[ex[w].cursor])
      BY <1>1, <1>5, EntryFacts
    <2>2. /\ journal[ex[w].cursor].kind = "wait" /\ journal[ex[w].cursor].done
          /\ Entry(w).timedOut = journal[ex[w].cursor].timedOut /\ Entry(w).value = journal[ex[w].cursor].value
      BY <1>0, <1>5, <2>1 DEF Copies, Aligned
    <2>. QED BY <1>0, <1>5, <2>1, <2>2, Tells
  <1>. QED BY <1>2, <1>3, <1>4, <1>5

\* The entry read again is told.
LEMMA GetEntryTells ==
    ASSUME IInv, Decisive, NEW w \in Execs, GetJournalEntry(w)
    PROVE  [Await!Next]_Await!vars /\ Decisive'
  <1>1. ex[w].pc = "reread" /\ journal' = journal
        /\ Return(w, journal[ex[w].cursor].timedOut, journal[ex[w].cursor].value, ex[w].cache)
    BY DEF GetJournalEntry
  <1>2. /\ ex[w].cursor <= Len(program) /\ ex[w].cursor \in 1..Len(journal) /\ Call(w).kind = "wait"
        /\ journal[ex[w].cursor].kind = "wait" /\ journal[ex[w].cursor].done
    BY <1>1, InWait
  <1>. QED BY <1>1, <1>2, Tells

\* Every step of the journal is one of AwaitOnce's or invisible to it.
LEMMA StepSimulates == IInv /\ IInv' /\ Decisive /\ [Next]_vars => [Await!Next]_Await!vars /\ Decisive'
  <1>. SUFFICES ASSUME IInv, IInv', Decisive, [Next]_vars PROVE [Await!Next]_Await!vars /\ Decisive'
    OBVIOUS
  <1>1. CASE UNCHANGED vars
    BY <1>1, UnseenStill DEF vars
  <1>2. ASSUME NEW w \in Execs,
               \/ claimQueueTx(w) \/ CallFails(w) \/ LoadJournal(w) \/ Misaligned(w) \/ RunFn(w)
               \/ TaskDone(w) \/ Suspended(w) \/ completeStepTx(w) \/ AttemptFails(w)
        PROVE  [Await!Next]_Await!vars /\ Decisive'
    <2>1. UNCHANGED <<journal, returned>>
      BY <1>2 DEF claimQueueTx, CallFails, LoadJournal, Misaligned, RunFn, TaskDone,
                  Suspended, completeStepTx, AttemptFails
    <2>. QED BY <2>1, UnseenStill
  <1>3. ASSUME NEW w \in Execs,
               \/ SleepDurable(w) \/ RunOnce(w) \/ CompleteJournalOnce(w) \/ WaitFor(w)
               \/ TimeoutWait(w) \/ GetJournalEntry(w)
        PROVE  [Await!Next]_Await!vars /\ Decisive'
    BY <1>3, SleepUnseen, RunOnceUnseen, CompleteOnceUnseen, WaitForTells, TimeoutSettles, GetEntryTells
  <1>4. ASSUME NEW event \in Events, DeliverEvent(event) PROVE [Await!Next]_Await!vars /\ Decisive'
    BY <1>4, DeliverSettles
  <1>5. CASE CancelRun \/ SiblingFails \/ RetryDeadLetter \/ Tick \/ ClockBack \/ Restart
    <2>1. UNCHANGED <<journal, returned>>
      BY <1>5 DEF CancelRun, SiblingFails, RetryDeadLetter, Tick, ClockBack, Restart
    <2>. QED BY <2>1, UnseenStill
  <1>. QED BY <1>1, <1>2, <1>3, <1>4, <1>5 DEF Next, ExecutorStep

\* A journal without entries is a task that awaits nothing yet.
LEMMA InitSimulates == Init => Await!Init /\ Decisive
  <1>. SUFFICES ASSUME Init PROVE Await!Init /\ Decisive
    OBVIOUS
  <1>1. DOMAIN journal = {} /\ Len(journal) = 0 /\ returned = {}
    BY DEF Init
  <1>2. waitOutcome = [i \in 1..MaxCalls |-> Open] /\ waitTold = {}
    BY <1>1 DEF waitOutcome, waitTold
  <1>. QED BY <1>1, <1>2 DEF Await!Init, Decisive

\* WaitFor implements AwaitOnce: an event against a timeout is decided once and every
\* replay is told the decision, across crashes, redeployments and revivals.
THEOREM WaitsAreDecidedOnce == Spec => WaitIsDecidedOnce
  BY InitSimulates, StepSimulates, JournalInvariant, PTL DEF Spec, WaitIsDecidedOnce, Await!Spec
=============================================================================
