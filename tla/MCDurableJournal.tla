-------------------------- MODULE MCDurableJournal --------------------------
(* Small instances of DurableJournal: tasks of one or two durable calls.    *)
EXTENDS DurableJournal, TLC

Sleep(d)    == [kind |-> "sleep", label |-> "", dur |-> d]
Once(k)     == [kind |-> "once", label |-> k, dur |-> 0]
Wait(e, d)  == [kind |-> "wait", label |-> e, dur |-> d]

\* A charge, then a wait with a deadline; a nap, then a wait without one; and a
\* redeployment of the second that no longer naps and waits for another event.
Versions == {<<Once("charge"), Wait("paid", 1)>>, <<Sleep(1), Wait("paid", 0)>>, <<Sleep(0), Wait("refunded", 1)>>}
OneWait  == {<<Wait("paid", 0)>>}
EventNames == {"paid", "refunded"}

\* A bound for each call and fault that n names, none for the others.
Bounds(n) == [op \in Ops |-> IF op \in DOMAIN n THEN n[op] ELSE 0]

JournalCalls == Bounds([restart |-> 1, emit |-> 2, cancel |-> 1, sibling |-> 1, retryDead |-> 1, storeError |-> 1])
AwaitCalls   == Bounds([restart |-> 1, emit |-> 2, cancel |-> 1, fail |-> 1, storeError |-> 1, skew |-> 1])
OneEmit      == Bounds([emit |-> 1])
ReviveCalls  == Bounds([emit |-> 1, sibling |-> 1, retryDead |-> 1])

SlotSymmetry == Permutations(Execs)
=============================================================================
