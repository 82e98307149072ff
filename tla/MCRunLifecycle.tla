--------------------------- MODULE MCRunLifecycle ---------------------------
(* Small instances of RunLifecycle for TLC: which steps there are, how they *)
(* depend on one another, and how often each client call and fault happens. *)
EXTENDS RunLifecycle, TLC

OneRun   == {"r"}
OneStep  == {"a"}
TwoSteps == {"a", "b"}
ThreeSteps == {"a", "b", "c"}
InOneRun == [s \in Steps |-> "r"]
TwoRuns  == {"r", "q"}
InTwoRuns == [s \in Steps |-> IF s = "b" THEN "q" ELSE "r"]
Fork  == [s \in Steps |-> {}]                               \* a and b are siblings
Chain == [s \in Steps |-> IF s = "b" THEN {"a"} ELSE {}]    \* b depends on a
Join  == [s \in Steps |-> IF s = "c" THEN {"a", "b"} ELSE {}] \* c waits for both

\* A bound for each call and fault that n names, none for the others.
Calls(n) == [op \in Ops |-> IF op \in DOMAIN n THEN n[op] ELSE 0]

ControlCalls  == Calls([cancel |-> 1, pause |-> 1, resume |-> 1, suspend |-> 1])
CrashCalls    == Calls([restart |-> 2, suspend |-> 1, emit |-> 1, cancel |-> 1])
CloseCalls    == Calls([close |-> 1, timeout |-> 1, cancel |-> 1, restart |-> 1])
FaultCalls    == Calls([storeError |-> 1, restart |-> 1, purge |-> 1, retryDead |-> 1, dismiss |-> 1, cancel |-> 1, veto |-> 1])
NoCalls       == Calls(<<>>)
OneCancel     == Calls([cancel |-> 1])
SweepCalls    == Calls([close |-> 1, timeout |-> 1, suspend |-> 1, restart |-> 1])
PauseAndBoot  == Calls([restart |-> 1, pause |-> 1])

SlotSymmetry == Permutations(Slots)
=============================================================================
