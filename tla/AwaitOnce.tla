----------------------------- MODULE AwaitOnce ------------------------------
(***************************************************************************)
(* What WaitFor promises: each awaited position of a durable task is       *)
(* settled once, by an event's payload or by its timeout, and every        *)
(* invocation of the task that gets past the call is told that outcome.    *)
(***************************************************************************)
CONSTANTS Positions,  \* call numbers of the task
          Outcomes,   \* a payload or the timeout
          Open        \* not settled yet

VARIABLES outcome,    \* what each position was settled to
          told        \* the outcomes that invocations have been told

vars == <<outcome, told>>

Init == outcome = [i \in Positions |-> Open] /\ told = {}

\* One event settles every open position waiting for it; a timeout settles one
\* and may tell its caller at once.
Settle(S, o) ==
    /\ o # Open /\ \A i \in S : outcome[i] = Open
    /\ outcome' = [i \in Positions |-> IF i \in S THEN o ELSE outcome[i]]
    /\ told' = told \/ \E i \in S : told' = told \cup {<<i, o>>}

Tell(i) ==
    /\ outcome[i] # Open
    /\ told' = told \cup {<<i, outcome[i]>>}
    /\ UNCHANGED outcome

Next == \/ \E S \in SUBSET Positions, o \in Outcomes : Settle(S, o)
        \/ \E i \in Positions : Tell(i)

Spec == Init /\ [][Next]_vars
=============================================================================
