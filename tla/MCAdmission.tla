----------------------------- MODULE MCAdmission -----------------------------
(* Three requests, alone and in one batch, under every policy. *)
EXTENDS Admission

CONSTANTS x, y, z

Plain == [queue |-> "main", priority |-> 0, labels |-> {}, key |-> None, limit |-> 0,
          strategy |-> "hold", extra |-> {}, seqKey |-> None, unique |-> None,
          conflict |-> "reuse", ephemeral |-> FALSE, max |-> 1]
Same(q)  == [r \in {x, y, z} |-> q]

\* Keys of limit 1 with two attempts; the same with a run no worker here may
\* take; two named keys of different limits.
KeyScenarios ==
    {Same([Plain EXCEPT !.key = "k", !.limit = 1, !.max = 2]),
     [Same([Plain EXCEPT !.key = "k", !.limit = 1]) EXCEPT ![y].labels = {None}],
     [Same([Plain EXCEPT !.extra = {<<"n", 2>>}]) EXCEPT ![y].extra = {<<"n", 2>>, <<"m", 1>>}, ![z].extra = {<<"m", 1>>}]}

\* A sequence whose youngest run has the highest priority, and one that
\* shares a key with its own successor.
SequenceScenarios ==
    {[Same([Plain EXCEPT !.seqKey = "s"]) EXCEPT ![z].priority = 1],
     [Same([Plain EXCEPT !.seqKey = "s", !.key = "k", !.limit = 1]) EXCEPT ![y].seqKey = None]}

StrategyScenarios ==
    {Same([Plain EXCEPT !.key = "k", !.limit = n, !.strategy = s]) :
        n \in {1, 2}, s \in Strategies \ {"hold"}}

UniqueScenarios ==
    {[Same([Plain EXCEPT !.unique = "u", !.conflict = c]) EXCEPT ![x].ephemeral = e] :
        c \in {"reuse", "error", "replace"}, e \in BOOLEAN}

\* A window that two of the three starts fill.
Rated(n, S) == {[req |-> f, rate |-> [q \in {"main"} |-> n]] : f \in S}

All == Rated(0, KeyScenarios \cup SequenceScenarios \cup StrategyScenarios \cup UniqueScenarios)
       \cup Rated(2, {Same(Plain)})

Policies == Rated(0, StrategyScenarios \cup UniqueScenarios)

ReplaceKeyed == Rated(0, {Same([Plain EXCEPT !.key = "k", !.limit = 1, !.unique = "u", !.conflict = "replace"])})

\* Outside what the proofs assume: a strategy that deletes the rows of running
\* ephemeral runs, starts that the window forgets, and a strategy whose limit is
\* left to its default.
StrategyEphemeral ==
    Rated(0, {Same([Plain EXCEPT !.key = "k", !.limit = 1, !.strategy = "cancelInProgress", !.ephemeral = TRUE])})
RateRetried   == Rated(2, {Same([Plain EXCEPT !.max = 2])})
RateEphemeral == Rated(2, {Same([Plain EXCEPT !.ephemeral = TRUE])})
DefaultLimit  == Rated(0, {Same([Plain EXCEPT !.key = "k", !.strategy = "cancelNewest"])})

Calls    == {<<x>>, <<y>>, <<z>>, <<y, z>>}
QSlots   == [q \in {"main"} |-> 2]
=============================================================================
