---------------------------- MODULE MCWorkflows ----------------------------
(* Three steps: flat, with up to two dependencies each, repeated, unknown   *)
(* or on the step itself, or with a name that is repeated or empty; and     *)
(* grouped, in up to three groups in any order, which may be named like     *)
(* steps.                                                                   *)
EXTENDS Workflows

StepNames == <<"a", "b", "c">>
GroupNames == <<"g", "h", "k">>

DepLists  == {<<"x">>} \cup BoundedSeq({"a", "b", "c"}, 2)
FlatCases == {StepNames, <<"a", "b", "a">>, <<"a", "b", "">>} \X [1..3 -> DepLists]
FlatInput(n, deps) ==
    [flat   |-> TRUE,
     groups |-> <<[name |-> "", after |-> <<>>, steps |-> [i \in 1..3 |-> [name |-> n[i], deps |-> deps[i]]]]>>]

\* Which group a step is in, its dependency, and what each group waits for; the
\* groups have names of their own, or two of them are named like steps.
AtMostOne(S) == {<<>>} \cup {<<x>> : x \in S}
Member(in, deps, g) ==
    SelectSeq([i \in 1..3 |-> [name |-> StepNames[i], deps |-> deps[i]]],
              LAMBDA s : in[CHOOSE i \in 1..3 : StepNames[i] = s.name] = g)
OwnCases    == {GroupNames} \X (AtMostOne({"b"}) \X AtMostOne({"a"}) \X AtMostOne({"a", "b"}))
SharedCases == {<<"g", "a", "b">>} \X ({<<>>} \X AtMostOne({"a"}) \X {<<>>})
GroupCases  == (OwnCases \cup SharedCases) \X [1..3 -> 1..3] \X [1..3 -> AtMostOne(1..3)]
GroupInput(names, deps, in, after) ==
    [flat   |-> FALSE,
     groups |-> [g \in 1..3 |-> [name |-> names[g], after |-> [i \in DOMAIN after[g] |-> names[after[g][i]]],
                                 steps |-> Member(in, deps, g)]]]

MixedInputs == {IF c[1] = "flat" THEN FlatInput(c[2][1], c[2][2]) ELSE GroupInput(c[2][1][1], c[2][1][2], c[2][2], c[2][3]) :
                   c \in ({"flat"} \X FlatCases) \cup ({"grouped"} \X GroupCases)}
=============================================================================
