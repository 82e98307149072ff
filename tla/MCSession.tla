----------------------------- MODULE MCSession -----------------------------
(* Three sessions on one file: two in one process, under two spellings of *)
(* the path or one, and one in another process.                           *)
EXTENDS Session

ThreeSessions == {"a", "b", "c"}
TwoProcs  == {"p", "q"}
InProcs   == [s \in Sessions |-> IF s = "c" THEN "q" ELSE "p"]
Spellings == [s \in Sessions |-> IF s = "b" THEN "alias" ELSE "path"]
Lines     == [s \in Sessions |-> IF s = "a" THEN 2 ELSE 0]
OldBuild  == [s \in Sessions |-> IF s = "c" THEN 1 ELSE 2]
SameBuild == [s \in Sessions |-> 2]
Faults    == [op \in Ops |-> IF op = "error" THEN 2 ELSE 1]
NoFault   == [op \in Ops |-> 0]
=============================================================================
