------------------------------ MODULE MCCluster ------------------------------
(* A two-step workflow on two nodes. *)
EXTENDS Cluster

CONSTANTS a, b, r1

InOneRun == [s \in {a, b} |-> r1]
Chain    == [s \in {a, b} |-> IF s = b THEN {a} ELSE {}]
Parallel == [s \in {a, b} |-> {}]
Faults   == [stop |-> 1, restart |-> 1, cancel |-> 1, late |-> 1]
OneStop  == [stop |-> 1, restart |-> 1, cancel |-> 0, late |-> 0]
=============================================================================
