----------------------------- MODULE MCDispatch -----------------------------
(* One run of two steps: b waits for a. *)
EXTENDS Dispatch

CONSTANTS a, b, r

OneRun == [s \in Steps |-> r]
Chain  == [s \in Steps |-> IF s = b THEN {a} ELSE {}]
=============================================================================
