---------------------------- MODULE MCTriggers ----------------------------
(* Two engines; what the operator does and what fails, in four scenarios. *)
EXTENDS Triggers

None == [op \in Ops |-> 0]

\* The engines register the cron, one of them again, and one dies.
Fleet    == [None EXCEPT !["start"] = 2, !["cron"] = 3, !["crash"] = 1]
\* One registers it, the other finds it; one restarts.
Restart  == [None EXCEPT !["start"] = 3, !["cron"] = 1, !["register"] = 2, !["crash"] = 1]
Removal  == [None EXCEPT !["start"] = 2, !["cron"] = 2, !["register"] = 1, !["removeCron"] = 1, !["error"] = 1]
Bindings == [None EXCEPT !["start"] = 3, !["register"] = 1, !["on"] = 2, !["off"] = 1, !["emit"] = 1, !["crash"] = 1]

Scenarios == {Fleet, Restart, Removal, Bindings}

\* One engine registers the cron twice.
Reregister == {[None EXCEPT !["start"] = 1, !["cron"] = 2]}
=============================================================================
