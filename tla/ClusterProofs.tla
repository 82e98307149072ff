---------------------------- MODULE ClusterProofs ----------------------------
(***************************************************************************)
(* Proofs about Cluster, for every number of nodes, runs, steps, faults    *)
(* and client calls, every lease length and either kind of worker id.      *)
(*                                                                         *)
(* SingleUnlessLapsed is not inductive: that a claim finds no executor     *)
(* needs that a QUEUED step has none, that the reaper queues none needs    *)
(* that a lease which never lapsed is not expired, and that the sweep of a *)
(* peer spares the step needs the worker id on its row.                    *)
(***************************************************************************)
EXTENDS Cluster, TLAPS

\* A step whose lease never lapsed under its executor is RUNNING, or somebody
\* ended it behind the executor's back; it is neither claimable nor recorded.
HeldStatus ==
    \A e \in execs : e.step \notin lapsed =>
        stepStatus[e.step] \in {"RUNNING", "CANCELLED", "INTERRUPTED", "DELETED"}

\* While it is RUNNING its row carries a lease and the worker id of the
\* executor's process.
HeldRow ==
    \A e \in execs : e.step \notin lapsed /\ stepStatus[e.step] = "RUNNING" =>
        lease[e.step] >= 0 /\ owner[e.step] = WorkerID(e.node)

\* Goroutines end with their process.
ExecsAlive == \A e \in execs : node[e.node] # "down"

IInv == TypeOK /\ SingleUnlessLapsed /\ HeldStatus /\ HeldRow /\ ExecsAlive

-----------------------------------------------------------------------------
(* Types.                                                                  *)

StepValues == Active \cup Terminal \cup {"DELETED"}
RunValues  == {"QUEUED", "RUNNING", "DELETED"} \cup Terminal

\* The step tables that a completion computes are well typed.
LEMMA UnblockedType ==
    ASSUME NEW r, NEW steps \in [Steps -> StepValues]
    PROVE  Unblocked(steps, r) \in [Steps -> StepValues]
BY DEF Unblocked, StepValues, Active, Terminal

\* Settle writes a run status and a step table of the right types.
LEMMA SettleType ==
    ASSUME TypeOK, NEW r \in Runs, NEW st \in RunValues, NEW steps \in [Steps -> StepValues],
           Settle(r, st, steps)
    PROVE  runStatus' \in [Runs -> RunValues] /\ stepStatus' \in [Steps -> StepValues]
BY ClusterAssumption DEF Settle, DeleteRun, TypeOK, StepValues, RunValues

\* completeStepTx keeps the types of the run and step tables.
LEMMA CompleteType ==
    ASSUME TypeOK, NEW s \in Steps, CompleteStep(s)
    PROVE  runStatus' \in [Runs -> RunValues] /\ stepStatus' \in [Steps -> StepValues]
<1> DEFINE r    == RunOf[s]
           done == Unblocked([stepStatus EXCEPT ![s] = "SUCCEEDED"], r)
           out  == Outcome(done, r)
           st   == IF out = "RUNNING" THEN runStatus[r] ELSE out
<1>1. r \in Runs  BY ClusterAssumption
<1>2. [stepStatus EXCEPT ![s] = "SUCCEEDED"] \in [Steps -> StepValues]
  BY DEF TypeOK, StepValues, Terminal
<1>3. done \in [Steps -> StepValues]  BY <1>2, UnblockedType
<1>4. out \in {"RUNNING", "FAILED", "SUCCEEDED"}  BY DEF Outcome
<1>5. st \in RunValues  BY <1>1, <1>4 DEF TypeOK, RunValues, Terminal
<1>6. \/ UNCHANGED <<runStatus, stepStatus>>
      \/ Flip(s, {"QUEUED", "RUNNING"}, "CANCELLED") /\ UNCHANGED runStatus
      \/ Settle(r, st, done)
  BY DEF CompleteStep
<1>7. CASE Settle(r, st, done)
  <2> HIDE DEF r, done, out, st
  <2> QED  BY <1>7, <1>1, <1>3, <1>5, SettleType
<1>8. CASE UNCHANGED <<runStatus, stepStatus>>
  BY <1>8 DEF TypeOK, RunValues, StepValues
<1>9. CASE Flip(s, {"QUEUED", "RUNNING"}, "CANCELLED") /\ UNCHANGED runStatus
  BY <1>9 DEF Flip, TypeOK, RunValues, StepValues, Terminal
<1> QED  BY <1>6, <1>7, <1>8, <1>9

\* FinalFailStep keeps the types of the run and step tables.
LEMMA FailType ==
    ASSUME TypeOK, NEW s \in Steps, FinalFailStep(s)
    PROVE  runStatus' \in [Runs -> RunValues] /\ stepStatus' \in [Steps -> StepValues]
<1> DEFINE r     == RunOf[s]
           steps == [t \in Steps |-> IF t = s THEN "FAILED"
                                     ELSE IF t \in ActiveSiblings(s) THEN "CANCELLED" ELSE stepStatus[t]]
           st    == IF runStatus[r] \in Terminal THEN runStatus[r] ELSE "FAILED"
<1>1. r \in Runs  BY ClusterAssumption
<1>2. steps \in [Steps -> StepValues]  BY DEF TypeOK, StepValues, Terminal
<1>3. st \in RunValues  BY DEF RunValues, Terminal
<1>4. UNCHANGED <<runStatus, stepStatus>> \/ Settle(r, st, steps)  BY DEF FinalFailStep
<1>5. CASE Settle(r, st, steps)
  <2> HIDE DEF r, steps, st
  <2> QED  BY <1>5, <1>1, <1>2, <1>3, SettleType
<1>6. CASE UNCHANGED <<runStatus, stepStatus>>
  BY <1>6 DEF TypeOK, RunValues, StepValues
<1> QED  BY <1>4, <1>5, <1>6

\* A spent budget is a budget.
LEMMA SpendType ==
    ASSUME TypeOK, NEW op \in Ops, Spend(op)
    PROVE  budget' \in [Ops -> Nat]
BY DEF TypeOK, Spend

\* An executor that moves on, or ends, leaves a set of executors.
LEMMA GotoType ==
    ASSUME TypeOK, NEW e \in execs, NEW p \in {"body", "ok", "cancel", "retry", "fail"},
           Goto(e, p) \/ Drop(e)
    PROVE  execs' \subseteq Executor
<1>1. e \in Executor  BY DEF TypeOK
<1>2. [e EXCEPT !.pc = p] \in Executor  BY <1>1 DEF Executor
<1> QED  BY <1>2 DEF TypeOK, Goto, Drop

\* What InterruptAll computes is well typed.
LEMMA SweepType ==
    ASSUME TypeOK, NEW n \in Nodes, InterruptAll(n)
    PROVE  TypeOK'
<1>1. /\ stepStatus' \in [Steps -> StepValues]
      /\ runStatus' \in [Runs -> RunValues]
  BY DEF InterruptAll, TypeOK, StepValues, RunValues, Active, Terminal
<1>2. owner' \in [Steps -> (Nodes \X Nat) \cup {NoOwner}]
  BY DEF InterruptAll, TypeOK
<1>3. lease' \in [Steps -> NoLease..TTL]
  BY ClusterAssumption DEF InterruptAll, TypeOK, NoLease
<1>4. node' \in [Nodes -> {"up", "draining", "swept", "down"}]
  BY DEF InterruptAll, TypeOK
<1>5. UNCHANGED <<attempts, incarnation, execs, budget, lapsed>>
  BY DEF InterruptAll
<1> QED  BY <1>1, <1>2, <1>3, <1>4, <1>5 DEF TypeOK, StepValues, RunValues

\* Every step of every process keeps the types.
LEMMA TypeStep ==
    ASSUME TypeOK, [Next]_vars
    PROVE  TypeOK'
<1> USE ClusterAssumption
<1>1. CASE UNCHANGED vars
  BY <1>1 DEF TypeOK, vars, tables
<1>2. ASSUME NEW n \in Nodes, NEW s \in Steps, Claim(n, s)
      PROVE  TypeOK'
  <2> DEFINE e == [node |-> n, step |-> s, att |-> attempts[s] + 1, pc |-> "body"]
  <2>1. attempts[s] + 1 \in Nat  BY DEF TypeOK
  <2>2. e \in Executor  BY <2>1 DEF Executor
  <2>3. execs' = execs \cup {e}  BY <1>2 DEF Claim
  <2>4. execs' \subseteq Executor
    <3> HIDE DEF e
    <3> QED  BY <2>2, <2>3 DEF TypeOK
  <2>5. WorkerID(n) \in Nodes \X Nat  BY DEF WorkerID, TypeOK
  <2>6. owner' \in [Steps -> (Nodes \X Nat) \cup {NoOwner}]
    <3> HIDE DEF WorkerID
    <3> QED  BY <1>2, <2>5 DEF Claim, TypeOK
  <2>7. lease' \in [Steps -> NoLease..TTL]
    BY <1>2 DEF Claim, TypeOK, NoLease
  <2>8. /\ stepStatus' \in [Steps -> Active \cup Terminal \cup {"DELETED"}]
        /\ runStatus' \in [Runs -> {"QUEUED", "RUNNING", "DELETED"} \cup Terminal]
        /\ attempts' \in [Steps -> Nat]
    BY <1>2, <2>1 DEF Claim, TypeOK, Active
  <2> QED  BY <1>2, <2>4, <2>6, <2>7, <2>8 DEF Claim, TypeOK
<1>3. ASSUME NEW e \in execs, Execute(e)
      PROVE  TypeOK'
  <2>1. e \in Executor /\ e.step \in Steps /\ e.node \in Nodes  BY DEF TypeOK, Executor
  <2>2. execs' \subseteq Executor
    <3>1. Drop(e) \/ \E p \in {"body", "ok", "cancel", "retry", "fail"} : Goto(e, p)
      BY <1>3 DEF Execute, BodyOk, BodyErr, WriteOk, WriteCancel, WriteRetry, WriteFail
    <3>2. "ok" \in {"body", "ok", "cancel", "retry", "fail"}  OBVIOUS
    <3> QED  BY <3>1, <3>2, GotoType
  <2>3. CASE BodyOk(e) \/ BodyErr(e)
    BY <2>3, <2>2 DEF BodyOk, BodyErr, TypeOK, tables
  <2>4. CASE WriteOk(e)
    <3>1. runStatus' \in [Runs -> RunValues] /\ stepStatus' \in [Steps -> StepValues]
      BY <2>4, <2>1, CompleteType DEF WriteOk
    <3> QED  BY <2>4, <2>2, <3>1 DEF WriteOk, TypeOK, RunValues, StepValues
  <2>5. CASE WriteFail(e)
    <3>1. runStatus' \in [Runs -> RunValues] /\ stepStatus' \in [Steps -> StepValues]
      BY <2>5, <2>1, FailType DEF WriteFail
    <3> QED  BY <2>5, <2>2, <3>1 DEF WriteFail, TypeOK, RunValues, StepValues
  <2>6. CASE WriteCancel(e)
    BY <2>6, <2>1, <2>2 DEF WriteCancel, Flip, TypeOK, Terminal, Active
  <2>7. CASE WriteRetry(e)
    BY <2>7, <2>1, <2>2 DEF WriteRetry, Flip, TypeOK, Terminal, Active
  <2> QED  BY <1>3, <2>3, <2>4, <2>5, <2>6, <2>7 DEF Execute
<1>4. CASE Tick
  <2>1. lease' \in [Steps -> NoLease..TTL]  BY <1>4 DEF Tick, TypeOK, NoLease
  <2>2. lapsed' \subseteq Steps  BY <1>4 DEF Tick, TypeOK
  <2>3. budget' \in [Ops -> Nat]
    <3>1. "late" \in Ops  BY DEF Ops
    <3>2. Spend("late") \/ UNCHANGED budget  BY <1>4 DEF Tick
    <3> QED  BY <3>1, <3>2, SpendType DEF TypeOK
  <2> QED  BY <1>4, <2>1, <2>2, <2>3 DEF Tick, TypeOK
<1>5. ASSUME NEW n \in Nodes, Heartbeat(n)
      PROVE  TypeOK'
  <2>1. lease' \in [Steps -> NoLease..TTL]  BY <1>5 DEF Heartbeat, TypeOK, NoLease
  <2> QED  BY <1>5, <2>1 DEF Heartbeat, TypeOK
<1>6. ASSUME NEW n \in Nodes, Reap(n)
      PROVE  TypeOK'
  <2>1. lease' \in [Steps -> NoLease..TTL]  BY <1>6 DEF Reap, TypeOK, NoLease
  <2>2. owner' \in [Steps -> (Nodes \X Nat) \cup {NoOwner}]  BY <1>6 DEF Reap, TypeOK
  <2>3. stepStatus' \in [Steps -> Active \cup Terminal \cup {"DELETED"}]
    BY <1>6 DEF Reap, TypeOK, Active
  <2> QED  BY <1>6, <2>1, <2>2, <2>3 DEF Reap, TypeOK
<1>7. ASSUME NEW n \in Nodes, Close(n)
      PROVE  TypeOK'
  <2>1. "stop" \in Ops  BY DEF Ops
  <2>2. budget' \in [Ops -> Nat]  BY <1>7, <2>1, SpendType DEF Close
  <2> QED  BY <1>7, <2>2 DEF Close, TypeOK, tables
<1>8. ASSUME NEW n \in Nodes, Closed(n) \/ Crash(n)
      PROVE  TypeOK'
  <2>1. "stop" \in Ops  BY DEF Ops
  <2>2. budget' \in [Ops -> Nat]
    BY <1>8, <2>1, SpendType DEF Closed, Crash, TypeOK
  <2>3. Exit(n)  BY <1>8 DEF Closed, Crash
  <2> QED  BY <2>2, <2>3 DEF Exit, TypeOK, tables
<1>9. ASSUME NEW n \in Nodes, Restart(n)
      PROVE  TypeOK'
  <2>1. "restart" \in Ops  BY DEF Ops
  <2>2. budget' \in [Ops -> Nat]  BY <1>9, <2>1, SpendType DEF Restart
  <2> QED  BY <1>9, <2>2 DEF Restart, TypeOK, tables
<1>10. ASSUME NEW r \in Runs, CancelRun(r)
       PROVE  TypeOK'
  <2> DEFINE steps == [s \in Steps |-> IF RunOf[s] = r /\ stepStatus[s] \in {"QUEUED", "BLOCKED"}
                                       THEN "CANCELLED" ELSE stepStatus[s]]
  <2>1. steps \in [Steps -> StepValues]  BY DEF TypeOK, StepValues, Terminal
  <2>2. "CANCELLED" \in RunValues  BY DEF RunValues, Terminal
  <2>3. Settle(r, "CANCELLED", steps)  BY <1>10 DEF CancelRun
  <2>4. runStatus' \in [Runs -> RunValues] /\ stepStatus' \in [Steps -> StepValues]
    <3> HIDE DEF steps
    <3> QED  BY <2>1, <2>2, <2>3, SettleType
  <2>5. "cancel" \in Ops  BY DEF Ops
  <2>6. budget' \in [Ops -> Nat]  BY <1>10, <2>5, SpendType DEF CancelRun
  <2> QED  BY <1>10, <2>4, <2>6 DEF CancelRun, TypeOK, RunValues, StepValues
<1> QED  BY <1>1, <1>2, <1>3, <1>4, <1>5, <1>6, <1>7, <1>8, <1>9, <1>10, SweepType DEF Next
-----------------------------------------------------------------------------
(* The inductive invariant.                                                *)

\* A step that starts no executor keeps the invariant if the executors that
\* remain are told apart as before, each held step keeps its status or is ended,
\* and the row of one that is still RUNNING keeps a lease and the worker id.
LEMMA Keep ==
    ASSUME IInv, TypeOK', execs' \subseteq execs, lapsed \subseteq lapsed',
           \A e \in execs' : e.step \notin lapsed' =>
               \/ stepStatus'[e.step] = stepStatus[e.step]
               \/ stepStatus'[e.step] \in {"CANCELLED", "INTERRUPTED", "DELETED"},
           \A e \in execs' : e.step \notin lapsed' /\ stepStatus'[e.step] = "RUNNING" =>
               lease'[e.step] >= 0 /\ owner'[e.step] = WorkerID(e.node)',
           \A e \in execs' : node'[e.node] # "down"
    PROVE  IInv'
<1>1. SingleUnlessLapsed'  BY DEF IInv, SingleUnlessLapsed
<1>2. HeldStatus'  BY DEF IInv, HeldStatus
<1>3. HeldRow'  BY DEF HeldRow
<1>4. ExecsAlive'  BY DEF ExecsAlive
<1> QED  BY <1>1, <1>2, <1>3, <1>4 DEF IInv

\* The same for a step that leaves rows, leases and worker ids alone.
LEMMA KeepRows ==
    ASSUME IInv, TypeOK', execs' \subseteq execs, UNCHANGED <<lease, owner, node, incarnation, lapsed>>,
           \A e \in execs' : e.step \notin lapsed =>
               \/ stepStatus'[e.step] = stepStatus[e.step]
               \/ stepStatus'[e.step] \in {"CANCELLED", "INTERRUPTED", "DELETED"}
    PROVE  IInv'
<1>1. \A e \in execs' : e.step \notin lapsed' /\ stepStatus'[e.step] = "RUNNING" =>
          lease'[e.step] >= 0 /\ owner'[e.step] = WorkerID(e.node)'
  BY DEF IInv, HeldRow, WorkerID
<1>2. \A e \in execs' : node'[e.node] # "down"  BY DEF IInv, ExecsAlive
<1> QED  BY <1>1, <1>2, Keep

\* An executor moves on: its record changes and nothing else.
LEMMA KeepGoto ==
    ASSUME IInv, TypeOK', NEW e \in execs, NEW p, Goto(e, p),
           UNCHANGED <<stepStatus, lease, owner, node, incarnation, lapsed>>
    PROVE  IInv'
<1> DEFINE g == [e EXCEPT !.pc = p]
<1>1. e \in Executor  BY DEF IInv, TypeOK
<1>2. g.step = e.step /\ g.node = e.node  BY <1>1 DEF Executor
<1>3. execs' = (execs \ {e}) \cup {g}  BY DEF Goto
<1> HIDE DEF g
<1>4. \A f \in execs' : \E d \in execs : d.step = f.step /\ d.node = f.node  BY <1>2, <1>3
<1>5. SingleUnlessLapsed'  BY <1>2, <1>3 DEF IInv, SingleUnlessLapsed
<1>6. HeldStatus'  BY <1>4 DEF IInv, HeldStatus
<1>7. HeldRow'  BY <1>4 DEF IInv, HeldRow, WorkerID
<1>8. ExecsAlive'  BY <1>4 DEF IInv, ExecsAlive
<1> QED  BY <1>5, <1>6, <1>7, <1>8 DEF IInv

\* While e is dropped, nobody else holds its step under an unlapsed lease.
LEMMA DropAlone ==
    ASSUME IInv, NEW e \in execs, Drop(e)
    PROVE  execs' \subseteq execs /\ \A f \in execs' : f.step \notin lapsed => f.step # e.step
BY DEF IInv, SingleUnlessLapsed, Drop

\* The claim of a QUEUED step: nobody holds it, and its row is stamped.
LEMMA KeepClaim ==
    ASSUME IInv, TypeOK', NEW n \in Nodes, NEW s \in Steps, Claim(n, s)
    PROVE  IInv'
<1> DEFINE g == [node |-> n, step |-> s, att |-> attempts[s] + 1, pc |-> "body"]
<1>1. g.step = s /\ g.node = n  OBVIOUS
<1>2. execs' = execs \cup {g}  BY DEF Claim
<1>3. UNCHANGED <<node, incarnation, lapsed>>  BY DEF Claim
<1> HIDE DEF g
<1>4. \A f \in execs : f.step \notin lapsed => f.step # s
  BY DEF Claim, IInv, HeldStatus
<1>5. /\ stepStatus'[s] = "RUNNING" /\ lease'[s] >= 0 /\ owner'[s] = WorkerID(n)
      /\ \A t \in Steps \ {s} : /\ stepStatus'[t] = stepStatus[t]
                                /\ lease'[t] = lease[t] /\ owner'[t] = owner[t]
  BY ClusterAssumption DEF Claim, IInv, TypeOK
<1>6. \A f \in execs : f.step \in Steps  BY DEF IInv, TypeOK, Executor
<1>7. SingleUnlessLapsed'  BY <1>1, <1>2, <1>3, <1>4 DEF IInv, SingleUnlessLapsed
<1>8. HeldStatus'  BY <1>1, <1>2, <1>3, <1>4, <1>5, <1>6 DEF IInv, HeldStatus
<1>9. HeldRow'
  <2> SUFFICES ASSUME NEW f \in execs', f.step \notin lapsed', stepStatus'[f.step] = "RUNNING"
               PROVE  lease'[f.step] >= 0 /\ owner'[f.step] = WorkerID(f.node)'
    BY DEF HeldRow
  <2>1. WorkerID(f.node)' = WorkerID(f.node)  BY <1>3 DEF WorkerID
  <2>2. CASE f = g  BY <2>1, <2>2, <1>1, <1>5
  <2>3. CASE f \in execs
    <3>1. f.step \in Steps \ {s}  BY <2>3, <1>3, <1>4, <1>6
    <3>2. stepStatus[f.step] = "RUNNING"  BY <3>1, <1>5
    <3>3. lease[f.step] >= 0 /\ owner[f.step] = WorkerID(f.node)
      BY <2>3, <3>2, <1>3 DEF IInv, HeldRow
    <3> QED  BY <2>1, <3>1, <3>3, <1>5
  <2> QED  BY <2>2, <2>3, <1>2
<1>10. ExecsAlive'
  <2>1. node[n] = "up"  BY DEF Claim
  <2> QED  BY <2>1, <1>1, <1>2, <1>3 DEF IInv, ExecsAlive
<1> QED  BY <1>7, <1>8, <1>9, <1>10 DEF IInv
\* completeStepTx changes other steps only by unblocking or deleting them, and a
\* recorded success not at all, unless by deleting it.
LEMMA CompleteStatus ==
    ASSUME TypeOK, NEW s \in Steps, CompleteStep(s), NEW t \in Steps
    PROVE  /\ t # s => \/ stepStatus'[t] \in {stepStatus[t], "DELETED"}
                       \/ stepStatus[t] = "BLOCKED" /\ stepStatus'[t] = "QUEUED"
           /\ stepStatus[t] = "SUCCEEDED" => stepStatus'[t] \in {"SUCCEEDED", "DELETED"}
<1> DEFINE r    == RunOf[s]
           done == Unblocked([stepStatus EXCEPT ![s] = "SUCCEEDED"], r)
<1>1. /\ t # s => \/ done[t] = stepStatus[t]
                  \/ stepStatus[t] = "BLOCKED" /\ done[t] = "QUEUED"
      /\ stepStatus[t] = "SUCCEEDED" => done[t] = "SUCCEEDED"
  BY DEF Unblocked, TypeOK
<1>2. \/ UNCHANGED stepStatus
      \/ stepStatus[s] # "SUCCEEDED" /\ Flip(s, {"QUEUED", "RUNNING"}, "CANCELLED")
      \/ stepStatus' = done
      \/ stepStatus' = [x \in Steps |-> IF RunOf[x] = r THEN "DELETED" ELSE stepStatus[x]]
  <2> HIDE DEF done
  <2> QED  BY DEF CompleteStep, Settle, DeleteRun, done
<1> HIDE DEF done
<1> QED  BY <1>1, <1>2 DEF Flip, TypeOK

\* FinalFailStep fails its step and cancels active ones, or deletes the run.
LEMMA FailStatus ==
    ASSUME TypeOK, NEW s \in Steps, FinalFailStep(s), NEW t \in Steps, t # s
    PROVE  /\ stepStatus'[t] \in {stepStatus[t], "CANCELLED", "DELETED"}
           /\ stepStatus[t] = "SUCCEEDED" => stepStatus'[t] \in {"SUCCEEDED", "DELETED"}
<1> DEFINE r     == RunOf[s]
           steps == [x \in Steps |-> IF x = s THEN "FAILED"
                                     ELSE IF x \in ActiveSiblings(s) THEN "CANCELLED" ELSE stepStatus[x]]
<1>1. /\ steps[t] \in {stepStatus[t], "CANCELLED"}
      /\ stepStatus[t] = "SUCCEEDED" => steps[t] = "SUCCEEDED"
  BY DEF ActiveSiblings, StepsOf, Active
<1>2. \/ UNCHANGED stepStatus
      \/ stepStatus' = steps
      \/ stepStatus' = [x \in Steps |-> IF RunOf[x] = r THEN "DELETED" ELSE stepStatus[x]]
  BY DEF FinalFailStep, Settle, DeleteRun
<1> HIDE DEF steps
<1> QED  BY <1>1, <1>2

\* Everything an executor does keeps the invariant.
LEMMA KeepExecute ==
    ASSUME IInv, TypeOK', NEW e \in execs, Execute(e)
    PROVE  IInv'
<1>1. TypeOK /\ e.step \in Steps /\ \A f \in execs : f.step \in Steps
  BY DEF IInv, TypeOK, Executor
<1>2. CASE BodyOk(e)
  BY <1>2, KeepGoto DEF BodyOk, tables
<1>3. CASE BodyErr(e)
  <2>1. UNCHANGED <<stepStatus, lease, owner, node, incarnation, lapsed>>
    BY <1>3 DEF BodyErr, tables
  <2>2. Drop(e) \/ \E p : Goto(e, p)  BY <1>3 DEF BodyErr
  <2>3. CASE Drop(e)
    <3>1. execs' \subseteq execs  BY <2>3 DEF Drop
    <3> QED  BY <2>1, <3>1, KeepRows
  <2> QED  BY <2>1, <2>2, <2>3, KeepGoto
<1>4. CASE Drop(e) /\ UNCHANGED <<lease, owner, node, incarnation, lapsed>>
            /\ \A t \in Steps \ {e.step} :
                  \/ stepStatus'[t] \in {stepStatus[t], "CANCELLED", "DELETED"}
                  \/ stepStatus[t] = "BLOCKED"
  <2>1. execs' \subseteq execs /\ \A f \in execs' : f.step \notin lapsed => f.step # e.step
    BY <1>4, DropAlone
  <2>2. \A f \in execs' : f.step \notin lapsed => stepStatus[f.step] # "BLOCKED"
    BY <2>1 DEF IInv, HeldStatus
  <2> QED  BY <1>1, <1>4, <2>1, <2>2, KeepRows
<1>5. CASE WriteOk(e)
  BY <1>1, <1>4, <1>5, CompleteStatus DEF WriteOk
<1>6. CASE WriteFail(e)
  BY <1>1, <1>4, <1>6, FailStatus DEF WriteFail
<1>7. CASE WriteCancel(e) \/ WriteRetry(e)
  <2>1. \A t \in Steps \ {e.step} : stepStatus'[t] = stepStatus[t]
    BY <1>1, <1>7 DEF WriteCancel, WriteRetry, Flip, TypeOK
  <2> QED  BY <1>4, <1>7, <2>1 DEF WriteCancel, WriteRetry
<1> QED  BY <1>2, <1>3, <1>5, <1>6, <1>7 DEF Execute

\* The clock: a lease that ends under an executor makes its step lapsed.
LEMMA KeepTick ==
    ASSUME IInv, TypeOK', Tick
    PROVE  IInv'
<1>1. UNCHANGED <<stepStatus, owner, node, incarnation, execs>> /\ lapsed \subseteq lapsed'
  BY DEF Tick
<1>2. ASSUME NEW e \in execs', e.step \notin lapsed', stepStatus'[e.step] = "RUNNING"
      PROVE  lease'[e.step] >= 0 /\ owner'[e.step] = WorkerID(e.node)'
  <2>1. e \in execs /\ e.step \in Steps /\ e.step \notin lapsed /\ stepStatus[e.step] = "RUNNING"
    BY <1>1, <1>2 DEF IInv, TypeOK, Executor
  <2>2. lease[e.step] >= 0 /\ owner[e.step] = WorkerID(e.node) /\ lease[e.step] \in Int
    BY <2>1, ClusterAssumption DEF IInv, HeldRow, TypeOK, NoLease
  <2>3. lease[e.step] # 0  BY <1>2, <2>1 DEF Tick
  <2>4. lease'[e.step] = lease[e.step] - 1  BY <2>1, <2>2 DEF Tick
  <2> QED  BY <1>1, <2>2, <2>3, <2>4 DEF WorkerID
<1>3. \A e \in execs' : node'[e.node] # "down"  BY <1>1 DEF IInv, ExecsAlive
<1> QED  BY <1>1, <1>2, <1>3, Keep

\* A heartbeat renews leases, and the reaper finds none of a held step.
LEMMA KeepLeases ==
    ASSUME IInv, TypeOK', NEW n \in Nodes, Heartbeat(n) \/ Reap(n)
    PROVE  IInv'
<1>1. UNCHANGED <<node, incarnation, execs, lapsed>>  BY DEF Heartbeat, Reap
<1>2. ASSUME NEW e \in execs, e.step \notin lapsed
      PROVE  /\ stepStatus'[e.step] = stepStatus[e.step]
             /\ stepStatus[e.step] = "RUNNING" => lease'[e.step] >= 0 /\ owner'[e.step] = WorkerID(e.node)
  <2>1. e.step \in Steps  BY DEF IInv, TypeOK, Executor
  <2>2. stepStatus[e.step] = "RUNNING" => lease[e.step] >= 0 /\ owner[e.step] = WorkerID(e.node)
    BY <1>2 DEF IInv, HeldRow
  <2>3. CASE Heartbeat(n)
    BY <2>1, <2>2, <2>3, ClusterAssumption DEF Heartbeat
  <2>4. CASE Reap(n)
    <3>1. ~Expirable(e.step)  BY <2>2 DEF Expirable, Expired
    <3> QED  BY <2>1, <2>2, <2>4, <3>1 DEF Reap
  <2> QED  BY <2>3, <2>4
<1>3. \A e \in execs' : e.step \notin lapsed' /\ stepStatus'[e.step] = "RUNNING" =>
          lease'[e.step] >= 0 /\ owner'[e.step] = WorkerID(e.node)'
  BY <1>1, <1>2 DEF WorkerID
<1>4. \A e \in execs' : node'[e.node] # "down"  BY <1>1 DEF IInv, ExecsAlive
<1> QED  BY <1>1, <1>2, <1>3, <1>4, Keep

\* The sweep interrupts or deletes; the rows it leaves RUNNING it leaves alone.
LEMMA KeepSweep ==
    ASSUME IInv, TypeOK', NEW n \in Nodes, InterruptAll(n)
    PROVE  IInv'
<1>1. UNCHANGED <<incarnation, execs, lapsed>>  BY DEF InterruptAll
<1>2. \A s \in Steps : /\ stepStatus'[s] \in {stepStatus[s], "INTERRUPTED", "DELETED"}
                       /\ stepStatus'[s] = "RUNNING" => /\ s \notin RunningOf(n)
                                                        /\ lease'[s] = lease[s] /\ owner'[s] = owner[s]
  BY DEF InterruptAll, RunningOf
<1>3. \A e \in execs : e.step \in Steps  BY DEF IInv, TypeOK, Executor
<1>4. \A e \in execs' : e.step \notin lapsed' /\ stepStatus'[e.step] = "RUNNING" =>
          lease'[e.step] >= 0 /\ owner'[e.step] = WorkerID(e.node)'
  BY <1>1, <1>2, <1>3 DEF IInv, HeldRow, WorkerID
<1>5. \A e \in execs' : node'[e.node] # "down"
  BY <1>1 DEF InterruptAll, IInv, ExecsAlive, TypeOK, Executor
<1> QED  BY <1>1, <1>2, <1>3, <1>4, <1>5, Keep

\* A process ends with its goroutines, and only an ended one is opened again,
\* so no executor's worker id changes under it.
LEMMA KeepNode ==
    ASSUME IInv, TypeOK', NEW n \in Nodes, Close(n) \/ Closed(n) \/ Crash(n) \/ Restart(n)
    PROVE  IInv'
<1>1. execs' \subseteq execs /\ UNCHANGED <<stepStatus, lease, owner, lapsed>>
  BY DEF Close, Closed, Crash, Restart, Exit, tables
<1>2. \A e \in execs : e.node \in Nodes /\ node[e.node] # "down"
  BY DEF IInv, ExecsAlive, TypeOK, Executor
<1>3. \A e \in execs' : node'[e.node] # "down" /\ incarnation'[e.node] = incarnation[e.node]
  BY <1>1, <1>2 DEF Close, Closed, Crash, Restart, Exit, IInv, TypeOK
<1>4. \A e \in execs' : e.step \notin lapsed' /\ stepStatus'[e.step] = "RUNNING" =>
          lease'[e.step] >= 0 /\ owner'[e.step] = WorkerID(e.node)'
  BY <1>1, <1>3 DEF IInv, HeldRow, WorkerID
<1> QED  BY <1>1, <1>3, <1>4, Keep

\* CancelRun cancels what is not yet executed, or deletes the run.
LEMMA CancelStatus ==
    ASSUME NEW r \in Runs, CancelRun(r), NEW s \in Steps
    PROVE  /\ stepStatus'[s] \in {stepStatus[s], "CANCELLED", "DELETED"}
           /\ stepStatus[s] = "SUCCEEDED" => stepStatus'[s] \in {"SUCCEEDED", "DELETED"}
BY DEF CancelRun, Settle, DeleteRun

LEMMA KeepCancel ==
    ASSUME IInv, TypeOK', NEW r \in Runs, CancelRun(r)
    PROVE  IInv'
<1>1. execs' \subseteq execs /\ UNCHANGED <<lease, owner, node, incarnation, lapsed>>
  BY DEF CancelRun
<1>2. \A e \in execs : e.step \in Steps  BY DEF IInv, TypeOK, Executor
<1> QED  BY <1>1, <1>2, CancelStatus, KeepRows

\* The invariant is inductive.
LEMMA Inductive ==
    ASSUME IInv, [Next]_vars
    PROVE  IInv'
<1>1. TypeOK'
  <2>1. TypeOK  BY DEF IInv
  <2> QED  BY <2>1, TypeStep
<1>2. CASE UNCHANGED vars
  <2>1. execs' \subseteq execs /\ UNCHANGED <<stepStatus, lease, owner, node, incarnation, lapsed>>
    BY <1>2 DEF vars, tables
  <2> QED  BY <1>1, <2>1, KeepRows
<1>3. CASE Next
  BY <1>1, <1>3, KeepClaim, KeepExecute, KeepTick, KeepLeases, KeepSweep, KeepNode, KeepCancel DEF Next
<1> QED  BY <1>2, <1>3

LEMMA Initial == Init => IInv
BY ClusterAssumption DEF Init, IInv, TypeOK, SingleUnlessLapsed, HeldStatus, HeldRow, ExecsAlive,
                         NoLease, Active, Executor

-----------------------------------------------------------------------------
(* The theorems.                                                           *)

\* The tables, the nodes and the executors keep their types.
THEOREM ClusterTypeCorrect == Spec => []TypeOK
<1>1. Init => TypeOK  BY Initial DEF IInv
<1>2. TypeOK /\ [Next]_vars => TypeOK'  BY TypeStep
<1> QED  BY <1>1, <1>2, PTL DEF Spec

\* ReapExpired, claimQueueTx: no two goroutines of the fleet execute a step
\* whose lease has not run out under its executor.
THEOREM OneExecutorPerLease == Spec => []SingleUnlessLapsed
<1>1. IInv /\ [Next]_vars => IInv'  BY Inductive
<1>2. IInv => SingleUnlessLapsed  BY DEF IInv
<1> QED  BY Initial, <1>1, <1>2, PTL DEF Spec

\* Where no run is ephemeral, InterruptAll of a closing worker changes no step
\* that another worker executes under a lease that never ran out.
THEOREM SweepSparesPeers == (Ephemeral = {}) => (Spec => PeerWorkLeftAlone)
<1> SUFFICES ASSUME Ephemeral = {} PROVE Spec => PeerWorkLeftAlone  OBVIOUS
<1> DEFINE Spares == \A n \in Nodes : node[n] = "draining" /\ node'[n] = "swept" =>
                        \A e \in execs : e.node # n /\ e.step \notin lapsed
                                         => stepStatus'[e.step] = stepStatus[e.step]
<1>1. IInv /\ [Next]_vars => IInv'  BY Inductive
<1>2. ASSUME IInv, [Next]_vars
      PROVE  [Spares]_vars
  <2> SUFFICES ASSUME NEW n \in Nodes, node[n] = "draining", node'[n] = "swept",
                      NEW e \in execs, e.node # n, e.step \notin lapsed
               PROVE  stepStatus'[e.step] = stepStatus[e.step]
    OBVIOUS
  <2>1. e.step \in Steps /\ node \in [Nodes -> {"up", "draining", "swept", "down"}]
    BY <1>2 DEF IInv, TypeOK, Executor
  <2>2. InterruptAll(n)
    <3>1. node' # node  OBVIOUS
    <3>3. ASSUME NEW f \in execs, Execute(f)
          PROVE  FALSE
      BY <3>1, <3>3 DEF Execute, BodyOk, BodyErr, WriteOk, WriteCancel, WriteRetry, WriteFail
    <3>4. ASSUME NEW m \in Nodes, Close(m) \/ Closed(m) \/ Crash(m) \/ Restart(m)
          PROVE  FALSE
      BY <2>1, <3>4 DEF Close, Closed, Crash, Exit, Restart
    <3>5. ASSUME NEW m \in Nodes, InterruptAll(m)
          PROVE  m = n
      BY <2>1, <3>5 DEF InterruptAll
    <3>6. UNCHANGED node \/ (\E f \in execs : Execute(f)) \/
          \E m \in Nodes : InterruptAll(m) \/ Close(m) \/ Closed(m) \/ Crash(m) \/ Restart(m)
      BY <1>2 DEF Next, vars, Claim, Tick, Heartbeat, Reap, CancelRun
    <3> QED  BY <3>1, <3>3, <3>4, <3>5, <3>6
  <2>3. WorkerID(e.node) # WorkerID(n)  BY DEF WorkerID
  <2>4. e.step \notin RunningOf(n)
    BY <1>2, <2>3 DEF RunningOf, IInv, HeldRow
  <2> QED  BY <2>1, <2>2, <2>4 DEF InterruptAll
<1> QED  BY Initial, <1>1, <1>2, PTL DEF Spec, PeerWorkLeftAlone

\* A recorded success whose lease never ran out under its executor is final: no
\* late write of completeStepTx, FinalFailStep, StepCancelled or RetryStep, no
\* reaper, sweep or Cancel changes it.
THEOREM SuccessesAreKept == Spec => SuccessKept
<1> DEFINE Kept == \A s \in Steps \ lapsed : stepStatus[s] = "SUCCEEDED"
                                            => stepStatus'[s] \in {"SUCCEEDED", "DELETED"}
<1>1. IInv /\ [Next]_vars => IInv'  BY Inductive
<1>2. ASSUME IInv, [Next]_vars
      PROVE  [Kept]_vars
  <2> SUFFICES ASSUME NEW s \in Steps, s \notin lapsed, stepStatus[s] = "SUCCEEDED", Next
               PROVE  stepStatus'[s] \in {"SUCCEEDED", "DELETED"}
    BY <1>2
  <2>1. TypeOK /\ \A e \in execs : e.step \in Steps /\ e.step # s
    BY <1>2 DEF IInv, TypeOK, Executor, HeldStatus
  <2>2. ASSUME NEW n \in Nodes, NEW t \in Steps, Claim(n, t)
        PROVE  stepStatus'[s] = "SUCCEEDED"
    BY <2>1, <2>2 DEF Claim, TypeOK
  <2>3. ASSUME NEW e \in execs, Execute(e)
        PROVE  stepStatus'[s] \in {"SUCCEEDED", "DELETED"}
    <3>1. e.step \in Steps /\ e.step # s  BY <2>1
    <3>2. CASE WriteOk(e)  BY <2>1, <3>1, <3>2, CompleteStatus DEF WriteOk
    <3>3. CASE WriteFail(e)  BY <2>1, <3>1, <3>3, FailStatus DEF WriteFail
    <3>4. CASE WriteCancel(e) \/ WriteRetry(e)
      BY <2>1, <3>1, <3>4 DEF WriteCancel, WriteRetry, Flip, TypeOK
    <3>5. CASE BodyOk(e) \/ BodyErr(e)  BY <3>5 DEF BodyOk, BodyErr, tables
    <3> QED  BY <2>3, <3>2, <3>3, <3>4, <3>5 DEF Execute
  <2>4. ASSUME NEW n \in Nodes, Reap(n)
        PROVE  stepStatus'[s] = "SUCCEEDED"
    BY <2>4 DEF Reap, Expirable
  <2>5. ASSUME NEW n \in Nodes, InterruptAll(n)
        PROVE  stepStatus'[s] \in {"SUCCEEDED", "DELETED"}
    BY <2>5 DEF InterruptAll, RunningOf
  <2>6. ASSUME NEW n \in Nodes, Heartbeat(n) \/ Close(n) \/ Closed(n) \/ Crash(n) \/ Restart(n)
        PROVE  stepStatus'[s] = "SUCCEEDED"
    BY <2>6 DEF Heartbeat, Close, Closed, Crash, Exit, Restart, tables
  <2>7. ASSUME Tick
        PROVE  stepStatus'[s] = "SUCCEEDED"
    BY <2>7 DEF Tick
  <2> QED  BY <2>2, <2>3, <2>4, <2>5, <2>6, <2>7, CancelStatus DEF Next
<1> QED  BY Initial, <1>1, <1>2, PTL DEF Spec, SuccessKept
=============================================================================
