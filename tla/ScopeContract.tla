---------------------------- MODULE ScopeContract ----------------------------
(***************************************************************************)
(* What the transaction engine promises about one scope, whatever happens  *)
(* inside it: a transaction is untouched, open, whole or undone, and only  *)
(* an open one writes.  It replaces a target only while the target holds   *)
(* what it captured, and reverts one only while the target holds what it   *)
(* captured or what it wanted.  It is called whole when no target is left  *)
(* at the captured version, and undone when none holds its own version.    *)
(* Locks, journals, backups and processes do not appear here.              *)
(***************************************************************************)
CONSTANTS
  Targets,        \* target paths
  State,          \* what a target may hold, the absent file included
  Keep,           \* a transaction has no operation on the target
  Transactions,
  Edits           \* stamps of user edits, and of the initial files

VARIABLES files, phase, plan, before

vars == <<files, phase, plan, before>>

File == [data : State, by : Transactions \cup Edits]

InPlan(x) == {t \in Targets : plan[x][t] # Keep}

Enter(x, s) == phase' = [phase EXCEPT ![x] = s]

Init ==
  /\ files \in [Targets -> File]
  /\ phase = [x \in Transactions |-> "untouched"]
  /\ plan \in [Transactions -> [Targets -> State \cup {Keep}]]
  /\ before \in [Transactions -> [Targets -> File]]

\* A plan is chosen, or the files are captured.
Prepare(x) ==
  /\ phase[x] = "untouched"
  /\ \E d \in [Targets -> State \cup {Keep}] : plan' = [plan EXCEPT ![x] = d]
  /\ before' \in {before, [before EXCEPT ![x] = files]}
  /\ UNCHANGED <<files, phase>>

Begin(x) ==
  /\ phase[x] = "untouched"
  /\ Enter(x, "open")
  /\ UNCHANGED <<files, plan, before>>

Install(x, t) ==
  /\ phase[x] = "open"
  /\ t \in InPlan(x)
  /\ files[t].data = before[x][t].data
  /\ files' = [files EXCEPT ![t] = [data |-> plan[x][t], by |-> x]]
  /\ UNCHANGED <<phase, plan, before>>

Complete(x) ==
  /\ phase[x] = "open"
  /\ \A t \in InPlan(x) : files[t] # before[x][t]
  /\ Enter(x, "whole")
  /\ UNCHANGED <<files, plan, before>>

Revert(x, t) ==
  /\ phase[x] = "open"
  /\ t \in InPlan(x)
  /\ files[t].data \in {before[x][t].data, plan[x][t]}
  /\ files' = [files EXCEPT ![t] = before[x][t]]
  /\ UNCHANGED <<phase, plan, before>>

Undo(x) ==
  /\ phase[x] = "open"
  /\ \A t \in InPlan(x) : files[t].by # x
  /\ Enter(x, "undone")
  /\ UNCHANGED <<files, plan, before>>

\* A rollback begins.  It may begin on a transaction that is undone by then.
Reopen(x) ==
  /\ phase[x] \in {"whole", "undone"}
  /\ Enter(x, "open")
  /\ UNCHANGED <<files, plan, before>>

Edit(t) ==
  /\ \E f \in [data : State, by : Edits] : files' = [files EXCEPT ![t] = f]
  /\ UNCHANGED <<phase, plan, before>>

Next ==
  \/ \E x \in Transactions :
       \/ Prepare(x) \/ Begin(x) \/ Complete(x) \/ Undo(x) \/ Reopen(x)
       \/ \E t \in Targets : Install(x, t) \/ Revert(x, t)
  \/ \E t \in Targets : Edit(t)

Spec == Init /\ [][Next]_vars
=============================================================================
