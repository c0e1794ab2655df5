--------------------------- MODULE TransactionSteps ---------------------------
(* What a transaction does to the files of a scope when it is looked at as   *)
(* one step: the contract of ScopeContract, for the modules that build plans *)
(* and apply them.  Operations give a location its new data, or Keep.        *)
EXTENDS Sequences

CONSTANTS Keep

TargetsOf(ops) == {l \in DOMAIN ops : ops[l] # Keep}

\* Slip: the operations are given the hashes of the moment.
ApprovedNow(files, ops, seen) == TargetsOf(ops) \subseteq DOMAIN files

\* Every target is what the plan was made for.
Approved(files, ops, seen) ==
  \A l \in TargetsOf(ops) : files[l].data = seen[l].data

\* Slip: the loop over the operations takes every location for a target.
InstalledAll(files, ops, S) ==
  [l \in DOMAIN files |-> [data |-> ops[l], by |-> "manager"]]

Installed(files, ops, S) ==
  [l \in DOMAIN files |-> IF l \in S THEN [data |-> ops[l], by |-> "manager"]
                                     ELSE files[l]]

\* Journals that doctor reports as transaction.recovery-required.  "prepared":
\* the journal was published and the commit never began.
Flagged == {"prepared", "open"}

\* Journals that rollback accepts.
Rollbackable == {"open", "whole"}

\* rollback_transaction accepts the journal and every target.
RollbackOK(files, j) ==
  /\ j.phase \in Rollbackable
  /\ \A l \in TargetsOf(j.ops) :
       \/ files[l].data = j.ops[l]
       \/ j.phase = "open" /\ files[l].data = j.before[l].data

\* Slip: the journal is rolled back, the files stay.
NotRestored(files, j) == files

Restored(files, j) ==
  [l \in DOMAIN files |-> IF l \in TargetsOf(j.ops) THEN j.before[l] ELSE files[l]]

\* A rollback that ends before it is through.
PartlyRestored(files, j, S) ==
  [l \in DOMAIN files |-> IF l \in S THEN j.before[l] ELSE files[l]]
===============================================================================
