--------------------------- MODULE ScopeRefinement ---------------------------
(* The transaction engine implements the contract of a scope: the journal's  *)
(* status is the phase of the transaction.                                   *)
EXTENDS ScopeTransaction

\* The phase a reader of the journal has to assume.
Phase(x) ==
  CASE status[x] \in {"none", "torn", "prepared"} -> "untouched"
    [] status[x] \in Interrupted -> "open"
    [] status[x] = "committed" -> "whole"
    [] status[x] = "rolled_back" -> "undone"

Contract == INSTANCE ScopeContract WITH
  Transactions <- Appliers,
  Edits <- 0 .. MaxEdits,
  phase <- [x \in Appliers |-> Phase(x)]

\* apply_plan and rollback_transaction implement the contract: what the journal
\* says is what the files allow it to say, at every step of every interleaving.
\* (With one I/O error at most, and no edit between a hash check and its
\* replace.)
ImplementsContract == Contract!Spec
=============================================================================
