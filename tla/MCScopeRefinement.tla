-------------------------- MODULE MCScopeRefinement --------------------------
(* The instances of MCScopeTransaction, with the contract of the scope.      *)
EXTENDS ScopeRefinement, MCScopeTransaction
=============================================================================
