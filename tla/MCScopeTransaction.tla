------------------------- MODULE MCScopeTransaction -------------------------
(* Small instances of ScopeTransaction for TLC: two targets and data a (what *)
(* the files start with), b and c (what the plans write), u (user edits).    *)
EXTENDS ScopeTransaction, TLC

CONSTANTS a, b, c, u, a1, a2

\* A write of both targets; a delete with a write; a write of one target.
WriteBoth(d) == (1 :> d @@ 2 :> d)
DeleteFirst(d) == (1 :> Absent @@ 2 :> d)
WriteSecond(d) == (1 :> Keep @@ 2 :> d)

\* Every invocation writes data no other version has: an edit, a plan and the
\* initial files are told apart by their hashes.
FreshPlans ==
  [x \in Appliers |-> IF x = a1 THEN {WriteBoth(b), DeleteFirst(b)}
                                ELSE {WriteSecond(c)}]
=============================================================================
