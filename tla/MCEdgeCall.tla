----------------------------- MODULE MCEdgeCall -----------------------------
(* EdgeCall with interchangeable call ids, for model checking.             *)
EXTENDS EdgeCall, TLC

(* No operator of EdgeCall chooses between two call ids.                   *)
Symmetry == Permutations(Calls)

=============================================================================
