-------------------------- MODULE MCAsyncExecutor --------------------------
(* Instances of AsyncExecutor for TLC. *)
EXTENDS AsyncExecutor, TLC

Symmetry == Permutations(Workers) \cup Permutations(Requests)
=============================================================================
