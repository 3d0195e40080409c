-------------------------------- MODULE MCHa --------------------------------
(* Model values for Ha and its inductive invariant. *)
EXTENDS HaInvariant, TLC

Symmetry == Permutations(Nodes)
=============================================================================
