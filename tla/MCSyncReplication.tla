------------------------- MODULE MCSyncReplication -------------------------
(* Instances of SyncReplication for TLC. *)
EXTENDS SyncReplication, TLC

MembersSymmetry == Permutations(Members)
=============================================================================
