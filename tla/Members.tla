------------------------------ MODULE Members ------------------------------
(***************************************************************************)
(* What the modules of the cluster share: its members, and the value that  *)
(* stands for none of them (Python's None where a name is expected).       *)
(***************************************************************************)

CONSTANTS
    Members,   \* the Patroni members of the cluster
    NoMember   \* none of them

ASSUME NoMemberAssumption == NoMember \notin Members
=============================================================================
