---------------------------- MODULE LeaderLease ----------------------------
(***************************************************************************)
(* What Patroni promises to its users, with no mechanism in it: there is   *)
(* one leader lock, at most one node accepts writes, a node starts to      *)
(* accept writes only while it owns the lock, and the lock does not leave  *)
(* a node that still accepts writes.                                       *)
(*                                                                         *)
(* Module Ha (the HA loop, its background tasks, Postgres, the watchdog    *)
(* device and the leader key with its TTL) is shown to implement this.     *)
(***************************************************************************)
CONSTANTS
    Nodes,   \* the members of the cluster
    NoNode   \* the value of a lock without owner

VARIABLES
    owner,   \* the node that owns the leader lock, or NoNode
    writers  \* the nodes whose Postgres accepts writes

vars == <<owner, writers>>

Init ==
    /\ owner = NoNode
    /\ writers = {}

(* The lock is free, and nobody accepts writes: n takes it. *)
Acquire(n) ==
    /\ owner = NoNode
    /\ writers = {}
    /\ owner' = n
    /\ UNCHANGED writers

(* The owner is promoted. *)
Promote(n) ==
    /\ owner = n
    /\ writers = {}
    /\ writers' = {n}
    /\ UNCHANGED owner

(* The writer stops: a demotion, a crash, or a reset by the watchdog. The
   lock may run out at the same instant, but not before. *)
StepDown ==
    /\ writers # {}
    /\ writers' = {}
    /\ owner' \in {owner, NoNode}

(* The lock expires or is given back while nobody accepts writes. *)
Release ==
    /\ writers = {}
    /\ owner' = NoNode
    /\ UNCHANGED writers

Next ==
    \/ \E n \in Nodes : Acquire(n) \/ Promote(n)
    \/ StepDown
    \/ Release

Spec == Init /\ [][Next]_vars
=============================================================================
