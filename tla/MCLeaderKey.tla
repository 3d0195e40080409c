---------------------------- MODULE MCLeaderKey ----------------------------
(* Every store, with two members. *)
EXTENDS LeaderKey

AllBackends == {"etcd", "etcd3", "consul", "zookeeper", "raft", "kubernetes"}
OnlyEtcd3 == {"etcd3"}
=============================================================================
