---------------------------- MODULE HaInvariant ----------------------------
(***************************************************************************)
(* The inductive invariant behind WriterIsFenced, when no unguarded        *)
(* overlap of two threads happens (Races = {}). HaProofs proves that it is *)
(* inductive for every value of the constants; the model MCHa checks it.   *)
(***************************************************************************)
EXTENDS Ha

PromoteTasks == {"promotePre", "promoteCommit"}

(* Postgres of n accepts writes, or the background task will make it accept them
   without asking the DCS again. *)
MayWrite(n) ==
    \/ Writable(n)
    \/ task[n] \in PromoteTasks /\ pg[n] = "replica"
    \/ task[n] \in RestartTasks /\ dataDir[n] = "primary"

(* n owns the leader key, and its watchdog fires before the key expires. *)
Fenced(n) == leader = n /\ 0 < wd[n] /\ wd[n] <= ttl

(* The watchdog device as its user knows it, and the answer to a renewal, which is
   handled while the key has at least the timeout of the watchdog to live. *)
DeviceInv(n) ==
    /\ wdOpen[n] => 0 < wd[n]
    /\ AwaitsRenewal(n) => leader = n /\ ttl >= TTL - MaxDelay

(* What Postgres may do at each place of the loop and of the background task. *)
PostgresInv(n) ==
    /\ pg[n] = "replica" => dataDir[n] = "replica"
    /\ pg[n] = "stopping" =>
          pc[n] \in {"stop", "shutdown", "down"} \/ task[n] = "demoteStopping"
    /\ task[n] \in PromoteTasks => ~Writable(n) /\ role[n] # "master"
    /\ task[n] = "demoteStopping" => pg[n] # "primary"
    /\ task[n] = "demoteRelease" => ~Writable(n)
    /\ prePromoteFailed[n] => ~MayWrite(n)

(* Which background tasks can be under way at a place of the loop, and that the
   places where a node gives its key or its watchdog away are safe. *)
LoopInv(n) ==
    /\ pc[n] \in {"acquired", "follow", "renewed", "notRenewed"} => ~Busy(n)
    /\ pc[n] = "down" => ~Busy(n)
    /\ pc[n] \in {"stop", "demoted"} => task[n] \notin PromoteTasks \cup RestartTasks
    /\ pc[n] \in {"stop", "demoted"} /\ mode[n] = "immediate" => ~Busy(n)
    /\ pc[n] = "stop" => pg[n] # "primary"
    /\ pc[n] = "demoted" => ~Writable(n)
    /\ pc[n] = "shutdown" => pg[n] # "primary"
    /\ pc[n] = "exiting" => ~Writable(n)
    /\ pc[n] \in {"shutdown", "exiting"} =>
          /\ task[n] \notin RestartTasks
          /\ task[n] \in PromoteTasks => pg[n] # "replica"

NodeInv(n) ==
    /\ MayWrite(n) => Fenced(n)
    /\ DeviceInv(n)
    /\ PostgresInv(n)
    /\ LoopInv(n)

(* Every node that accepts writes, or is about to, owns the key and is fenced by
   its watchdog; the rest says where each thread of a node can be meanwhile. *)
IInv == TypeOK /\ \A n \in Nodes : NodeInv(n)
=============================================================================
