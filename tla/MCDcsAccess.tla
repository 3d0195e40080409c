---------------------------- MODULE MCDcsAccess ----------------------------
(* How a node gets at the DCS, and what its loop does with what it gets, slots and
   background tasks, for TLC: WatchCache, DcsClient, Slots and AsyncExecutor. They
   share no state: a behaviour belongs to one of them, and the others stay in an
   initial state. *)
EXTENDS WatchCache, DcsClient, MCSlots, AsyncExecutor

CONSTANTS d1, d2, service, w1, w2, w3, r1, r2

CacheClients == {"etcd3", "kubernetes"}
AllFlavors == {"etcd", "etcd3", "kubernetes"}
AllServers == {d1, d2, service}
ThreeWorkers == {w1, w2, w3}
TwoRequests == {r1, r2}

VARIABLE part

Parts == {"cache", "client", "slots", "executor"}

(* The initial state in which a part rests. *)
Rests(p) ==
    CASE p = "cache" -> client = "etcd3"
      [] p = "client" -> flavor = "etcd" /\ configured = {d1} /\ membership = {d1}
      [] p = "slots" -> clusterNow.members = {Me} /\ clusterNow.ignored = {}
                        /\ slotRole = "master" /\ accepts
      [] p = "executor" -> leader = "nobody"

AccessInit ==
    /\ WatchCacheInit /\ DcsClientInit /\ SlotsInit /\ ExecutorInit
    /\ part \in Parts
    /\ \A p \in Parts \ {part} : Rests(p)

Only(p) ==
    /\ part = p /\ UNCHANGED part
    /\ p # "cache" => UNCHANGED watchCacheVars
    /\ p # "client" => UNCHANGED dcsClientVars
    /\ p # "slots" => UNCHANGED slotsVars
    /\ p # "executor" => UNCHANGED executorVars

AccessNext ==
    \/ Only("cache") /\ WatchCacheNext
    \/ Only("client") /\ DcsClientNext
    \/ Only("slots") /\ SlotsNext
    \/ Only("executor") /\ ExecutorNext

accessVars == <<part, watchCacheVars, dcsClientVars, slotsVars, executorVars>>

(* The fairness of WatchCacheFairSpec, DcsClientFairSpec and SlotsSpec. *)
AccessSpec ==
    /\ AccessInit /\ [][AccessNext]_accessVars
    /\ WF_watchCacheVars(part = "cache" /\ CacheThread)
    /\ WF_watchCacheVars(part = "cache" /\ OwnWriteCached)
    /\ WF_watchCacheVars(part = "cache" /\ KillStream)
    /\ WF_dcsClientVars(part = "client" /\ RequestGoesOn)
    /\ SF_dcsClientVars(part = "client" /\ StartRequest(TRUE))
    /\ WF_slotsVars(part = "slots" /\ SyncStep)
    /\ WF_slotsVars(part = "slots" /\ RestartStep)
    /\ WF_slotsVars(part = "slots" /\ RestartBegins /\ ~accepts)

(* CacheConverges, of a cache that is at work: once the key is not written any
   more the cache comes to show it (KVCache, ObjectCache). *)
CacheAtWorkConverges == part = "cache" => CacheConverges

(* ClientRecovers, of a client that is at work: once the servers stay as they
   are it is answered again and again (api_execute, call_rpc, _do_http_request). *)
ClientAtWorkRecovers == part = "client" => ClientRecovers

(* SlotsConverge, of a node at work: it comes to have the slots that the cluster
   wants (sync_replication_slots). *)
NodeHasItsSlots == part = "slots" => SlotsConverge
=============================================================================
