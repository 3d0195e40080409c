----------------------------- MODULE LeaderKey -----------------------------
(***************************************************************************)
(* The leader key in the six configuration stores Patroni supports: who    *)
(* owns it, which lease keeps it alive, and what a member is told when it  *)
(* reads, acquires, updates or gives back the key.                         *)
(*                                                                         *)
(* The stores differ in what protects the key:                             *)
(*   etcd, raft   the key has a TTL of its own and is updated by value;    *)
(*   kubernetes   the key is a record that is never removed: every member  *)
(*                times out the record it observes and replaces it by its  *)
(*                resource version;                                        *)
(*   consul, etcd3, zookeeper                                              *)
(*                the key belongs to a session (a lease), and renewing the *)
(*                session keeps it, whoever looks at the key meanwhile.    *)
(* and in where a read comes from: the store, a copy that a watch keeps up *)
(* to date (etcd3, kubernetes), the local replica (raft), or the result of *)
(* an earlier read that no watch has invalidated (zookeeper).              *)
(*                                                                         *)
(* Time is not modelled: a lease may run out between any two steps, as it  *)
(* does when its owner stalls, which counts as a fault; a lease nobody     *)
(* renews any more always does. The other keys are left out, and so is the *)
(* choice of the member that should lead (module Failover): a member that  *)
(* finds no leader goes for the key.                                       *)
(***************************************************************************)
EXTENDS Naturals, Members

CONSTANTS
    Backends,   \* the stores to be considered, one of which is in use
    MaxFaults,  \* how often a lease runs out, an answer is lost, a member
                \* restarts, a TTL is changed or a record is touched
    MaxLeases   \* the identities of the leases of a member

ASSUME LeaderKeyAssumption ==
    /\ Backends \subseteq {"etcd", "etcd3", "consul", "zookeeper", "raft", "kubernetes"}
    /\ MaxFaults \in Nat
    /\ MaxLeases \in Nat

VARIABLES
    backend,   \* the store in use
    key,       \* the leader key: its owner and the lease it is bound to
    alive,     \* the leases that have not run out
    expiring,  \* raft: an _expire command is on its way
    session,   \* the session or lease each member believes to have
    copy,      \* the copy of the key that each member's cache or replica holds
    view,      \* the leader in each member's cached Cluster
    fetch,     \* zookeeper: _fetch_cluster, the cached Cluster is not good
    step,      \* where each member is in its HA cycle
    thinks,    \* the members that were told last that the key is theirs
    faults     \* how many faults there were

leaderKeyVars == <<backend, key, alive, expiring, session, copy, view, fetch,
                   step, thinks, faults>>

Leases == Members \X (0..MaxLeases)
NoLease == <<NoMember, 0>>
Keys == [owner : Members \union {NoMember}, lease : Leases \union {NoLease}]
NoKey == [owner |-> NoMember, lease |-> NoLease]

(* The lease of a key that has a TTL of its own. *)
OwnTtl(n) == <<n, 0>>

(* What was read of key k; it is current as long as the key is not written,
   which is what a comparison of the index, the revision or the version of
   the key finds out. Only etcd3 looks at the lease again. *)
Seen(k) ==
    [owner |-> k.owner,
     lease |-> IF backend \in {"etcd3", "kubernetes"} THEN k.lease ELSE NoLease,
     current |-> TRUE]
Outdated(v) == [v EXCEPT !.current = FALSE]
NothingSeen == Outdated(Seen(NoKey))

HasLock(n) == view[n].owner = n
IsFree == key.owner = NoMember

(* A lease of n that nothing refers to any more. *)
NewLease(n) ==
    LET used == alive \union {key.lease, session[n]}
                      \union {view[m].lease : m \in Members}
                      \union {copy[m].lease : m \in Members}
        free == {i \in 1..MaxLeases : <<n, i>> \notin used}
    IN  <<n, CHOOSE i \in free : \A j \in free : i <= j>>

KeepsSession(b) == b \in {"consul", "etcd3", "zookeeper"}

(* The types; a key is bound to a lease of its owner, and does not outlive
   the session it is bound to. *)
LeaderKeyTypeOK ==
    /\ backend \in Backends
    /\ key \in Keys
    /\ alive \subseteq Leases
    /\ expiring \in BOOLEAN
    /\ session \in [Members -> Leases \union {NoLease}]
    /\ \A n \in Members : /\ view[n] \in [owner : Members \union {NoMember},
                                          lease : Leases \union {NoLease},
                                          current : BOOLEAN]
                          /\ copy[n] \in [owner : Members \union {NoMember},
                                          lease : Leases \union {NoLease},
                                          current : BOOLEAN]
    /\ fetch \in [Members -> BOOLEAN]
    /\ step \in [Members -> {"load", "clean", "touch", "act", "retry"}]
    /\ thinks \subseteq Members
    /\ faults \in 0..MaxFaults
    /\ key.lease[1] = key.owner
    /\ KeepsSession(backend) /\ key # NoKey => key.lease \in alive

LeaderKeyInit ==
    /\ backend \in Backends
    /\ key = NoKey
    /\ session = [n \in Members |-> IF KeepsSession(backend) THEN <<n, 1>> ELSE NoLease]
    /\ alive = IF KeepsSession(backend) THEN {<<n, 1>> : n \in Members} ELSE {}
    /\ expiring = FALSE
    /\ copy = [n \in Members |-> Seen(NoKey)]
    /\ view = [n \in Members |-> NothingSeen]
    /\ fetch = [n \in Members |-> TRUE]
    /\ step = [n \in Members |-> "load"]
    /\ thinks = {}
    /\ faults = 0

-----------------------------------------------------------------------------
(* Steps. *)

GoTo(n, s) == step' = [step EXCEPT ![n] = s]

Fault == faults < MaxFaults /\ faults' = faults + 1

(* The key is written, by member n or by the store (NoMember). What a member
   writes is entered in its own cache at once. Only some of the stores have a
   cache (copy), or look at the key again after a read (view). *)
Write(n, k) ==
    /\ key' = k
    /\ copy' = [m \in Members |->
                   IF backend \notin {"etcd3", "raft", "kubernetes"} THEN copy[m]
                   ELSE IF m = n /\ backend # "raft" THEN Seen(k) ELSE Outdated(copy[m])]

NoWrite == UNCHANGED <<key, copy>>

AfterWrite == IF backend \in {"etcd", "raft"} THEN view
              ELSE [m \in Members |-> Outdated(view[m])]

(* The cached Cluster of n is not read again before the next _load_cluster,
   except in zookeeper. *)
Forget(n, views) ==
    view' = IF backend = "zookeeper" THEN views ELSE [views EXCEPT ![n] = NothingSeen]

(* Member n is told whether the key is its own, and the cycle ends. *)
Told(n, yes) ==
    /\ thinks' = IF yes THEN thinks \union {n} ELSE thinks \ {n}
    /\ GoTo(n, "load")

(* Member n asks to write k, which the store does if ok, and the lease of the
   key is as good as new. A request or its answer may be lost; what is tried
   again after that finds that the key has changed. *)
Revived(n, k) == IF k.owner = n THEN alive \union {k.lease} ELSE alive

Ask(n, ok, k) ==
    /\ \/ /\ ok
          /\ Write(n, k)
          /\ Forget(n, AfterWrite)
          /\ alive' = Revived(n, k)
          /\ Told(n, k.owner = n)
          /\ UNCHANGED faults
       \/ /\ ~ok
          /\ NoWrite
          /\ Forget(n, view)
          /\ Told(n, FALSE)
          /\ UNCHANGED <<alive, faults>>
       \/ /\ Fault
          /\ \/ ok /\ Write(NoMember, k) /\ Forget(n, AfterWrite) /\ alive' = Revived(n, k)
             \/ NoWrite /\ Forget(n, view) /\ UNCHANGED alive
          /\ Told(n, FALSE)
    /\ UNCHANGED <<backend, expiring, fetch>>

(* A write on the condition that the key is still what was seen of it. *)
CompareAndSet(n, seen, k) == Ask(n, seen.current, k)

(* The record is patched by its version; a conflict is not an error. *)
K8sPatch(n, seen) == CompareAndSet(n, seen, [owner |-> n, lease |-> OwnTtl(n)])

(* raft compares in the replica first, and again where the command is applied. *)
RaftSet(n, owners, k) == Ask(n, {copy[n].owner, key.owner} \subseteq owners, k)

-----------------------------------------------------------------------------
(* get_cluster: the cached Cluster is replaced by what _load_cluster returns. *)

Load(n, v) ==
    /\ step[n] = "load"
    /\ view' = [view EXCEPT ![n] = v]
    /\ UNCHANGED <<backend, key, alive, expiring, session, copy, thinks, faults>>

(* The key is read from the store. *)
EtcdLoad(n) ==
    /\ backend = "etcd"
    /\ Load(n, Seen(key))
    /\ GoTo(n, "touch")
    /\ UNCHANGED fetch

(* The key bears our name but belongs to an earlier session: it will be
   removed. *)
Forsaken(n) == key.owner = n /\ key.lease # session[n]

ConsulLoad(n) ==
    /\ backend = "consul"
    /\ Load(n, Seen(key))
    /\ GoTo(n, IF Forsaken(n) THEN "clean" ELSE "touch")
    /\ UNCHANGED fetch

(* The cached Cluster is returned unless a watch has fired since. The flag
   stays up when the leader's member key is not found, which is not
   modelled: it may. *)
ZkLoad(n) ==
    /\ backend = "zookeeper"
    /\ fetch[n]
    /\ session[n] \in alive
    /\ Load(n, Seen(key))
    /\ GoTo(n, IF Forsaken(n) THEN "clean" ELSE "touch")
    /\ \E again \in BOOLEAN : fetch' = [fetch EXCEPT ![n] = again]

ZkLoadCached(n) ==
    /\ backend = "zookeeper"
    /\ ~fetch[n]
    /\ Load(n, view[n])
    /\ GoTo(n, "touch")
    /\ UNCHANGED fetch

(* The cache that a watch keeps up to date, with no look at the store. That
   the key is bound to another lease is only logged. *)
Etcd3Load(n) ==
    /\ backend = "etcd3"
    /\ Load(n, copy[n])
    /\ GoTo(n, "touch")
    /\ UNCHANGED fetch

RaftLoad(n) ==
    /\ backend = "raft"
    /\ Load(n, copy[n])
    /\ GoTo(n, "touch")
    /\ UNCHANGED fetch

(* A leader record that this member has not seen change for the TTL names no
   leader: the lease has run out, or the cache of this member is behind. *)
K8sLoad(n) ==
    /\ backend = "kubernetes"
    /\ \/ Load(n, copy[n])
       \/ /\ copy[n].lease \notin alive \/ ~copy[n].current
          /\ Load(n, [copy[n] EXCEPT !.owner = NoMember])
    /\ GoTo(n, "touch")
    /\ UNCHANGED fetch

(* The key that bears our name is removed: by its index in consul, whatever
   it is by now in zookeeper. *)
Cleaned(n) ==
    /\ step[n] = "clean"
    /\ UNCHANGED <<backend, alive, expiring, session, faults>>

ConsulClean(n) ==
    /\ backend = "consul"
    /\ Cleaned(n)
    /\ IF view[n].current
       THEN Write(n, NoKey) /\ view' = [AfterWrite EXCEPT ![n] = NothingSeen]
       ELSE NoWrite /\ view' = [view EXCEPT ![n] = NothingSeen]
    /\ GoTo(n, "touch")
    /\ UNCHANGED <<fetch, thinks>>

ZkClean(n) ==
    /\ backend = "zookeeper"
    /\ Cleaned(n)
    /\ \/ /\ session[n] \in alive
          /\ ~IsFree
          /\ Write(n, NoKey)
          /\ view' = [AfterWrite EXCEPT ![n] = NothingSeen]
          /\ GoTo(n, "touch")
          /\ UNCHANGED <<fetch, thinks>>
       \/ /\ IsFree \/ session[n] \notin alive
          /\ view' = [view EXCEPT ![n] = NothingSeen]
          /\ fetch' = [fetch EXCEPT ![n] = TRUE]
          /\ thinks' = thinks \ {n}
          /\ GoTo(n, "load")
          /\ NoWrite

(* The store does not answer, or the zookeeper session is gone and not yet
   replaced: the cached Cluster is dropped, and a leader demotes itself. The
   raft replica is always there. *)
LoadFails(n) ==
    /\ step[n] = "load"
    /\ backend # "raft"
    /\ \/ Fault
       \/ /\ backend = "zookeeper" /\ fetch[n] /\ session[n] \notin alive
          /\ UNCHANGED faults
    /\ view' = [view EXCEPT ![n] = NothingSeen]
    /\ fetch' = [fetch EXCEPT ![n] = TRUE]
    /\ thinks' = thinks \ {n}
    /\ UNCHANGED <<backend, key, alive, expiring, session, copy, step>>

-----------------------------------------------------------------------------
(* touch_member: the session is renewed, or replaced if it is gone. *)

Touched(n) ==
    /\ step[n] = "touch"
    /\ GoTo(n, "act")
    /\ UNCHANGED <<backend, key, expiring, copy, view, fetch, thinks, faults>>

PlainTouch(n) ==
    /\ backend \in {"etcd", "raft", "kubernetes", "zookeeper"}
    /\ Touched(n)
    /\ UNCHANGED <<alive, session>>

Renewed(n) ==
    IF session[n] \in alive
    THEN UNCHANGED <<alive, session>>
    ELSE /\ session' = [session EXCEPT ![n] = NewLease(n)]
         /\ alive' = alive \union {NewLease(n)}

RefreshSession(n) ==
    /\ backend = "consul"
    /\ Touched(n)
    /\ Renewed(n)

RefreshLease(n) ==
    /\ backend = "etcd3"
    /\ Touched(n)
    /\ Renewed(n)

(* The session ran out after it had been renewed: the member key is refused
   and the session forgotten. *)
SessionDisappeared(n) ==
    /\ backend \in {"consul", "etcd3"}
    /\ Touched(n)
    /\ session[n] # NoLease
    /\ session[n] \notin alive
    /\ session' = [session EXCEPT ![n] = NoLease]
    /\ UNCHANGED alive

TouchFails(n) ==
    /\ backend \in {"consul", "etcd3"}
    /\ step[n] = "touch"
    /\ Fault
    /\ GoTo(n, "act")
    /\ UNCHANGED <<backend, key, alive, expiring, session, copy, view, fetch, thinks>>

-----------------------------------------------------------------------------
(* attempt_to_acquire_leader, by a member that finds no leader. *)

FindsNoLeader(n) ==
    /\ step[n] = "act"
    /\ view[n].owner = NoMember

Bound(n, lease) == [owner |-> n, lease |-> lease]

EtcdAcquire(n) ==
    /\ backend = "etcd"
    /\ FindsNoLeader(n)
    /\ Ask(n, IsFree, Bound(n, OwnTtl(n)))
    /\ UNCHANGED session

(* Mutant: the condition is that of an update, prevValue and not prevExist. *)
RaftAcquireAsUpdate(n) ==
    /\ backend = "raft"
    /\ FindsNoLeader(n)
    /\ RaftSet(n, {n}, Bound(n, OwnTtl(n)))
    /\ UNCHANGED session

RaftAcquire(n) ==
    /\ backend = "raft"
    /\ FindsNoLeader(n)
    /\ RaftSet(n, {NoMember}, Bound(n, OwnTtl(n)))
    /\ UNCHANGED session

(* Mutant: the record is replaced whatever its version. *)
K8sAcquireAnyVersion(n) ==
    /\ backend = "kubernetes"
    /\ FindsNoLeader(n)
    /\ Ask(n, TRUE, Bound(n, OwnTtl(n)))
    /\ UNCHANGED session

K8sAcquire(n) ==
    /\ backend = "kubernetes"
    /\ FindsNoLeader(n)
    /\ K8sPatch(n, view[n])
    /\ UNCHANGED session

ConsulAcquire(n) ==
    /\ backend = "consul"
    /\ FindsNoLeader(n)
    /\ session[n] \in alive
    /\ Ask(n, IsFree \/ key.lease = session[n], Bound(n, session[n]))
    /\ UNCHANGED session

Etcd3Acquire(n) ==
    /\ backend = "etcd3"
    /\ FindsNoLeader(n)
    /\ IF IsFree THEN session[n] \in alive ELSE session[n] # NoLease
    /\ Ask(n, IsFree, Bound(n, session[n]))
    /\ UNCHANGED session

(* The key is refused to a session that is gone: it is forgotten, replaced,
   and the attempt is made again. *)
InvalidSession(n) ==
    /\ backend = "consul" \/ (backend = "etcd3" /\ IsFree)
    /\ FindsNoLeader(n)
    /\ session[n] \notin alive \union {NoLease}
    /\ session' = [session EXCEPT ![n] = NoLease]
    /\ UNCHANGED <<backend, key, alive, expiring, copy, view, fetch, step, thinks, faults>>

RefreshFirst(n) ==
    /\ backend \in {"consul", "etcd3"}
    /\ FindsNoLeader(n)
    /\ session[n] = NoLease
    /\ session' = [session EXCEPT ![n] = NewLease(n)]
    /\ alive' = alive \union {NewLease(n)}
    /\ UNCHANGED <<backend, key, expiring, copy, view, fetch, step, thinks, faults>>

ZkAcquire(n) ==
    /\ backend = "zookeeper"
    /\ FindsNoLeader(n)
    /\ Ask(n, IsFree /\ session[n] \in alive, Bound(n, session[n]))
    /\ UNCHANGED session

-----------------------------------------------------------------------------
(* update_leader, by a member whose cached Cluster says that it leads. *)

Updating(n) ==
    /\ step[n] = "act"
    /\ HasLock(n)

(* Mutant: whatever the store answers is taken for success. *)
EtcdUpdateAlwaysTrue(n) ==
    /\ backend = "etcd"
    /\ Updating(n)
    /\ IF key.owner = n
       THEN Ask(n, TRUE, Bound(n, OwnTtl(n)))
       ELSE Ask(n, FALSE, NoKey) \/ (Told(n, TRUE) /\ NoWrite /\ Forget(n, view)
                                     /\ UNCHANGED <<backend, alive, expiring, fetch, faults>>)
    /\ UNCHANGED session

EtcdUpdate(n) ==
    /\ backend = "etcd"
    /\ Updating(n)
    /\ Ask(n, key.owner = n, Bound(n, OwnTtl(n)))
    /\ UNCHANGED session

(* The value is compared in the replica and in the store; if that fails and
   the replica has no key, the key is created. *)
RaftUpdate(n) ==
    /\ backend = "raft"
    /\ Updating(n)
    /\ IF copy[n].owner = NoMember
       THEN RaftSet(n, {NoMember}, Bound(n, OwnTtl(n)))
       ELSE RaftSet(n, {n}, Bound(n, OwnTtl(n)))
    /\ UNCHANGED session

(* The record in the cache must name us, and it is replaced by its version.
   If the version is an old one, the record is read from the store. *)
K8sUpdate(n) ==
    /\ backend = "kubernetes"
    /\ Updating(n)
    /\ \/ /\ copy[n].owner = n => copy[n].current
          /\ Ask(n, copy[n].owner = n, Bound(n, OwnTtl(n)))
       \/ /\ copy[n].owner = n /\ ~copy[n].current
          /\ copy' = [copy EXCEPT ![n] = Seen(key)]
          /\ GoTo(n, "retry")
          /\ UNCHANGED <<backend, key, alive, expiring, view, fetch, thinks, faults>>
    /\ UNCHANGED session

(* The record was read again: it still names us, and it is replaced if it has
   not changed since. *)
K8sUpdateAgain(n) ==
    /\ backend = "kubernetes"
    /\ step[n] = "retry"
    /\ IF copy[n].owner = n THEN K8sPatch(n, copy[n]) ELSE Ask(n, FALSE, NoKey)
    /\ UNCHANGED session

(* The session is renewed; nobody looks at the key. *)
ConsulUpdate(n) ==
    /\ backend = "consul"
    /\ Updating(n)
    /\ \/ /\ Told(n, session[n] \in alive)
          /\ UNCHANGED faults
       \/ /\ Fault
          /\ Told(n, FALSE)
    /\ Forget(n, view)
    /\ UNCHANGED <<backend, key, alive, expiring, session, copy, fetch>>

(* Kazoo keeps the session. *)
ZkUpdate(n) ==
    /\ backend = "zookeeper"
    /\ Updating(n)
    /\ Told(n, TRUE)
    /\ UNCHANGED <<backend, key, alive, expiring, session, copy, view, fetch, faults>>

(* The key is put back with our lease, whatever it holds, if the key we have
   seen is bound to another one. The store refuses a lease that has run out,
   and that is not noticed. *)
Etcd3Update(n) ==
    /\ backend = "etcd3"
    /\ Updating(n)
    /\ LET lease == IF session[n] = NoLease THEN NewLease(n) ELSE session[n]
           takes == view[n].lease # lease /\ (lease \in alive \/ session[n] = NoLease)
       IN  /\ session' = [session EXCEPT ![n] = lease]
           /\ alive' = IF session[n] = NoLease THEN alive \union {lease} ELSE alive
           /\ IF takes THEN Write(n, Bound(n, lease)) /\ Forget(n, AfterWrite)
                       ELSE NoWrite /\ Forget(n, view)
           /\ Told(n, TRUE)
    /\ UNCHANGED <<backend, expiring, fetch, faults>>

(* The lease could not be renewed or granted: the exception is taken for
   "not updated". *)
Etcd3UpdateFails(n) ==
    /\ backend = "etcd3"
    /\ Updating(n)
    /\ Fault
    /\ Told(n, FALSE)
    /\ Forget(n, view)
    /\ UNCHANGED <<backend, key, alive, expiring, session, copy, fetch>>

-----------------------------------------------------------------------------
(* delete_leader, by a member that gives up the lead. *)

EtcdRelease(n) ==
    /\ backend = "etcd"
    /\ Updating(n)
    /\ Ask(n, key.owner = n, NoKey)
    /\ UNCHANGED session

RaftRelease(n) ==
    /\ backend = "raft"
    /\ Updating(n)
    /\ RaftSet(n, {n}, NoKey)
    /\ UNCHANGED session

K8sRelease(n) ==
    /\ backend = "kubernetes"
    /\ Updating(n)
    /\ Ask(n, copy[n].owner = n /\ copy[n].current, NoKey)
    /\ UNCHANGED session

ConsulRelease(n) ==
    /\ backend = "consul"
    /\ Updating(n)
    /\ CompareAndSet(n, view[n], NoKey)
    /\ UNCHANGED session

Etcd3Release(n) ==
    /\ backend = "etcd3"
    /\ Updating(n)
    /\ CompareAndSet(n, view[n], NoKey)
    /\ UNCHANGED session

(* The session is closed, its keys with it, and a new one opened. *)
CloseSession(n) ==
    /\ session' = [session EXCEPT ![n] = NewLease(n)]
    /\ alive' = (alive \ {session[n]}) \union {NewLease(n)}
    /\ fetch' = [fetch EXCEPT ![n] = TRUE]
    /\ IF key.lease = session[n] /\ ~IsFree
       THEN Write(NoMember, NoKey) /\ view' = AfterWrite
       ELSE NoWrite /\ UNCHANGED view

ZkRelease(n) ==
    /\ backend = "zookeeper"
    /\ Updating(n)
    /\ CloseSession(n)
    /\ Told(n, FALSE)
    /\ UNCHANGED <<backend, expiring, faults>>

(* Somebody else leads. *)
Follows(n) ==
    /\ step[n] = "act"
    /\ view[n].owner \notin {n, NoMember}
    /\ Told(n, FALSE)
    /\ Forget(n, view)
    /\ UNCHANGED <<backend, key, alive, expiring, session, copy, fetch, faults>>

-----------------------------------------------------------------------------
(* Around the members. *)

(* A lease runs out, and a key that is bound to it is removed: at once, by a
   command of the raft leader, or never (kubernetes). *)
RunOut(l) ==
    /\ l \in alive
    /\ \/ Fault
       \/ /\ KeepsSession(backend)
          /\ session[l[1]] # l
          /\ UNCHANGED faults
    /\ alive' = alive \ {l}
    /\ IF key.lease = l /\ backend \notin {"raft", "kubernetes"}
       THEN Write(NoMember, NoKey) /\ view' = AfterWrite
       ELSE NoWrite /\ UNCHANGED view
    /\ expiring' = (expiring \/ (backend = "raft" /\ key.lease = l))
    /\ UNCHANGED <<backend, session, fetch, step, thinks>>

(* The command removes the key if it is still the one that had run out. *)
RaftExpire ==
    /\ expiring
    /\ expiring' = FALSE
    /\ IF ~IsFree /\ key.lease \notin alive
       THEN Write(NoMember, NoKey) /\ view' = AfterWrite
       ELSE NoWrite /\ UNCHANGED view
    /\ UNCHANGED <<backend, alive, session, fetch, step, thinks, faults>>

(* The watch or the replication brings the cached copy up to date. *)
CacheUpdate(n) ==
    /\ backend \in {"etcd3", "raft", "kubernetes"}
    /\ ~copy[n].current
    /\ copy' = [copy EXCEPT ![n] = Seen(key)]
    /\ UNCHANGED <<backend, key, alive, expiring, session, view, fetch, step, thinks, faults>>

(* Mutant: the owner of the key does not watch it. *)
ClusterWatcherNotOwner(n) ==
    /\ backend = "zookeeper"
    /\ ~fetch[n]
    /\ ~view[n].current
    /\ ~HasLock(n)
    /\ fetch' = [fetch EXCEPT ![n] = TRUE]
    /\ UNCHANGED <<backend, key, alive, expiring, session, copy, view, step, thinks, faults>>

(* A watch fires for a change after the last read. *)
ClusterWatcher(n) ==
    /\ backend = "zookeeper"
    /\ ~fetch[n]
    /\ ~view[n].current
    /\ fetch' = [fetch EXCEPT ![n] = TRUE]
    /\ UNCHANGED <<backend, key, alive, expiring, session, copy, view, step, thinks, faults>>

(* Kazoo finds its session gone, tells the listener, and opens another. *)
SessionListener(n) ==
    /\ backend = "zookeeper"
    /\ session[n] \notin alive
    /\ session' = [session EXCEPT ![n] = NewLease(n)]
    /\ alive' = alive \union {NewLease(n)}
    /\ fetch' = [fetch EXCEPT ![n] = TRUE]
    /\ UNCHANGED <<backend, key, expiring, copy, view, step, thinks, faults>>

(* The TTL is changed by a reload of the configuration between two cycles. *)
SetTtl(n) ==
    /\ step[n] = "load"
    /\ Fault
    /\ \/ /\ backend \in {"consul", "etcd3"}
          /\ session' = [session EXCEPT ![n] = NoLease]
          /\ UNCHANGED <<key, alive, copy, view, fetch>>
       \/ backend = "zookeeper" /\ CloseSession(n)
    /\ UNCHANGED <<backend, expiring, step, thinks>>

(* Patroni is killed and started again, with a new session. *)
Restart(n) ==
    /\ Fault
    /\ view' = [view EXCEPT ![n] = NothingSeen]
    /\ copy' = IF backend \in {"etcd3", "raft", "kubernetes"}
               THEN [copy EXCEPT ![n] = Seen(key)] ELSE copy
    /\ fetch' = [fetch EXCEPT ![n] = TRUE]
    /\ thinks' = thinks \ {n}
    /\ GoTo(n, "load")
    /\ IF KeepsSession(backend)
       THEN /\ session' = [session EXCEPT ![n] = NewLease(n)]
            /\ alive' = alive \union {NewLease(n)}
       ELSE UNCHANGED <<session, alive>>
    /\ UNCHANGED <<backend, key, expiring>>

(* Kubernetes itself writes to the leader object, and not its annotations. *)
ObjectTouched ==
    /\ backend = "kubernetes"
    /\ Fault
    /\ Write(NoMember, key)
    /\ view' = AfterWrite
    /\ UNCHANGED <<backend, alive, expiring, session, fetch, step, thinks>>

Cycle(n) ==
    \/ EtcdLoad(n) \/ ConsulLoad(n) \/ ZkLoad(n) \/ ZkLoadCached(n)
    \/ Etcd3Load(n) \/ RaftLoad(n) \/ K8sLoad(n)
    \/ ConsulClean(n) \/ ZkClean(n) \/ LoadFails(n)
    \/ PlainTouch(n) \/ RefreshSession(n) \/ RefreshLease(n)
    \/ SessionDisappeared(n) \/ TouchFails(n)
    \/ EtcdAcquire(n) \/ RaftAcquire(n) \/ K8sAcquire(n)
    \/ ConsulAcquire(n) \/ Etcd3Acquire(n) \/ ZkAcquire(n)
    \/ InvalidSession(n) \/ RefreshFirst(n)
    \/ EtcdUpdate(n) \/ RaftUpdate(n) \/ K8sUpdate(n) \/ K8sUpdateAgain(n)
    \/ ConsulUpdate(n) \/ ZkUpdate(n) \/ Etcd3Update(n) \/ Etcd3UpdateFails(n)
    \/ EtcdRelease(n) \/ RaftRelease(n) \/ K8sRelease(n)
    \/ ConsulRelease(n) \/ Etcd3Release(n) \/ ZkRelease(n)
    \/ Follows(n)

Background(n) == CacheUpdate(n) \/ ClusterWatcher(n) \/ SessionListener(n)

LeaderKeyNext ==
    \/ \E n \in Members : Cycle(n) \/ Background(n) \/ SetTtl(n) \/ Restart(n)
    \/ \E l \in Leases : RunOut(l)
    \/ RaftExpire
    \/ ObjectTouched

LeaderKeySpec == LeaderKeyInit /\ [][LeaderKeyNext]_leaderKeyVars

(* The HA loop and the threads of the clients keep running. *)
LeaderKeyFairSpec ==
    /\ LeaderKeySpec
    /\ \A n \in Members : /\ WF_leaderKeyVars(Cycle(n))
                          /\ WF_leaderKeyVars(Background(n))
    /\ WF_leaderKeyVars(RaftExpire)

-----------------------------------------------------------------------------
(* Properties. *)

(* The key that n owns is lost only when its lease has run out or by a step
   of n itself. *)
NotTaken ==
    \A n \in Members :
        key.owner = n /\ key'.owner # n =>
            key.lease \notin alive' \/ step'[n] # step[n] \/ session'[n] # session[n]

(* No member takes the key from an owner whose lease is alive: not by
   acquiring it, not by updating what it believes to be its own, and not by
   removing what it left behind before a restart. *)
KeyIsNotTaken == [][NotTaken]_leaderKeyVars

(* The same for the stores where every write of the key is conditional. *)
KeyIsNotTakenByCas ==
    [][backend \notin {"etcd3", "zookeeper"} => NotTaken]_leaderKeyVars

(* A member that is told that it leads owns the key at that moment, however
   long ago it read the cluster (_update_leader: "You have to use CAS"). *)
TrueMeansHeld ==
    [][backend \notin {"consul", "etcd3", "zookeeper"} =>
         \A n \in Members :
             step[n] # step'[n] /\ step'[n] = "load" /\ n \in thinks' => key'.owner = n
      ]_leaderKeyVars

(* What a member was told and what is true come together again. A member that
   has lost the key finds out: neither a session that is still renewed, nor a
   cached cluster, nor a key bound to another lease keeps it a leader for
   ever. A member that owns the key and does not know it, because the answer
   was lost or Patroni was restarted, finds out or loses the key. *)
BeliefIsCorrected ==
    \A n \in Members :
        (n \in thinks) # (key.owner = n) ~> (n \in thinks) = (key.owner = n)

(* A key that is free does not stay free. *)
FreeKeyIsTaken == IsFree ~> ~IsFree
=============================================================================
