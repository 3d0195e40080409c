-------------------------- MODULE LeaderKeyProofs --------------------------
(***************************************************************************)
(* Proofs about LeaderKey, for any number of members, faults and leases:   *)
(* in the stores where every write of the key is conditional nobody takes  *)
(* the key from an owner whose lease is alive, and who is told that it     *)
(* leads owns the key.                                                     *)
(***************************************************************************)
EXTENDS LeaderKey, TLAPS

(* The stores where every write of the key is conditional. *)
Cas == backend \notin {"etcd3", "zookeeper"}

(* What the key and what was seen of it look like. NewLease is any lease of the member:
   that there is one left is a matter of the bound MaxLeases. *)
SeenShape(v) ==
    /\ v = [owner |-> v.owner, lease |-> v.lease, current |-> v.current]
    /\ v.current \in BOOLEAN

KeyShape ==
    /\ key = [owner |-> key.owner, lease |-> key.lease]
    /\ key.owner \in Members \cup {NoMember}
    /\ key.lease[1] = key.owner
    /\ \A l \in alive : l[1] \in Members
    /\ session = [n \in Members |-> session[n]]
    /\ \A n \in Members : session[n][1] \in {n, NoMember}
    /\ view = [n \in Members |-> view[n]] /\ \A n \in Members : SeenShape(view[n])
    /\ copy = [n \in Members |-> copy[n]] /\ \A n \in Members : SeenShape(copy[n])
    /\ step \in [Members -> {"load", "clean", "touch", "act", "retry"}]

(* consul: what was seen of the key is true until the key is written, and only the name of
   the member itself makes it remove the key. *)
ConsulSees ==
    \A n \in Members : view[n].current =>
        /\ view[n].owner = key.owner
        /\ step[n] = "clean" => key.owner = n

(* kubernetes: so is the copy in the cache. The leader that is read from it is the owner of
   the record, unless the lease of the record had run out, and it is not alive again
   before somebody writes the record. *)
K8sSees ==
    /\ key.owner # NoMember => key.lease = OwnTtl(key.owner)
    /\ \A n \in Members :
         /\ copy[n].current => copy[n].owner = key.owner /\ copy[n].lease = key.lease
         /\ view[n].current => view[n].owner = key.owner \/ key.lease \notin alive

SeesInv ==
    /\ backend = "consul" => ConsulSees
    /\ backend = "kubernetes" => K8sSees

(* A member that is told that it leads owns the key at that moment. *)
Held ==
    \A n \in Members :
        step[n] # step'[n] /\ step'[n] = "load" /\ n \in thinks' => key'.owner = n

(* What every step does. *)
Fine ==
    /\ KeyShape' /\ SeesInv'
    /\ NotTaken
    /\ backend # "consul" => Held

-----------------------------------------------------------------------------
(* A request to write the key. *)

(* The store has done it, whether n is told so or not. *)
Done(n, k) ==
    /\ Write(n, k) \/ Write(NoMember, k)
    /\ Forget(n, AfterWrite)
    /\ alive' = Revived(n, k)
    /\ GoTo(n, "load")
    /\ n \in thinks' => k.owner = n
    /\ UNCHANGED <<backend, session>>

(* It has not: the cycle is over. *)
NotDone(n) ==
    /\ NoWrite
    /\ Forget(n, view)
    /\ GoTo(n, "load")
    /\ n \notin thinks'
    /\ UNCHANGED <<backend, session, alive>>

(* A key that a member may write: its own, bound to a lease of its own, or none. *)
Writable(n, k) ==
    /\ k \in {NoKey, Bound(n, k.lease)}
    /\ k.lease[1] = k.owner
    /\ backend = "kubernetes" => k.lease \in {NoLease, OwnTtl(n)}

LEMMA NewLeaseIsOwn == ASSUME NEW n \in Members PROVE NewLease(n)[1] = n
BY DEF NewLease

LEMMA OutdatedShape ==
    ASSUME NEW v, SeenShape(v)
    PROVE  /\ SeenShape(Outdated(v)) /\ ~Outdated(v).current
           /\ Outdated(v).owner = v.owner /\ Outdated(v).lease = v.lease
<1>1. v \in [owner : {v.owner}, lease : {v.lease}, current : BOOLEAN]
  BY DEF SeenShape
<1>2. /\ Outdated(v) \in [owner : {v.owner}, lease : {v.lease}, current : BOOLEAN]
      /\ Outdated(v).current = FALSE
  BY <1>1 DEF Outdated
<1>. QED
  BY <1>2 DEF SeenShape

LEMMA SeenIsShaped ==
    ASSUME NEW k
    PROVE  /\ SeenShape(Seen(k)) /\ Seen(k).owner = k.owner /\ Seen(k).current
           /\ backend = "kubernetes" => Seen(k).lease = k.lease
BY DEF SeenShape, Seen

LEMMA NothingIsShaped ==
    /\ SeenShape(NothingSeen) /\ NothingSeen.owner = NoMember /\ ~NothingSeen.current
BY SeenIsShaped, OutdatedShape DEF NothingSeen, NoKey

(* After a write the caches are outdated, but for that of the writer. *)
LEMMA WriteDoes ==
    ASSUME KeyShape, NEW n \in Members \cup {NoMember}, NEW k, Write(n, k)
    PROVE  /\ key' = k
           /\ copy' = [m \in Members |-> copy'[m]]
           /\ \A m \in Members : SeenShape(copy'[m])
           /\ backend = "kubernetes" =>
                \A m \in Members : copy'[m].current =>
                   copy'[m].owner = k.owner /\ copy'[m].lease = k.lease
BY SeenIsShaped, OutdatedShape DEF KeyShape, Write

LEMMA AfterWriteDoes ==
    ASSUME KeyShape
    PROVE  /\ AfterWrite = [m \in Members |-> AfterWrite[m]]
           /\ \A m \in Members : SeenShape(AfterWrite[m])
           /\ backend \in {"consul", "kubernetes"} => \A m \in Members : ~AfterWrite[m].current
BY OutdatedShape DEF KeyShape, AfterWrite

LEMMA ForgetDoes ==
    ASSUME Cas, NEW n \in Members, NEW views, views = [m \in Members |-> views[m]],
           \A m \in Members : SeenShape(views[m]), Forget(n, views)
    PROVE  /\ view' = [m \in Members |-> view'[m]]
           /\ \A m \in Members : SeenShape(view'[m])
           /\ ~view'[n].current
           /\ \A m \in Members \ {n} : view'[m] = views[m]
BY NothingIsShaped DEF Cas, Forget

LEMMA DoneIsFine ==
    ASSUME Cas, KeyShape, SeesInv, NEW n \in Members, NEW k, Writable(n, k), Done(n, k),
           step[n] # "load",
           key.owner \in {n, NoMember} \/ (backend = "kubernetes" /\ key.lease \notin alive)
    PROVE  Fine
<1>. USE NoMemberAssumption DEF Cas
<1>1. /\ key' = k /\ k.owner \in {n, NoMember} /\ k.lease[1] = k.owner
      /\ k = [owner |-> k.owner, lease |-> k.lease]
  BY WriteDoes DEF Done, Writable, NoKey, Bound
<1>2. /\ copy' = [m \in Members |-> copy'[m]] /\ \A m \in Members : SeenShape(copy'[m])
      /\ backend = "kubernetes" =>
            \A m \in Members : copy'[m].current =>
                copy'[m].owner = k.owner /\ copy'[m].lease = k.lease
  BY WriteDoes DEF Done
<1>3. /\ view' = [m \in Members |-> view'[m]] /\ \A m \in Members : SeenShape(view'[m])
      /\ backend \in {"consul", "kubernetes"} => \A m \in Members : ~view'[m].current
  BY AfterWriteDoes, ForgetDoes DEF Done
<1>4. /\ step' = [step EXCEPT ![n] = "load"] /\ backend' = backend /\ session' = session
      /\ alive' \subseteq alive \cup {k.lease}
      /\ k.owner # n => alive' = alive
  BY DEF Done, GoTo, Revived
<1>5. step' \in [Members -> {"load", "clean", "touch", "act", "retry"}] /\ step'[n] = "load"
      /\ \A m \in Members \ {n} : step'[m] = step[m]
  BY <1>4 DEF KeyShape
<1>6. KeyShape'
  <2>1. \A l \in alive' : l[1] \in Members
    BY <1>1, <1>4 DEF KeyShape
  <2>2. key' = [owner |-> key'.owner, lease |-> key'.lease]
    BY <1>1
  <2>3. key'.owner \in Members \cup {NoMember} /\ key'.lease[1] = key'.owner
    BY <1>1
  <2>. QED
    BY <2>1, <2>2, <2>3, <1>2, <1>3, <1>4, <1>5 DEF KeyShape
<1>7. SeesInv'
  <2>1. CASE backend = "consul"
    BY <1>3, <1>4, <2>1 DEF SeesInv, ConsulSees
  <2>2. CASE backend = "kubernetes"
    <3>1. key'.owner # NoMember => key'.lease = OwnTtl(key'.owner)
      BY <1>1, <2>2 DEF Writable, NoLease, OwnTtl
    <3>. QED
      BY <1>1, <1>2, <1>3, <1>4, <2>2, <3>1 DEF SeesInv, K8sSees
  <2>. QED
    BY <1>4, <2>1, <2>2 DEF SeesInv
<1>8. NotTaken
  <2>1. ASSUME NEW m \in Members \ {n}, key.owner = m PROVE key.lease \notin alive'
    <3>1. key.lease \notin alive /\ key.lease[1] = m
      BY <2>1 DEF KeyShape
    <3>. QED
      BY <1>1, <1>4, <2>1, <3>1
  <2>. QED
    BY <1>5, <2>1 DEF NotTaken
<1>9. Held
  BY <1>1, <1>5 DEF Held, Done
<1>. QED
  BY <1>6, <1>7, <1>8, <1>9 DEF Fine

LEMMA NotDoneIsFine ==
    ASSUME Cas, KeyShape, SeesInv, NEW n \in Members, NotDone(n)
    PROVE  Fine
<1>. USE DEF Cas
<1>1. /\ view' = [m \in Members |-> view'[m]] /\ \A m \in Members : SeenShape(view'[m])
      /\ ~view'[n].current /\ \A m \in Members \ {n} : view'[m] = view[m]
  BY ForgetDoes DEF NotDone, KeyShape
<1>2. /\ step' = [step EXCEPT ![n] = "load"]
      /\ UNCHANGED <<backend, session, alive, key, copy>> /\ n \notin thinks'
  BY DEF NotDone, GoTo, NoWrite
<1>3. step' \in [Members -> {"load", "clean", "touch", "act", "retry"}] /\ step'[n] = "load"
      /\ \A m \in Members \ {n} : step'[m] = step[m]
  BY <1>2 DEF KeyShape
<1>4. KeyShape'
  BY <1>1, <1>2, <1>3 DEF KeyShape
<1>5. SeesInv'
  BY <1>1, <1>2, <1>3 DEF SeesInv, ConsulSees, K8sSees
<1>. QED
  BY <1>2, <1>3, <1>4, <1>5 DEF Fine, NotTaken, Held

(* A step that leaves the key alone and does not tell a member that it leads. *)
LEMMA QuietIsFine ==
    ASSUME Cas, KeyShape, SeesInv, key' = key, KeyShape', SeesInv',
           backend # "consul" =>
             \A n \in Members : step'[n] # step[n] /\ step'[n] = "load" => n \notin thinks'
    PROVE  Fine
BY DEF Fine, NotTaken, Held

-----------------------------------------------------------------------------
(* Reading the cluster. *)

LEMMA LoadIsFine ==
    ASSUME Cas, KeyShape, SeesInv, NEW n \in Members, NEW v, NEW s \in {"touch", "clean"},
           Load(n, v), GoTo(n, s), SeenShape(v),
           backend = "consul" /\ v.current =>
                v.owner = key.owner /\ (s = "clean" => key.owner = n),
           backend = "kubernetes" /\ v.current => v.owner = key.owner \/ key.lease \notin alive
    PROVE  Fine
<1>1. /\ view' = [view EXCEPT ![n] = v] /\ step' = [step EXCEPT ![n] = s]
      /\ UNCHANGED <<backend, key, alive, session, copy, thinks>>
  BY DEF Load, GoTo
<1>2. /\ view' = [m \in Members |-> view'[m]] /\ view'[n] = v
      /\ \A m \in Members \ {n} : view'[m] = view[m] /\ step'[m] = step[m]
      /\ step' \in [Members -> {"load", "clean", "touch", "act", "retry"}] /\ step'[n] = s
  BY <1>1 DEF KeyShape
<1>3. KeyShape'
  BY <1>1, <1>2 DEF KeyShape
<1>4. SeesInv'
  BY <1>1, <1>2 DEF SeesInv, ConsulSees, K8sSees
<1>. QED
  BY <1>1, <1>2, <1>3, <1>4, QuietIsFine

LEMMA LoadsAreFine ==
    ASSUME Cas, KeyShape, SeesInv, NEW n \in Members,
           EtcdLoad(n) \/ ConsulLoad(n) \/ RaftLoad(n) \/ K8sLoad(n)
    PROVE  Fine
<1>1. CASE EtcdLoad(n)
  BY <1>1, LoadIsFine, SeenIsShaped DEF EtcdLoad
<1>2. CASE ConsulLoad(n)
  BY <1>2, LoadIsFine, SeenIsShaped DEF ConsulLoad, Forsaken
<1>3. CASE RaftLoad(n)
  BY <1>3, LoadIsFine DEF RaftLoad, KeyShape
<1>4. CASE K8sLoad(n)
  <2>1. CASE Load(n, copy[n])
    BY <1>4, <2>1, LoadIsFine DEF K8sLoad, KeyShape, SeesInv, K8sSees
  <2>2. ASSUME copy[n].lease \notin alive \/ ~copy[n].current,
               Load(n, [copy[n] EXCEPT !.owner = NoMember])
        PROVE  Fine
    <3>. DEFINE v == [copy[n] EXCEPT !.owner = NoMember]
    <3>1. SeenShape(v) /\ v.current = copy[n].current
      BY DEF KeyShape, SeenShape
    <3>2. v.current => key.lease \notin alive
      BY <1>4, <2>2, <3>1 DEF K8sLoad, SeesInv, K8sSees
    <3>3. backend = "kubernetes" /\ GoTo(n, "touch")
      BY <1>4 DEF K8sLoad
    <3>. QED
      BY <2>2, <3>1, <3>2, <3>3, LoadIsFine
  <2>. QED
    BY <1>4, <2>1, <2>2 DEF K8sLoad
<1>. QED
  BY <1>1, <1>2, <1>3, <1>4

(* The key is removed by its index, which is that of the member's own key. *)
LEMMA ConsulCleanIsFine ==
    ASSUME Cas, KeyShape, SeesInv, NEW n \in Members, ConsulClean(n)
    PROVE  Fine
<1>. USE NoMemberAssumption
<1>1. /\ backend = "consul" /\ step[n] = "clean" /\ step' = [step EXCEPT ![n] = "touch"]
      /\ UNCHANGED <<backend, alive, session>>
  BY DEF ConsulClean, Cleaned, GoTo
<1>2. /\ step' \in [Members -> {"load", "clean", "touch", "act", "retry"}]
      /\ step'[n] = "touch" /\ \A m \in Members \ {n} : step'[m] = step[m]
  BY <1>1 DEF KeyShape
<1>3. CASE view[n].current
  <2>1. key.owner = n
    BY <1>1, <1>3 DEF SeesInv, ConsulSees
  <2>2. Write(n, NoKey) /\ view' = [AfterWrite EXCEPT ![n] = NothingSeen]
    BY <1>3 DEF ConsulClean
  <2>3. /\ view' = [m \in Members |-> view'[m]]
        /\ \A m \in Members : SeenShape(view'[m]) /\ ~view'[m].current
    BY <1>1, <2>2, AfterWriteDoes, NothingIsShaped
  <2>4. key' = NoKey /\ copy' = [m \in Members |-> copy'[m]] /\ \A m \in Members : SeenShape(copy'[m])
    BY <2>2, WriteDoes
  <2>5. KeyShape'
    BY <1>1, <1>2, <2>3, <2>4 DEF KeyShape, NoKey, NoLease
  <2>6. SeesInv'
    BY <1>1, <2>3 DEF SeesInv, ConsulSees
  <2>. QED
    BY <1>1, <1>2, <2>1, <2>5, <2>6 DEF Fine, NotTaken
<1>4. CASE ~view[n].current
  <2>1. NoWrite /\ view' = [view EXCEPT ![n] = NothingSeen]
    BY <1>4 DEF ConsulClean
  <2>2. /\ view' = [m \in Members |-> view'[m]] /\ view'[n] = NothingSeen
        /\ \A m \in Members \ {n} : view'[m] = view[m]
    BY <2>1 DEF KeyShape
  <2>3. KeyShape'
    BY <1>1, <1>2, <2>1, <2>2, NothingIsShaped DEF KeyShape, NoWrite
  <2>4. SeesInv'
    BY <1>1, <1>2, <2>1, <2>2, NothingIsShaped DEF SeesInv, ConsulSees, NoWrite
  <2>. QED
    BY <1>1, <2>1, <2>3, <2>4, QuietIsFine DEF NoWrite
<1>. QED
  BY <1>3, <1>4

-----------------------------------------------------------------------------
(* The writes of the leader key. *)

LEMMA AcquireIsFine ==
    ASSUME Cas, KeyShape, SeesInv, NEW n \in Members,
           EtcdAcquire(n) \/ RaftAcquire(n) \/ K8sAcquire(n) \/ ConsulAcquire(n)
    PROVE  Fine
<1>. USE DEF Ask, Told
<1>1. CASE EtcdAcquire(n)
  <2>1. NotDone(n) \/ (Done(n, Bound(n, OwnTtl(n))) /\ key.owner = NoMember)
    BY <1>1 DEF EtcdAcquire, FindsNoLeader, IsFree, Done, NotDone, Bound
  <2>2. Writable(n, Bound(n, OwnTtl(n))) /\ step[n] # "load"
    BY <1>1 DEF EtcdAcquire, FindsNoLeader, Writable, Bound, OwnTtl
  <2>. QED
    BY <2>1, <2>2, DoneIsFine, NotDoneIsFine
<1>2. CASE RaftAcquire(n)
  <2>1. NotDone(n) \/ (Done(n, Bound(n, OwnTtl(n))) /\ key.owner = NoMember)
    BY <1>2 DEF RaftAcquire, RaftSet, FindsNoLeader, Done, NotDone, Bound
  <2>2. Writable(n, Bound(n, OwnTtl(n))) /\ step[n] # "load"
    BY <1>2 DEF RaftAcquire, FindsNoLeader, Writable, Bound, OwnTtl
  <2>. QED
    BY <2>1, <2>2, DoneIsFine, NotDoneIsFine
<1>3. CASE K8sAcquire(n)
  <2>1. NotDone(n) \/ (Done(n, Bound(n, OwnTtl(n))) /\ view[n].current)
    BY <1>3 DEF K8sAcquire, K8sPatch, CompareAndSet, FindsNoLeader, Done, NotDone, Bound
  <2>2. Writable(n, Bound(n, OwnTtl(n))) /\ step[n] # "load"
    BY <1>3 DEF K8sAcquire, FindsNoLeader, Writable, Bound, OwnTtl
  <2>3. view[n].current =>
          key.owner \in {n, NoMember} \/ (backend = "kubernetes" /\ key.lease \notin alive)
    BY <1>3 DEF K8sAcquire, FindsNoLeader, SeesInv, K8sSees
  <2>. QED
    BY <2>1, <2>2, <2>3, DoneIsFine, NotDoneIsFine
<1>4. CASE ConsulAcquire(n)
  <2>1. session[n][1] = n
    BY <1>4, NoMemberAssumption DEF ConsulAcquire, KeyShape
  <2>2. NotDone(n) \/ (Done(n, Bound(n, session[n])) /\ (IsFree \/ key.lease = session[n]))
    BY <1>4 DEF ConsulAcquire, FindsNoLeader, Done, NotDone, Bound
  <2>3. Writable(n, Bound(n, session[n])) /\ step[n] # "load"
    BY <1>4, <2>1 DEF ConsulAcquire, FindsNoLeader, Writable, Bound
  <2>4. IsFree \/ key.lease = session[n] => key.owner \in {n, NoMember}
    BY <2>1 DEF KeyShape, IsFree
  <2>. QED
    BY <2>2, <2>3, <2>4, DoneIsFine, NotDoneIsFine
<1>. QED
  BY <1>1, <1>2, <1>3, <1>4

LEMMA UpdateIsFine ==
    ASSUME Cas, KeyShape, SeesInv, NEW n \in Members,
           EtcdUpdate(n) \/ RaftUpdate(n) \/ K8sUpdate(n) \/ K8sUpdateAgain(n)
    PROVE  Fine
<1>. USE DEF Ask, Told
<1>0. Writable(n, Bound(n, OwnTtl(n)))
  BY DEF Writable, Bound, OwnTtl
<1>1. CASE EtcdUpdate(n)
  <2>1. NotDone(n) \/ (Done(n, Bound(n, OwnTtl(n))) /\ key.owner = n)
    BY <1>1 DEF EtcdUpdate, Updating, Done, NotDone, Bound
  <2>. QED
    BY <1>0, <1>1, <2>1, DoneIsFine, NotDoneIsFine DEF EtcdUpdate, Updating
<1>2. CASE RaftUpdate(n)
  <2>1. NotDone(n) \/ (Done(n, Bound(n, OwnTtl(n))) /\ key.owner \in {n, NoMember})
    BY <1>2 DEF RaftUpdate, RaftSet, Updating, Done, NotDone, Bound
  <2>. QED
    BY <1>0, <1>2, <2>1, DoneIsFine, NotDoneIsFine DEF RaftUpdate, Updating
<1>3. CASE K8sUpdate(n)
  <2>1. CASE /\ copy[n].owner = n => copy[n].current
             /\ Ask(n, copy[n].owner = n, Bound(n, OwnTtl(n)))
    <3>1. NotDone(n) \/ (Done(n, Bound(n, OwnTtl(n))) /\ copy[n].owner = n)
      BY <1>3, <2>1 DEF K8sUpdate, Updating, Done, NotDone, Bound
    <3>2. copy[n].owner = n => key.owner = n
      BY <1>3, <2>1 DEF K8sUpdate, SeesInv, K8sSees
    <3>. QED
      BY <1>0, <1>3, <3>1, <3>2, DoneIsFine, NotDoneIsFine DEF K8sUpdate, Updating
  <2>2. CASE /\ copy' = [copy EXCEPT ![n] = Seen(key)]
             /\ GoTo(n, "retry")
             /\ UNCHANGED <<backend, key, alive, expiring, view, fetch, thinks, faults>>
    <3>1. /\ copy' = [m \in Members |-> copy'[m]] /\ copy'[n] = Seen(key)
          /\ \A m \in Members \ {n} : copy'[m] = copy[m]
          /\ step' \in [Members -> {"load", "clean", "touch", "act", "retry"}]
          /\ step'[n] = "retry" /\ \A m \in Members \ {n} : step'[m] = step[m]
      BY <2>2 DEF KeyShape, GoTo
    <3>2. session' = session /\ backend = "kubernetes"
      BY <1>3 DEF K8sUpdate
    <3>3. KeyShape'
      BY <2>2, <3>1, <3>2, SeenIsShaped DEF KeyShape
    <3>4. SeesInv'
      BY <2>2, <3>1, <3>2, SeenIsShaped DEF SeesInv, K8sSees
    <3>. QED
      BY <2>2, <3>1, <3>3, <3>4, QuietIsFine
  <2>. QED
    BY <1>3, <2>1, <2>2 DEF K8sUpdate
<1>4. CASE K8sUpdateAgain(n)
  <2>1. NotDone(n) \/ (Done(n, Bound(n, OwnTtl(n))) /\ copy[n].owner = n /\ copy[n].current)
    BY <1>4 DEF K8sUpdateAgain, K8sPatch, CompareAndSet, Done, NotDone, Bound
  <2>2. copy[n].owner = n /\ copy[n].current => key.owner = n
    BY <1>4 DEF K8sUpdateAgain, SeesInv, K8sSees
  <2>. QED
    BY <1>0, <1>4, <2>1, <2>2, DoneIsFine, NotDoneIsFine DEF K8sUpdateAgain
<1>. QED
  BY <1>1, <1>2, <1>3, <1>4

LEMMA ReleaseIsFine ==
    ASSUME Cas, KeyShape, SeesInv, NEW n \in Members,
           EtcdRelease(n) \/ RaftRelease(n) \/ K8sRelease(n) \/ ConsulRelease(n)
    PROVE  Fine
<1>. USE DEF Ask, Told, Updating
<1>0. Writable(n, NoKey) /\ NoKey.owner # n
  BY NoMemberAssumption DEF Writable, NoKey, NoLease, Bound
<1>1. CASE EtcdRelease(n)
  <2>1. NotDone(n) \/ (Done(n, NoKey) /\ key.owner = n)
    BY <1>0, <1>1 DEF EtcdRelease, Done, NotDone
  <2>. QED
    BY <1>0, <1>1, <2>1, DoneIsFine, NotDoneIsFine DEF EtcdRelease
<1>2. CASE RaftRelease(n)
  <2>1. NotDone(n) \/ (Done(n, NoKey) /\ key.owner = n)
    BY <1>0, <1>2 DEF RaftRelease, RaftSet, Done, NotDone
  <2>. QED
    BY <1>0, <1>2, <2>1, DoneIsFine, NotDoneIsFine DEF RaftRelease
<1>3. CASE K8sRelease(n)
  <2>1. NotDone(n) \/ (Done(n, NoKey) /\ copy[n].owner = n /\ copy[n].current)
    BY <1>0, <1>3 DEF K8sRelease, Done, NotDone
  <2>2. copy[n].owner = n /\ copy[n].current => key.owner = n
    BY <1>3 DEF K8sRelease, SeesInv, K8sSees
  <2>. QED
    BY <1>0, <1>3, <2>1, <2>2, DoneIsFine, NotDoneIsFine DEF K8sRelease
<1>4. CASE ConsulRelease(n)
  <2>1. NotDone(n) \/ (Done(n, NoKey) /\ view[n].current)
    BY <1>0, <1>4 DEF ConsulRelease, CompareAndSet, Done, NotDone
  <2>2. view[n].current => key.owner = n
    BY <1>4 DEF ConsulRelease, HasLock, SeesInv, ConsulSees
  <2>. QED
    BY <1>0, <1>4, <2>1, <2>2, DoneIsFine, NotDoneIsFine DEF ConsulRelease
<1>. QED
  BY <1>1, <1>2, <1>3, <1>4

-----------------------------------------------------------------------------
(* The steps that leave the key alone. *)

LEMMA TouchIsFine ==
    ASSUME Cas, KeyShape, SeesInv, NEW n \in Members,
           PlainTouch(n) \/ RefreshSession(n) \/ SessionDisappeared(n) \/ TouchFails(n)
    PROVE  Fine
<1>1. step' = [step EXCEPT ![n] = "act"] /\ UNCHANGED <<backend, key, copy, view, thinks>>
  BY DEF PlainTouch, RefreshSession, SessionDisappeared, TouchFails, Touched, GoTo
<1>2. /\ step' \in [Members -> {"load", "clean", "touch", "act", "retry"}]
      /\ step'[n] = "act" /\ \A m \in Members \ {n} : step'[m] = step[m]
  BY <1>1 DEF KeyShape
<1>3. /\ session' = [m \in Members |-> session'[m]]
      /\ \A m \in Members : session'[m][1] \in {m, NoMember}
      /\ alive' = alive \/ (backend = "consul" /\ \A l \in alive' : l[1] \in Members)
  BY NewLeaseIsOwn DEF PlainTouch, RefreshSession, Renewed, SessionDisappeared, TouchFails,
                       KeyShape, NoLease
<1>4. KeyShape'
  BY <1>1, <1>2, <1>3 DEF KeyShape
<1>5. SeesInv'
  BY <1>1, <1>2, <1>3 DEF SeesInv, ConsulSees, K8sSees
<1>. QED
  BY <1>1, <1>2, <1>4, <1>5, QuietIsFine

LEMMA SessionIsFine ==
    ASSUME Cas, KeyShape, SeesInv, NEW n \in Members, InvalidSession(n) \/ RefreshFirst(n)
    PROVE  Fine
<1>1. backend = "consul" /\ UNCHANGED <<backend, key, copy, view, step, thinks>>
  BY DEF Cas, InvalidSession, RefreshFirst
<1>2. /\ session' = [m \in Members |-> session'[m]]
      /\ \A m \in Members : session'[m][1] \in {m, NoMember}
      /\ \A l \in alive' : l[1] \in Members
  BY NewLeaseIsOwn DEF InvalidSession, RefreshFirst, KeyShape, NoLease
<1>3. KeyShape'
  BY <1>1, <1>2 DEF KeyShape
<1>4. SeesInv'
  BY <1>1 DEF SeesInv, ConsulSees
<1>. QED
  BY <1>1, <1>3, <1>4, QuietIsFine

(* The cached Cluster is dropped: the store does not answer, somebody else leads, or in
   consul the session was renewed. *)
LEMMA DropIsFine ==
    ASSUME Cas, KeyShape, SeesInv, NEW n \in Members,
           LoadFails(n) \/ Follows(n) \/ ConsulUpdate(n)
    PROVE  Fine
<1>1. view' = [view EXCEPT ![n] = NothingSeen] /\ UNCHANGED <<backend, key, alive, session, copy>>
  BY DEF Cas, LoadFails, Follows, ConsulUpdate, Forget
<1>2. /\ step' \in [Members -> {"load", "clean", "touch", "act", "retry"}]
      /\ \A m \in Members \ {n} : step'[m] = step[m]
      /\ step'[n] \in {step[n], "load"}
  BY DEF LoadFails, Follows, ConsulUpdate, Told, GoTo, KeyShape
<1>3. /\ view' = [m \in Members |-> view'[m]] /\ view'[n] = NothingSeen
      /\ \A m \in Members \ {n} : view'[m] = view[m]
  BY <1>1 DEF KeyShape
<1>4. KeyShape'
  BY <1>1, <1>2, <1>3, NothingIsShaped DEF KeyShape
<1>5. SeesInv'
  BY <1>1, <1>2, <1>3, NothingIsShaped DEF SeesInv, ConsulSees, K8sSees
<1>6. backend = "consul" \/ n \notin thinks'
  BY DEF LoadFails, Follows, ConsulUpdate, Told
<1>. QED
  BY <1>1, <1>2, <1>4, <1>5, <1>6, QuietIsFine

LEMMA CycleIsFine ==
    ASSUME Cas, KeyShape, SeesInv, NEW n \in Members, Cycle(n)
    PROVE  Fine
<1>1. CASE EtcdLoad(n) \/ ConsulLoad(n) \/ RaftLoad(n) \/ K8sLoad(n)
  BY <1>1, LoadsAreFine
<1>2. CASE ConsulClean(n)
  BY <1>2, ConsulCleanIsFine
<1>3. CASE EtcdAcquire(n) \/ RaftAcquire(n) \/ K8sAcquire(n) \/ ConsulAcquire(n)
  BY <1>3, AcquireIsFine
<1>4. CASE EtcdUpdate(n) \/ RaftUpdate(n) \/ K8sUpdate(n) \/ K8sUpdateAgain(n)
  BY <1>4, UpdateIsFine
<1>5. CASE EtcdRelease(n) \/ RaftRelease(n) \/ K8sRelease(n) \/ ConsulRelease(n)
  BY <1>5, ReleaseIsFine
<1>6. CASE PlainTouch(n) \/ RefreshSession(n) \/ SessionDisappeared(n) \/ TouchFails(n)
  BY <1>6, TouchIsFine
<1>7. CASE InvalidSession(n) \/ RefreshFirst(n)
  BY <1>7, SessionIsFine
<1>8. CASE LoadFails(n) \/ Follows(n) \/ ConsulUpdate(n)
  BY <1>8, DropIsFine
<1>9. CASE \/ ZkLoad(n) \/ ZkLoadCached(n) \/ Etcd3Load(n) \/ ZkClean(n) \/ RefreshLease(n)
           \/ Etcd3Acquire(n) \/ ZkAcquire(n) \/ ZkUpdate(n) \/ Etcd3Update(n)
           \/ Etcd3UpdateFails(n) \/ Etcd3Release(n) \/ ZkRelease(n)
  <2>1. backend \in {"etcd3", "zookeeper"}
    BY <1>9 DEF ZkLoad, ZkLoadCached, Etcd3Load, ZkClean, RefreshLease, Etcd3Acquire, ZkAcquire,
                ZkUpdate, Etcd3Update, Etcd3UpdateFails, Etcd3Release, ZkRelease
  <2>. QED
    BY <2>1 DEF Cas
<1>. QED
  BY <1>1, <1>2, <1>3, <1>4, <1>5, <1>6, <1>7, <1>8, <1>9 DEF Cycle

-----------------------------------------------------------------------------
(* Around the members. *)

LEMMA MemberIsFine ==
    ASSUME Cas, KeyShape, SeesInv, NEW n \in Members, Background(n) \/ SetTtl(n) \/ Restart(n)
    PROVE  Fine
<1>1. CASE CacheUpdate(n)
  <2>1. copy' = [copy EXCEPT ![n] = Seen(key)] /\ UNCHANGED <<backend, key, alive, session, view, step>>
    BY <1>1 DEF CacheUpdate
  <2>2. /\ copy' = [m \in Members |-> copy'[m]] /\ copy'[n] = Seen(key)
        /\ \A m \in Members \ {n} : copy'[m] = copy[m]
    BY <2>1 DEF KeyShape
  <2>3. KeyShape'
    BY <2>1, <2>2, SeenIsShaped DEF KeyShape
  <2>4. SeesInv'
    BY <2>1, <2>2, SeenIsShaped DEF SeesInv, ConsulSees, K8sSees
  <2>. QED
    BY <2>1, <2>3, <2>4, QuietIsFine
<1>2. CASE ClusterWatcher(n) \/ SessionListener(n)
  BY <1>2 DEF ClusterWatcher, SessionListener, Cas
<1>3. CASE SetTtl(n)
  <2>1. backend = "consul" /\ session' = [session EXCEPT ![n] = NoLease]
        /\ UNCHANGED <<backend, key, alive, copy, view, step>>
    BY <1>3 DEF SetTtl, Cas
  <2>2. KeyShape'
    BY <2>1 DEF KeyShape, NoLease
  <2>3. SeesInv'
    BY <2>1 DEF SeesInv, ConsulSees
  <2>. QED
    BY <2>1, <2>2, <2>3, QuietIsFine
<1>4. CASE Restart(n)
  <2>1. /\ view' = [view EXCEPT ![n] = NothingSeen] /\ step' = [step EXCEPT ![n] = "load"]
        /\ n \notin thinks' /\ UNCHANGED <<backend, key>>
    BY <1>4 DEF Restart, GoTo
  <2>2. /\ view' = [m \in Members |-> view'[m]] /\ view'[n] = NothingSeen
        /\ step' \in [Members -> {"load", "clean", "touch", "act", "retry"}]
        /\ step'[n] = "load"
        /\ \A m \in Members \ {n} : view'[m] = view[m] /\ step'[m] = step[m]
    BY <2>1 DEF KeyShape
  <2>3. /\ copy' = [m \in Members |-> copy'[m]] /\ copy'[n] \in {copy[n], Seen(key)}
        /\ \A m \in Members \ {n} : copy'[m] = copy[m]
    <3>1. copy' = copy \/ copy' = [copy EXCEPT ![n] = Seen(key)]
      BY <1>4 DEF Restart
    <3>. QED
      BY <3>1 DEF KeyShape
  <2>4. /\ session' = [m \in Members |-> session'[m]]
        /\ \A m \in Members : session'[m][1] \in {m, NoMember}
        /\ alive' = alive \/ (backend = "consul" /\ \A l \in alive' : l[1] \in Members)
    BY <1>4, NewLeaseIsOwn DEF Restart, KeyShape, KeepsSession, Cas
  <2>5. KeyShape'
    BY <2>1, <2>2, <2>3, <2>4, SeenIsShaped, NothingIsShaped DEF KeyShape
  <2>6. SeesInv'
    BY <2>1, <2>2, <2>3, <2>4, SeenIsShaped, NothingIsShaped DEF SeesInv, ConsulSees, K8sSees
  <2>. QED
    BY <2>1, <2>2, <2>5, <2>6, QuietIsFine
<1>. QED
  BY <1>1, <1>2, <1>3, <1>4 DEF Background

(* The store removes the key: its lease has run out. *)
LEMMA RemovedIsFine ==
    ASSUME Cas, KeyShape, SeesInv, Write(NoMember, NoKey), view' = AfterWrite,
           alive' \subseteq alive,
           key.lease \notin alive', UNCHANGED <<backend, session, step>>
    PROVE  Fine
<1>1. /\ key' = NoKey /\ copy' = [m \in Members |-> copy'[m]]
      /\ \A m \in Members : SeenShape(copy'[m])
      /\ backend = "kubernetes" =>
            \A m \in Members : copy'[m].current =>
                copy'[m].owner = NoMember /\ copy'[m].lease = NoLease
  <2>1. NoKey.owner = NoMember /\ NoKey.lease = NoLease
    BY DEF NoKey
  <2>. QED
    BY <2>1, WriteDoes
<1>2. /\ view' = [m \in Members |-> view'[m]] /\ \A m \in Members : SeenShape(view'[m])
      /\ backend \in {"consul", "kubernetes"} => \A m \in Members : ~view'[m].current
  BY AfterWriteDoes
<1>3. KeyShape'
  BY <1>1, <1>2 DEF KeyShape, NoKey, NoLease
<1>4. SeesInv'
  BY <1>1, <1>2 DEF SeesInv, ConsulSees, K8sSees, NoKey
<1>. QED
  BY <1>3, <1>4 DEF Fine, NotTaken, Held

LEMMA StoreIsFine ==
    ASSUME Cas, KeyShape, SeesInv, (\E l \in Leases : RunOut(l)) \/ RaftExpire \/ ObjectTouched
    PROVE  Fine
<1>1. ASSUME NEW l \in Leases, RunOut(l) PROVE Fine
  <2>1. alive' = alive \ {l} /\ UNCHANGED <<backend, session, step>>
    BY <1>1 DEF RunOut
  <2>2. CASE key.lease = l /\ backend \notin {"raft", "kubernetes"}
    BY <1>1, <2>1, <2>2, RemovedIsFine DEF RunOut
  <2>3. CASE ~(key.lease = l /\ backend \notin {"raft", "kubernetes"})
    <3>1. UNCHANGED <<key, copy, view>>
      BY <1>1, <2>3 DEF RunOut, NoWrite
    <3>2. KeyShape' /\ SeesInv'
      BY <2>1, <3>1 DEF KeyShape, SeesInv, ConsulSees, K8sSees
    <3>. QED
      BY <2>1, <3>1, <3>2, QuietIsFine
  <2>. QED
    BY <2>2, <2>3
<1>2. CASE RaftExpire
  <2>1. UNCHANGED <<backend, alive, session, step>>
    BY <1>2 DEF RaftExpire
  <2>2. CASE /\ Write(NoMember, NoKey) /\ view' = AfterWrite /\ key.lease \notin alive
    BY <2>1, <2>2, RemovedIsFine
  <2>3. CASE NoWrite /\ UNCHANGED view
    <3>1. KeyShape' /\ SeesInv'
      BY <2>1, <2>3 DEF KeyShape, SeesInv, ConsulSees, K8sSees, NoWrite
    <3>. QED
      BY <2>1, <2>3, <3>1, QuietIsFine DEF NoWrite
  <2>. QED
    BY <1>2, <2>2, <2>3 DEF RaftExpire
<1>3. CASE ObjectTouched
  <2>1. /\ backend = "kubernetes" /\ Write(NoMember, key) /\ view' = AfterWrite
        /\ UNCHANGED <<backend, alive, session, step>>
    BY <1>3 DEF ObjectTouched
  <2>2. /\ key' = key /\ copy' = [m \in Members |-> copy'[m]]
        /\ \A m \in Members : SeenShape(copy'[m])
        /\ \A m \in Members : copy'[m].current => copy'[m].owner = key.owner /\ copy'[m].lease = key.lease
    BY <2>1, WriteDoes
  <2>3. /\ view' = [m \in Members |-> view'[m]]
        /\ \A m \in Members : SeenShape(view'[m]) /\ ~view'[m].current
    BY <2>1, AfterWriteDoes
  <2>4. KeyShape'
    BY <2>1, <2>2, <2>3 DEF KeyShape
  <2>5. SeesInv'
    BY <2>1, <2>2, <2>3 DEF SeesInv, K8sSees
  <2>. QED
    BY <2>1, <2>2, <2>4, <2>5, QuietIsFine
<1>. QED
  BY <1>1, <1>2, <1>3

-----------------------------------------------------------------------------
(* The inductive invariant, and the two promises. *)

CasInv == Cas => KeyShape /\ SeesInv

LEMMA NextIsFine ==
    ASSUME Cas, CasInv, LeaderKeyNext
    PROVE  Fine
BY CycleIsFine, MemberIsFine, StoreIsFine DEF CasInv, LeaderKeyNext

(* The store in use stays the same. *)
LEMMA SameBackend ==
    ASSUME LeaderKeyNext
    PROVE  backend' = backend
<1>. USE DEF Load, Cleaned, Ask, Touched, CompareAndSet, K8sPatch, RaftSet
<1>1. ASSUME NEW n \in Members, Cycle(n) PROVE backend' = backend
  BY <1>1 DEF Cycle, EtcdLoad, ConsulLoad, ZkLoad, ZkLoadCached, Etcd3Load, RaftLoad, K8sLoad,
       ConsulClean, ZkClean, LoadFails, PlainTouch, RefreshSession, RefreshLease,
       SessionDisappeared, TouchFails, EtcdAcquire, RaftAcquire, K8sAcquire, ConsulAcquire,
       Etcd3Acquire, ZkAcquire, InvalidSession, RefreshFirst, EtcdUpdate, RaftUpdate, K8sUpdate,
       K8sUpdateAgain, ConsulUpdate, ZkUpdate, Etcd3Update, Etcd3UpdateFails, EtcdRelease,
       RaftRelease, K8sRelease, ConsulRelease, Etcd3Release, ZkRelease, Follows
<1>2. ASSUME NEW n \in Members, Background(n) \/ SetTtl(n) \/ Restart(n)
      PROVE  backend' = backend
  BY <1>2 DEF Background, CacheUpdate, ClusterWatcher, SessionListener, SetTtl, Restart
<1>3. ASSUME (\E l \in Leases : RunOut(l)) \/ RaftExpire \/ ObjectTouched
      PROVE  backend' = backend
  BY <1>3 DEF RunOut, RaftExpire, ObjectTouched
<1>. QED
  BY <1>1, <1>2, <1>3 DEF LeaderKeyNext

(* In etcd, raft, kubernetes and consul, what a member believes about the version of the key
   that it would write on is true, or the write is refused: the inductive invariant, for any
   number of members, faults and leases. *)
THEOREM CasInductive == LeaderKeySpec => []CasInv
<1>1. LeaderKeyInit => CasInv
  <2>. SUFFICES ASSUME LeaderKeyInit, Cas PROVE KeyShape /\ SeesInv
    BY DEF CasInv
  <2>. USE DEF LeaderKeyInit
  <2>1. /\ key = NoKey /\ view = [n \in Members |-> NothingSeen]
        /\ copy = [n \in Members |-> Seen(NoKey)]
    OBVIOUS
  <2>2. KeyShape
    BY <2>1, SeenIsShaped, NothingIsShaped DEF KeyShape, NoKey, NoLease
  <2>3. SeesInv
    BY <2>1, SeenIsShaped, NothingIsShaped, ZenonT(30) DEF SeesInv, ConsulSees, K8sSees, NoKey
  <2>. QED
    BY <2>2, <2>3
<1>2. CasInv /\ [LeaderKeyNext]_leaderKeyVars => CasInv'
  <2>1. ASSUME CasInv, LeaderKeyNext PROVE CasInv'
    BY <2>1, NextIsFine, SameBackend DEF Fine, CasInv, Cas
  <2>2. ASSUME CasInv, UNCHANGED leaderKeyVars PROVE CasInv'
    BY <2>2 DEF leaderKeyVars, CasInv, Cas, KeyShape, SeesInv, ConsulSees, K8sSees
  <2>. QED
    BY <2>1, <2>2
<1>. QED
  BY <1>1, <1>2, PTL DEF LeaderKeySpec

(* No member takes the leader key from an owner whose lease is alive, in the stores where
   every write is conditional: neither by an acquisition on a version read long ago, nor by
   an update of what it believes to be its own, nor by removing what it left behind. *)
THEOREM CasKeepsTheKey == LeaderKeySpec => KeyIsNotTakenByCas
<1>1. CasInv /\ [LeaderKeyNext]_leaderKeyVars
        => [backend \notin {"etcd3", "zookeeper"} => NotTaken]_leaderKeyVars
  BY NextIsFine DEF Fine, Cas
<1>. QED
  BY <1>1, CasInductive, PTL DEF LeaderKeySpec, KeyIsNotTakenByCas

(* A member that update_leader or attempt_to_acquire_leader tells that it leads owns the
   key at that moment, in the stores where the answer is that of a write on the key. *)
THEOREM ToldIsTrue == LeaderKeySpec => TrueMeansHeld
<1>1. CasInv /\ [LeaderKeyNext]_leaderKeyVars
        => [backend \notin {"consul", "etcd3", "zookeeper"} =>
              \A n \in Members :
                step[n] # step'[n] /\ step'[n] = "load" /\ n \in thinks' => key'.owner = n
           ]_leaderKeyVars
  BY NextIsFine DEF Fine, Cas, Held
<1>. QED
  BY <1>1, CasInductive, PTL DEF LeaderKeySpec, TrueMeansHeld
=============================================================================
