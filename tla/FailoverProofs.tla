--------------------------- MODULE FailoverProofs ---------------------------
(***************************************************************************)
(* Proofs about a change of the leader, for any number of members and      *)
(* failures: an automatic failover loses no more than the maximum lag of   *)
(* what a leader has last published.                                       *)
(***************************************************************************)
EXTENDS Failover, TLAPS

Stages == {"idle", "read", "race", "won", "demoting"}

Views == [request : Requests, fresh : BOOLEAN, optime : 0..MaxPosition, sync : SyncKeys,
          paused : BOOLEAN]

-----------------------------------------------------------------------------
(* Types, and what the shared steps do. *)

LEMMA ConstantTypes ==
    /\ NoRequest \in Requests /\ NoSyncKey \in SyncKeys /\ Unread \in Views
    /\ \A r \in NewRequests : r \in Requests
    /\ Unread.request = NoRequest /\ ~Present(NoRequest)
<1>1. NoRequest \in Requests /\ NoSyncKey \in SyncKeys /\ Unread.request = NoRequest
  BY DEF NoRequest, Requests, NoSyncKey, SyncKeys, Someone, Unread
<1>2. Unread \in Views
  BY <1>1, FailoverAssumption DEF Unread, Views
<1>. QED
  BY <1>1, <1>2 DEF NewRequests, Present, NoRequest

LEMMA ViewChanges ==
    ASSUME NEW v \in Views
    PROVE  /\ \A b \in BOOLEAN : /\ [v EXCEPT !.fresh = b] \in Views
                                 /\ [v EXCEPT !.fresh = b].request = v.request
           /\ \A a \in {"now", "later", "due", "past"} :
                /\ [v EXCEPT !.request.at = a] \in Views
                /\ Present([v EXCEPT !.request.at = a].request) = Present(v.request)
<1>. USE DEF Views
<1>1. \A b \in BOOLEAN : /\ [v EXCEPT !.fresh = b] \in Views
                         /\ [v EXCEPT !.fresh = b].request = v.request
  OBVIOUS
<1>2. ASSUME NEW a \in {"now", "later", "due", "past"}
      PROVE  /\ [v EXCEPT !.request.at = a] \in Views
             /\ Present([v EXCEPT !.request.at = a].request) = Present(v.request)
  BY DEF Requests, Present
<1>. QED
  BY <1>1, <1>2

(* A request written by others changes no view but in its index. *)
LEMMA RequestEffect ==
    ASSUME FailoverTypeOK, NEW r \in Requests, Request(r)
    PROVE  /\ request' \in Requests /\ view' \in [Members -> Views]
           /\ \A m \in Members : view'[m].request = view[m].request
<1>. DEFINE b(m) == stage[m] = "idle"
<1>1. view \in [Members -> Views]
  BY DEF FailoverTypeOK, Views
<1>2. view' = [m \in Members |-> [view[m] EXCEPT !.fresh = b(m)]]
  BY DEF Request
<1>3. \A m \in Members : b(m) \in BOOLEAN
  OBVIOUS
<1>. HIDE DEF b
<1>4. \A m \in Members : /\ [view[m] EXCEPT !.fresh = b(m)] \in Views
                         /\ [view[m] EXCEPT !.fresh = b(m)].request = view[m].request
  BY <1>1, <1>3, ViewChanges
<1>5. request' \in Requests
  BY DEF Request
<1>. QED
  BY <1>2, <1>4, <1>5

LEMMA EndStageEffect ==
    ASSUME FailoverTypeOK, NEW m \in Members, NEW r \in Requests, EndStage(m, r)
    PROVE  /\ request' \in Requests /\ view' \in [Members -> Views]
           /\ stage' \in [Members -> Stages]
           /\ stage'[m] = "idle"
           /\ \A n \in Members \ {m} : /\ view'[n].request = view[n].request
                                       /\ stage'[n] = stage[n]
<1>. DEFINE b(n) == view[n].fresh /\ (r = request \/ stage[n] = "idle")
<1>1. view \in [Members -> Views]
  BY DEF FailoverTypeOK, Views
<1>2. view' = [n \in Members |-> IF n = m THEN Unread ELSE [view[n] EXCEPT !.fresh = b(n)]]
  BY DEF EndStage
<1>3. \A n \in Members : b(n) \in BOOLEAN
  BY <1>1 DEF Views
<1>. HIDE DEF b
<1>4. view' \in [Members -> Views] /\ \A n \in Members \ {m} : view'[n].request = view[n].request
  BY <1>1, <1>2, <1>3, ViewChanges, ConstantTypes
<1>. QED
  BY <1>4 DEF EndStage, FailoverTypeOK, Stages

LEMMA BecomePrimaryTypes ==
    ASSUME FailoverTypeOK, NEW m \in Members, BecomePrimary(m)
    PROVE  /\ postgres' \in [Members -> {"primary", "replica", "down"}]
           /\ behind' \subseteq Members /\ syncNames' \in SyncKeys
BY DEF FailoverTypeOK, BecomePrimary, SyncKeys, Someone

LEMMA ClusterType ==
    ASSUME FailoverTypeOK
    PROVE  Cluster \in Views /\ Cluster.request = request /\ Cluster.optime = optime
BY DEF FailoverTypeOK, Cluster, Views

(* The request that the winner or the leader leaves behind. *)
LEMMA LeftRequests ==
    ASSUME FailoverTypeOK, NEW m \in Members
    PROVE  /\ request \in Requests /\ view[m].request \in Requests
           /\ Swapped(m, NoRequest) \in Requests
           /\ Swapped(m, [view[m].request EXCEPT !.leader = NoMember]) \in Requests
<1>1. request \in Requests /\ view[m].request \in Requests
  BY DEF FailoverTypeOK
<1>2. [view[m].request EXCEPT !.leader = NoMember] \in Requests
  BY <1>1 DEF Requests, Someone
<1>. QED
  BY <1>1, <1>2, ConstantTypes DEF Swapped

(* The clock changes a request only in its time. *)
LEMMA TimeTypes ==
    ASSUME FailoverTypeOK, TimePasses
    PROVE  /\ request' \in Requests /\ view' \in [Members -> Views]
           /\ \A m \in Members : Present(view'[m].request) = Present(view[m].request)
<1>. DEFINE a(m) == IF view[m].request.at = "later" THEN "due" ELSE "past"
            c(m) == view[m].request.at \in {"later", "due"} /\ view[m].fresh
<1>1. view \in [Members -> Views]
  BY DEF FailoverTypeOK, Views
<1>2. view' = [m \in Members |-> IF c(m) THEN [view[m] EXCEPT !.request.at = a(m)] ELSE view[m]]
  BY DEF TimePasses
<1>3. \A m \in Members : a(m) \in {"now", "later", "due", "past"}
  OBVIOUS
<1>4. request' \in Requests
  BY DEF TimePasses, FailoverTypeOK, Requests
<1>. HIDE DEF a, c
<1>. QED
  BY <1>1, <1>2, <1>3, <1>4, ViewChanges

(* The members, the requests and the cluster that was read keep their form. *)
THEOREM FailoverTypes ==
    FailoverSpec => []FailoverTypeOK
<1>1. FailoverInit => FailoverTypeOK
  <2>. SUFFICES ASSUME FailoverInit PROVE FailoverTypeOK
    OBVIOUS
  <2>1. owner \in Someone /\ request \in Requests /\ syncNames \in SyncKeys
    BY FailoverAssumption, ConstantTypes DEF FailoverInit, SyncKeys, Someone
  <2>2. optime \in 0..MaxPosition /\ events \in 0..MaxEvents
    BY FailoverAssumption DEF FailoverInit
  <2>3. position \in [Members -> 0..MaxPosition]
    BY FailoverAssumption DEF FailoverInit
  <2>4. view \in [Members -> Views]
    BY ConstantTypes DEF FailoverInit
  <2>. QED
    BY <2>1, <2>2, <2>3, <2>4 DEF FailoverInit, FailoverTypeOK, Views
<1>2. FailoverTypeOK /\ [FailoverNext]_failoverVars => FailoverTypeOK'
  <2>. SUFFICES ASSUME FailoverTypeOK, [FailoverNext]_failoverVars PROVE FailoverTypeOK'
    OBVIOUS
  <2>. USE DEF failoverNodes
  <2>e. ASSUME Event PROVE events' \in 0..MaxEvents
    BY <2>e, FailoverAssumption DEF Event, FailoverTypeOK
  <2>v. view \in [Members -> Views]
    BY DEF FailoverTypeOK, Views
  <2>1. ASSUME NEW m \in Members, JoinRace(m) PROVE FailoverTypeOK'
    <3>1. [Unread EXCEPT !.request = request, !.paused = paused] \in Views
      BY ConstantTypes DEF Views, FailoverTypeOK
    <3>. QED
      BY <2>1, <2>v, <3>1 DEF JoinRace, FailoverTypeOK, Views
  <2>2. ASSUME NEW m \in Members, TakeKey(m) PROVE FailoverTypeOK'
    <3>1. CASE owner = NoMember
      BY <2>2, <3>1 DEF TakeKey, FailoverTypeOK, Someone
    <3>2. CASE owner # NoMember
      <4>1. EndStage(m, request) /\ UNCHANGED owner
        BY <2>2, <3>2 DEF TakeKey
      <4>. QED
        BY <2>2, <4>1, LeftRequests, EndStageEffect DEF TakeKey, FailoverTypeOK, Views, Stages
    <3>. QED
      BY <3>1, <3>2
  <2>3. ASSUME NEW m \in Members, PromoteWinner(m) PROVE FailoverTypeOK'
    <3>1. PICK r \in Requests : EndStage(m, r)
      BY <2>3, LeftRequests, ConstantTypes DEF PromoteWinner
    <3>2. BecomePrimary(m)
      BY <2>3 DEF PromoteWinner
    <3>. QED
      BY <2>3, <3>1, <3>2, EndStageEffect, BecomePrimaryTypes
      DEF PromoteWinner, FailoverTypeOK, Views, Stages
  <2>4. ASSUME NEW m \in Members, ReadAsLeader(m) PROVE FailoverTypeOK'
    BY <2>4, <2>v, ClusterType DEF ReadAsLeader, FailoverTypeOK, Views
  <2>5. ASSUME NEW m \in Members, KeepKey(m) PROVE FailoverTypeOK'
    <3>1. /\ request' \in Requests /\ view' \in [Members -> Views]
          /\ stage' \in [Members -> Stages]
      <4>1. CASE stage' = [stage EXCEPT ![m] = "demoting"] /\ UNCHANGED <<request, view>>
        BY <4>1, <2>v DEF FailoverTypeOK, Stages
      <4>2. CASE \E r \in Requests : EndStage(m, r)
        BY <4>2, EndStageEffect
      <4>. QED
        BY <2>5, <4>1, <4>2, LeftRequests DEF KeepKey
    <3>2. /\ postgres' \in [Members -> {"primary", "replica", "down"}]
          /\ behind' \subseteq Members /\ syncNames' \in SyncKeys
      <4>1. CASE UNCHANGED <<syncNames, postgres, behind>>
        BY <4>1 DEF FailoverTypeOK
      <4>2. CASE BecomePrimary(m)
        BY <4>2, BecomePrimaryTypes
      <4>. QED
        BY <2>5, <4>1, <4>2 DEF KeepKey
    <3>3. optime' \in 0..MaxPosition
      BY <2>5 DEF KeepKey, FailoverTypeOK
    <3>. QED
      BY <2>5, <3>1, <3>2, <3>3 DEF KeepKey, FailoverTypeOK, Views, Stages
  <2>6. ASSUME NEW m \in Members, LosesKey(m) PROVE FailoverTypeOK'
    BY <2>6, LeftRequests, EndStageEffect DEF LosesKey, FailoverTypeOK, Views, Stages
  <2>7. ASSUME NEW m \in Members, GiveBackInPause(m) PROVE FailoverTypeOK'
    BY <2>7, LeftRequests, EndStageEffect
    DEF GiveBackInPause, FailoverTypeOK, Views, Stages, Someone
  <2>8. ASSUME NEW m \in Members, HandOver(m) PROVE FailoverTypeOK'
    BY <2>8, LeftRequests, EndStageEffect
    DEF HandOver, FailoverTypeOK, Views, Stages, Someone
  <2>9. ASSUME NEW m \in Members, Crash(m) PROVE FailoverTypeOK'
    BY <2>9, <2>e, LeftRequests, EndStageEffect DEF Crash, FailoverTypeOK, Views, Stages
  <2>10. ASSUME NEW m \in Members, ComesBack(m) PROVE FailoverTypeOK'
    BY <2>10 DEF ComesBack, FailoverTypeOK
  <2>11. ASSUME NEW m \in Members, LosesWatchdog(m) PROVE FailoverTypeOK'
    BY <2>11, <2>e DEF LosesWatchdog, FailoverTypeOK
  <2>12. ASSUME NEW m \in Members, Commits(m) PROVE FailoverTypeOK'
    <3>1. position[m] + 1 \in 0..MaxPosition
      BY <2>12, FailoverAssumption DEF Commits, FailoverTypeOK
    <3>. QED
      BY <2>12, <3>1 DEF Commits, FailoverTypeOK
  <2>13. ASSUME NEW m \in Members, Replicate(m) PROVE FailoverTypeOK'
    BY <2>13 DEF Replicate, FailoverTypeOK
  <2>14. ASSUME NEW m \in Members, NameStandby(m) PROVE FailoverTypeOK'
    BY <2>14 DEF NameStandby, FailoverTypeOK, SyncKeys, Someone
  <2>15. ASSUME NEW r \in NewRequests, NEW a \in {"failover", "switchover"}, PostRequest(a, r)
         PROVE  FailoverTypeOK'
    BY <2>15, <2>e, ConstantTypes, RequestEffect DEF PostRequest, FailoverTypeOK, Views
  <2>16. ASSUME NEW r \in NewRequests, CtlRequest(r) PROVE FailoverTypeOK'
    BY <2>16, <2>e, ConstantTypes, RequestEffect DEF CtlRequest, FailoverTypeOK, Views
  <2>17. CASE FlushRequest
    BY <2>17, <2>e, ConstantTypes, RequestEffect DEF FlushRequest, FailoverTypeOK, Views
  <2>18. CASE TimePasses
    BY <2>18, TimeTypes DEF TimePasses, FailoverTypeOK, Views
  <2>19. CASE TogglePause
    BY <2>19, <2>e DEF TogglePause, FailoverTypeOK
  <2>20. CASE KeyExpires
    BY <2>20 DEF KeyExpires, FailoverTypeOK, Someone
  <2>21. CASE UNCHANGED failoverVars
    BY <2>21 DEF failoverVars, FailoverTypeOK
  <2>. QED
    BY <2>1, <2>2, <2>3, <2>4, <2>5, <2>6, <2>7, <2>8, <2>9, <2>10, <2>11, <2>12, <2>13,
       <2>14, <2>15, <2>16, <2>17, <2>18, <2>19, <2>20, <2>21 DEF FailoverNext, FailoverLoop
<1>. QED
  BY <1>1, <1>2, PTL DEF FailoverSpec

-----------------------------------------------------------------------------
(* The loss. *)

(* Only the owner of the key is a primary, has won or demotes; and who races does not
   have it. *)
OwnerInv ==
    \A m \in Members :
        /\ postgres[m] = "primary" \/ stage[m] \in {"won", "demoting"} => owner = m
        /\ stage[m] = "race" => owner # m

Close(m) == optime - position[m] <= MaximumLag

(* Nothing is published while nobody has the key: a member that still can win is as close
   as when it looked. *)
LossInv ==
    \A m \in Members :
        (/\ stage[m] = "won" \/ (stage[m] = "race" /\ owner = NoMember)
         /\ ~Present(view[m].request))
            => Close(m)

FailoverInv == FailoverTypeOK /\ OwnerInv /\ LossInv

(* Who joins the race without a request is close. *)
LEMMA RacersAreClose ==
    ASSUME FailoverTypeOK, NEW m \in Members, TakesPart(Cluster, m), ~Present(request)
    PROVE  Close(m)
<1>1. \E S : Healthiest(Cluster, m, S, TRUE)
  BY ClusterType DEF TakesPart
<1>2. ~(Cluster.optime - position[m] > MaximumLag)
  BY <1>1 DEF Healthiest, Lags
<1>. QED
  BY <1>2, ClusterType, FailoverAssumption DEF Close, FailoverTypeOK

(* The positions move only under a primary, and the owner's own only forward. *)
LEMMA PositionsMove ==
    ASSUME FailoverTypeOK, OwnerInv, NEW m \in Members,
           Commits(m) \/ Replicate(m)
    PROVE  \A n \in Members : owner \in {n, NoMember} /\ Close(n) /\ optime' = optime => Close(n)'
<1>1. CASE Commits(m)
  <2>1. owner = m /\ m # NoMember
    BY <1>1, NoMemberAssumption DEF Commits, OwnerInv
  <2>2. position'[m] = position[m] + 1
    BY <1>1 DEF Commits, FailoverTypeOK
  <2>3. ASSUME NEW x \in Int, NEW y \in Int, x - y <= MaximumLag PROVE x - (y + 1) <= MaximumLag
    BY <2>3, FailoverAssumption
  <2>4. optime \in Int /\ position[m] \in Int
    BY FailoverAssumption DEF FailoverTypeOK
  <2>5. optime - position[m] <= MaximumLag => optime - (position[m] + 1) <= MaximumLag
    BY <2>3, <2>4
  <2>. QED
    BY <2>1, <2>2, <2>5 DEF Close
<1>2. CASE Replicate(m)
  <2>1. PICK p \in Members : /\ postgres[p] = "primary" /\ postgres[m] = "replica"
                             /\ position' = [position EXCEPT ![m] = position[p]]
    BY <1>2 DEF Replicate
  <2>2. owner = p /\ m # p /\ p # NoMember
    BY <2>1, NoMemberAssumption DEF OwnerInv
  <2>3. position'[p] = position[p]
    BY <2>1, <2>2 DEF FailoverTypeOK
  <2>. QED
    BY <2>2, <2>3 DEF Close
<1>. QED
  BY <1>1, <1>2

(* A step that ends the cycle of one member, or changes none, and leaves the key, the
   positions and what is published alone, keeps the invariant. *)
LEMMA QuietStep ==
    ASSUME OwnerInv, LossInv, owner' = owner, optime' = optime, position' = position,
           \A n \in Members :
               \/ stage'[n] \in {"idle", "read"}
               \/ /\ stage'[n] = stage[n]
                  /\ Present(view'[n].request) = Present(view[n].request),
           \A n \in Members : postgres'[n] = "primary" => postgres[n] = "primary"
    PROVE  OwnerInv' /\ LossInv'
BY DEF OwnerInv, LossInv, Close

(* The owner of the key and the distance of those who race for it: an inductive invariant
   if nobody races through a whole term of another leader. *)
THEOREM FailoverInductive ==
    ASSUME ~SlowRace
    PROVE  FailoverSpec => []FailoverInv
<1>1. FailoverInit => OwnerInv /\ LossInv
  BY NoMemberAssumption DEF FailoverInit, OwnerInv, LossInv
<1>2. FailoverInv /\ FailoverTypeOK' /\ [FailoverNext]_failoverVars => OwnerInv' /\ LossInv'
  <2>. SUFFICES ASSUME FailoverInv, FailoverTypeOK', [FailoverNext]_failoverVars
                PROVE  OwnerInv' /\ LossInv'
    OBVIOUS
  <2>. USE DEF failoverNodes, FailoverInv
  <2>f. \A r \in NewRequests : r \in Requests
    BY ConstantTypes
  <2>1. ASSUME NEW m \in Members, JoinRace(m) PROVE OwnerInv' /\ LossInv'
    <3>1. /\ owner = NoMember /\ owner' = owner /\ optime' = optime /\ position' = position
          /\ postgres' = postgres /\ TakesPart(Cluster, m)
          /\ stage' = [stage EXCEPT ![m] = "race"]
      BY <2>1 DEF JoinRace
    <3>2. \A n \in Members \ {m} : stage'[n] = stage[n] /\ view'[n] = view[n]
      BY <2>1 DEF JoinRace, FailoverTypeOK
    <3>3. stage'[m] = "race" /\ view'[m].request = request
      <4>1. [Unread EXCEPT !.request = request, !.paused = paused].request = request
        BY DEF Unread
      <4>2. view'[m] = [Unread EXCEPT !.request = request, !.paused = paused]
        BY <2>1 DEF JoinRace, FailoverTypeOK
      <4>. QED
        BY <3>1, <4>1, <4>2 DEF FailoverTypeOK
    <3>4. OwnerInv'
      BY <3>1, <3>2, <3>3, NoMemberAssumption DEF OwnerInv
    <3>5. ~Present(request) => Close(m)'
      BY <3>1, RacersAreClose DEF Close
    <3>6. LossInv'
      BY <3>1, <3>2, <3>3, <3>5 DEF LossInv, Close
    <3>. QED
      BY <3>4, <3>6
  <2>2. ASSUME NEW m \in Members, TakeKey(m) PROVE OwnerInv' /\ LossInv'
    <3>1. CASE owner = NoMember
      <4>1. /\ owner' = m /\ stage' = [stage EXCEPT ![m] = "won"] /\ stage[m] = "race"
            /\ UNCHANGED <<view, optime, position, postgres>>
        BY <2>2, <3>1 DEF TakeKey
      <4>2. stage'[m] = "won" /\ \A n \in Members \ {m} : stage'[n] = stage[n]
        BY <4>1 DEF FailoverTypeOK
      <4>. QED
        BY <3>1, <4>1, <4>2, NoMemberAssumption DEF OwnerInv, LossInv, Close
    <3>2. CASE owner # NoMember
      <4>1. EndStage(m, request) /\ UNCHANGED <<owner, optime, position, postgres>>
        BY <2>2, <3>2 DEF TakeKey
      <4>. QED
        BY <4>1, LeftRequests, EndStageEffect, QuietStep
    <3>. QED
      BY <3>1, <3>2
  <2>3. ASSUME NEW m \in Members, PromoteWinner(m) PROVE OwnerInv' /\ LossInv'
    <3>1. PICK r \in Requests : EndStage(m, r)
      BY <2>3, LeftRequests, ConstantTypes DEF PromoteWinner
    <3>2. /\ owner = m /\ postgres' = [postgres EXCEPT ![m] = "primary"]
          /\ UNCHANGED <<owner, optime, position>>
      BY <2>3 DEF PromoteWinner, BecomePrimary, OwnerInv
    <3>. QED
      BY <3>1, <3>2, EndStageEffect DEF OwnerInv, LossInv, Close, FailoverTypeOK
  <2>4. ASSUME NEW m \in Members, ReadAsLeader(m) PROVE OwnerInv' /\ LossInv'
    <3>1. \A n \in Members \ {m} : stage'[n] = stage[n] /\ view'[n] = view[n]
      BY <2>4 DEF ReadAsLeader, FailoverTypeOK
    <3>2. stage'[m] = "read"
      BY <2>4 DEF ReadAsLeader, FailoverTypeOK
    <3>. QED
      BY <2>4, <3>1, <3>2, QuietStep DEF ReadAsLeader
  <2>5. ASSUME NEW m \in Members, KeepKey(m) PROVE OwnerInv' /\ LossInv'
    <3>1. owner = m /\ owner' = m /\ position' = position /\ m # NoMember /\ stage[m] = "read"
      BY <2>5, NoMemberAssumption DEF KeepKey
    <3>2. /\ stage'[m] \in {"idle", "demoting"}
          /\ \A n \in Members \ {m} : stage'[n] = stage[n]
      <4>1. CASE stage' = [stage EXCEPT ![m] = "demoting"] /\ UNCHANGED <<request, view>>
        BY <4>1 DEF FailoverTypeOK
      <4>2. CASE \E r \in Requests : EndStage(m, r)
        BY <4>2, EndStageEffect
      <4>. QED
        BY <2>5, <4>1, <4>2, LeftRequests DEF KeepKey
    <3>3. \A n \in Members \ {m} : postgres'[n] = postgres[n]
      BY <2>5 DEF KeepKey, BecomePrimary, FailoverTypeOK
    <3>4. OwnerInv'
      BY <3>1, <3>2, <3>3 DEF OwnerInv
    <3>5. \A n \in Members : stage'[n] # "won"
      BY <3>1, <3>2 DEF OwnerInv
    <3>. QED
      BY <3>1, <3>4, <3>5 DEF LossInv
  <2>6. ASSUME NEW m \in Members, LosesKey(m) PROVE OwnerInv' /\ LossInv'
    BY <2>6, LeftRequests, EndStageEffect, QuietStep DEF LosesKey
  <2>7. ASSUME NEW m \in Members, GiveBackInPause(m) PROVE OwnerInv' /\ LossInv'
    <3>1. EndStage(m, request) /\ UNCHANGED <<optime, position, postgres>>
      BY <2>7 DEF GiveBackInPause
    <3>2. CASE owner' = m
      BY <2>7, <3>1, <3>2, LeftRequests, EndStageEffect, QuietStep DEF GiveBackInPause
    <3>3. CASE owner' = NoMember
      <4>1. ~Racing /\ owner = m /\ postgres[m] = "replica"
        BY <2>7, <3>3, NoMemberAssumption DEF GiveBackInPause
      <4>. QED
        BY <3>1, <3>3, <4>1, LeftRequests, EndStageEffect, NoMemberAssumption
        DEF OwnerInv, LossInv, Racing
    <3>. QED
      BY <2>7, <3>2, <3>3 DEF GiveBackInPause
  <2>8. ASSUME NEW m \in Members, HandOver(m) PROVE OwnerInv' /\ LossInv'
    <3>1. /\ EndStage(m, request) /\ owner' = NoMember /\ ~Racing
          /\ postgres' = [postgres EXCEPT ![m] = "replica"] /\ owner = m
      BY <2>8 DEF HandOver, OwnerInv
    <3>. QED
      BY <3>1, LeftRequests, EndStageEffect, NoMemberAssumption
      DEF OwnerInv, LossInv, Racing, FailoverTypeOK
  <2>9. ASSUME NEW m \in Members, Crash(m) PROVE OwnerInv' /\ LossInv'
    <3>1. \A n \in Members : postgres'[n] = "primary" => postgres[n] = "primary"
      BY <2>9 DEF Crash, FailoverTypeOK
    <3>. QED
      BY <2>9, <3>1, LeftRequests, EndStageEffect, QuietStep DEF Crash
  <2>10. ASSUME NEW m \in Members, ComesBack(m) PROVE OwnerInv' /\ LossInv'
    <3>1. \A n \in Members : postgres'[n] = "primary" => postgres[n] = "primary"
      BY <2>10 DEF ComesBack, FailoverTypeOK
    <3>. QED
      BY <2>10, <3>1, QuietStep DEF ComesBack
  <2>11. ASSUME NEW m \in Members, LosesWatchdog(m) PROVE OwnerInv' /\ LossInv'
    BY <2>11, QuietStep DEF LosesWatchdog
  <2>12. ASSUME NEW m \in Members, Commits(m) \/ Replicate(m) PROVE OwnerInv' /\ LossInv'
    <3>1. UNCHANGED <<owner, optime, stage, view, postgres>>
      BY <2>12 DEF Commits, Replicate
    <3>2. \A n \in Members : owner \in {n, NoMember} /\ Close(n) => Close(n)'
      BY <2>12, <3>1, PositionsMove
    <3>3. OwnerInv'
      BY <3>1 DEF OwnerInv
    <3>4. \A n \in Members : stage[n] = "won" => owner = n
      BY DEF OwnerInv
    <3>5. LossInv'
      BY <3>1, <3>2, <3>4 DEF LossInv
    <3>. QED
      BY <3>3, <3>5
  <2>14. ASSUME NEW m \in Members, NameStandby(m) PROVE OwnerInv' /\ LossInv'
    BY <2>14, QuietStep DEF NameStandby
  <2>15. ASSUME NEW r \in NewRequests, NEW a \in {"failover", "switchover"}, PostRequest(a, r)
         PROVE  OwnerInv' /\ LossInv'
    BY <2>15, <2>f, RequestEffect, QuietStep DEF PostRequest
  <2>16. ASSUME NEW r \in NewRequests, CtlRequest(r) PROVE OwnerInv' /\ LossInv'
    BY <2>16, <2>f, RequestEffect, QuietStep DEF CtlRequest
  <2>17. CASE FlushRequest
    BY <2>17, ConstantTypes, RequestEffect, QuietStep DEF FlushRequest
  <2>18. CASE TimePasses
    <3>1. UNCHANGED <<owner, optime, position, postgres, stage>>
      BY <2>18 DEF TimePasses
    <3>. QED
      BY <2>18, <3>1, TimeTypes, QuietStep
  <2>19. CASE TogglePause
    BY <2>19, QuietStep DEF TogglePause
  <2>20. CASE KeyExpires
    <3>1. /\ owner \in Members /\ owner' = NoMember /\ ~Racing
          /\ postgres[owner] # "primary" /\ stage[owner] # "demoting"
          /\ UNCHANGED <<stage, postgres, view, optime, position>>
      BY <2>20 DEF KeyExpires, FailoverTypeOK, Someone
    <3>. QED
      BY <3>1, NoMemberAssumption DEF OwnerInv, LossInv, Racing
  <2>21. CASE UNCHANGED failoverVars
    BY <2>21, QuietStep DEF failoverVars
  <2>. QED
    BY <2>1, <2>2, <2>3, <2>4, <2>5, <2>6, <2>7, <2>8, <2>9, <2>10, <2>11, <2>12,
       <2>14, <2>15, <2>16, <2>17, <2>18, <2>19, <2>20, <2>21 DEF FailoverNext, FailoverLoop
<1>. QED
  BY <1>1, <1>2, FailoverTypes, PTL DEF FailoverSpec, FailoverInv

(* A member that wins the race without a request lags no more than
   maximum_lag_on_failover behind what a leader has last published, if no member is so
   slow that a whole term of another leader passes while it races. *)
THEOREM FailoverLossIsBounded ==
    ASSUME ~SlowRace
    PROVE  FailoverSpec => []LossIsBounded
<1>1. FailoverInv => LossIsBounded
  BY DEF FailoverInv, LossInv, LossIsBounded, Close
<1>. QED
  BY <1>1, FailoverInductive, PTL

-----------------------------------------------------------------------------
(* The leader key. *)

(* The leader key and the primaries, as LeaderLease sees them. This module begins when
   a leader has been elected, in the middle of a behaviour of the lease. *)
writers == {m \in Members : postgres[m] = "primary"}

Lease == INSTANCE LeaderLease WITH Nodes <- Members, NoNode <- NoMember
KeepsTheLease == [][Lease!Next]_(Lease!vars)

(* The key moves from a member only through the state without owner, and it gets an owner
   in a step that does not touch Postgres. *)
LEMMA FailoverKeyMoves ==
    ASSUME FailoverTypeOK, FailoverNext, owner' # owner
    PROVE  owner' = NoMember \/ (owner = NoMember /\ owner' \in Members /\ postgres' = postgres)
<1>. USE DEF failoverNodes
<1>1. ASSUME NEW m \in Members, FailoverLoop(m)
      PROVE  owner' = NoMember \/ (owner = NoMember /\ owner' \in Members /\ postgres' = postgres)
  <2>1. CASE TakeKey(m)
    BY <2>1 DEF TakeKey
  <2>2. CASE GiveBackInPause(m) \/ HandOver(m)
    BY <2>2 DEF GiveBackInPause, HandOver
  <2>3. CASE JoinRace(m) \/ PromoteWinner(m) \/ ReadAsLeader(m) \/ KeepKey(m) \/ LosesKey(m)
    BY <2>3 DEF JoinRace, PromoteWinner, ReadAsLeader, KeepKey, LosesKey
  <2>. QED
    BY <1>1, <2>1, <2>2, <2>3 DEF FailoverLoop
<1>2. ASSUME NEW m \in Members,
             \/ Crash(m) \/ ComesBack(m) \/ LosesWatchdog(m)
             \/ Commits(m) \/ Replicate(m) \/ NameStandby(m)
      PROVE  FALSE
  BY <1>2 DEF Crash, ComesBack, LosesWatchdog, Commits, Replicate, NameStandby
<1>3. ASSUME NEW r, (\E a \in {"failover", "switchover"} : PostRequest(a, r)) \/ CtlRequest(r)
      PROVE  FALSE
  BY <1>3 DEF PostRequest, CtlRequest
<1>4. CASE FlushRequest \/ TimePasses \/ TogglePause
  BY <1>4 DEF FlushRequest, TimePasses, TogglePause
<1>5. CASE KeyExpires
  BY <1>5 DEF KeyExpires
<1>. QED
  BY <1>1, <1>2, <1>3, <1>4, <1>5 DEF FailoverNext

(* Elections, requests and handovers move the leader key and the roles of Postgres only as
   LeaderLease allows: nobody is promoted without the key, and the key is not taken from
   under a primary. *)
THEOREM FailoverKeepsTheLease ==
    ASSUME ~SlowRace
    PROVE  FailoverSpec => KeepsTheLease
<1>1. FailoverInv /\ FailoverInv' /\ [FailoverNext]_failoverVars => [Lease!Next]_(Lease!vars)
  <2>. SUFFICES ASSUME FailoverInv, FailoverInv', [FailoverNext]_failoverVars
                PROVE  Lease!Next \/ UNCHANGED <<owner, writers>>
    BY DEF Lease!vars
  <2>1. /\ writers \subseteq {owner} /\ writers' \subseteq {owner'}
        /\ writers \cup writers' \subseteq Members
    BY DEF FailoverInv, OwnerInv, writers
  <2>2. CASE owner' = owner
    <3>1. CASE writers' = writers
      BY <2>2, <3>1
    <3>2. CASE writers = {} /\ writers' = {owner}
      BY <2>1, <2>2, <3>2 DEF Lease!Next, Lease!Promote
    <3>3. CASE writers # {} /\ writers' = {}
      BY <2>2, <3>3 DEF Lease!Next, Lease!StepDown
    <3>. QED
      BY <2>1, <2>2, <3>1, <3>2, <3>3
  <2>3. CASE owner' # owner
    <3>1. owner' = NoMember \/ (owner = NoMember /\ owner' \in Members /\ postgres' = postgres)
      BY <2>3, FailoverKeyMoves DEF FailoverInv, failoverVars
    <3>2. CASE owner' = NoMember
      <4>1. writers' = {}
        BY <2>1, <3>2, NoMemberAssumption
      <4>. QED
        BY <3>2, <4>1 DEF Lease!Next, Lease!StepDown, Lease!Release
    <3>3. CASE owner = NoMember /\ owner' \in Members /\ postgres' = postgres
      <4>1. writers = {} /\ writers' = writers
        BY <2>1, <3>3, NoMemberAssumption DEF writers
      <4>. QED
        BY <3>3, <4>1 DEF Lease!Next, Lease!Acquire
    <3>. QED
      BY <3>1, <3>2, <3>3
  <2>. QED
    BY <2>2, <2>3
<1>. QED
  BY <1>1, FailoverInductive, PTL DEF FailoverSpec, KeepsTheLease
=============================================================================
