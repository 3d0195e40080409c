------------------------------ MODULE HaProofs ------------------------------
(***************************************************************************)
(* Proofs about Ha for every set of nodes and every timing that respects   *)
(* TimingAssumption: types, and, when no unguarded overlap of two threads  *)
(* happens, that a writer is fenced, that there is at most one, and that   *)
(* the leader key and the roles of Postgres implement LeaderLease.         *)
(***************************************************************************)
EXTENDS HaInvariant, TLAPS

(* The answers of the DCS keep the key well-typed. *)
LEMMA DcsTypes ==
    ASSUME TypeOK, NEW n \in Nodes,
           KeyCreated(n) \/ KeyRefreshed(n) \/ KeyDeleted(n) \/ UNCHANGED dcs
    PROVE  leader' \in Nodes \cup {NoNode} /\ ttl' \in 0..TTL
BY TimingAssumption DEF TypeOK, KeyCreated, KeyRefreshed, KeyDeleted, dcs

LEMMA WatchdogTimeoutType == WatchdogTimeout \in Nat /\ 0 < WatchdogTimeout
BY TimingAssumption DEF WatchdogTimeout

(* A step of the HA loop keeps the types. *)
LEMMA LoopStepTypes ==
    ASSUME TypeOK, NEW n \in Nodes, LoopStep(n)
    PROVE  TypeOK'
<1> USE WatchdogTimeoutType, DcsTypes
    DEF TypeOK, dcs, host, loop, job, Continue, CanAct, Pcs, Views, PgStates,
        Roles, DemoteModes, Tasks
<1>1. CASE LoadCluster(n) BY <1>1 DEF LoadCluster
<1>2. CASE DcsError(n) BY <1>2 DEF DcsError, BeginDemote, Signalled, Writable
<1>3. CASE PostRecover(n)
  <2>1. KeyDeleted(n) \/ UNCHANGED dcs BY <1>3 DEF PostRecover, DisableWatchdog, DeleteLeader
  <2>2. leader' \in Nodes \cup {NoNode} /\ ttl' \in 0..TTL BY <2>1, DcsTypes
  <2>3. pg' \in [Nodes -> PgStates] /\ dataDir' \in [Nodes -> {"primary", "replica"}]
    BY <1>3 DEF PostRecover, DisableWatchdog, DeleteLeader
  <2>4. wd' \in [Nodes -> 0..WatchdogTimeout] /\ wdOpen' \in [Nodes -> BOOLEAN]
    <3>1. CASE pg[n] = "stopped"
      <4>1. DisableWatchdog(n) BY <1>3, <3>1 DEF PostRecover
      <4> QED BY <4>1 DEF DisableWatchdog
    <3>2. CASE pg[n] # "stopped" BY <1>3, <3>2 DEF PostRecover
    <3> QED BY <3>1, <3>2
  <2>5. /\ pc' \in [Nodes -> Pcs] /\ mode' \in [Nodes -> DemoteModes]
        /\ recovering' \in [Nodes -> BOOLEAN]
    BY <1>3 DEF PostRecover, DisableWatchdog, DeleteLeader
  <2>6. /\ role' \in [Nodes -> Roles] /\ task' \in [Nodes -> Tasks]
        /\ prePromoteFailed' \in [Nodes -> BOOLEAN]
    BY <1>3 DEF PostRecover, DisableWatchdog, DeleteLeader
  <2> QED BY <2>2, <2>3, <2>4, <2>5, <2>6
<1>4. CASE Recover(n)
  <2>1. KeyRefreshed(n) \/ UNCHANGED dcs BY <1>4 DEF Recover, DisableWatchdog
  <2>2. leader' \in Nodes \cup {NoNode} /\ ttl' \in 0..TTL BY <2>1, DcsTypes
  <2>3. pg' \in [Nodes -> PgStates] /\ dataDir' \in [Nodes -> {"primary", "replica"}]
    BY <1>4 DEF Recover, DisableWatchdog
  <2>4. wd' \in [Nodes -> 0..WatchdogTimeout] /\ wdOpen' \in [Nodes -> BOOLEAN]
    BY <1>4 DEF Recover, DisableWatchdog
  <2>5. /\ pc' \in [Nodes -> Pcs] /\ mode' \in [Nodes -> DemoteModes]
        /\ recovering' \in [Nodes -> BOOLEAN]
    BY <1>4 DEF Recover, DisableWatchdog
  <2>6. /\ role' \in [Nodes -> Roles] /\ task' \in [Nodes -> Tasks]
        /\ prePromoteFailed' \in [Nodes -> BOOLEAN]
    BY <1>4 DEF Recover, DisableWatchdog
  <2> QED BY <2>2, <2>3, <2>4, <2>5, <2>6
<1>5. CASE QueryFails(n) BY <1>5 DEF QueryFails
<1>6. CASE JoinLeaderRace(n) BY <1>6 DEF JoinLeaderRace
<1>7. CASE FollowAfterRace(n) BY <1>7 DEF FollowAfterRace, FollowLeader, BeginDemote, Signalled, Writable
<1>8. CASE FollowOther(n) BY <1>8 DEF FollowOther, FollowLeader, BeginDemote, Signalled, Writable
<1>9. CASE UpdateLock(n) BY <1>9 DEF UpdateLock, UpdateLeader
<1>10. CASE FailedToUpdateLock(n) BY <1>10 DEF FailedToUpdateLock, BeginDemote, Signalled, Writable
<1>11. CASE TakeOver(n)
  <2>1. KeyDeleted(n) \/ UNCHANGED dcs BY <1>11 DEF TakeOver, EnforceMasterRole, DeleteLeader, BeginDemote, Signalled, Writable
  <2>2. leader' \in Nodes \cup {NoNode} /\ ttl' \in 0..TTL BY <2>1, DcsTypes
  <2>3. pg' \in [Nodes -> PgStates] /\ dataDir' \in [Nodes -> {"primary", "replica"}]
    BY <1>11 DEF TakeOver, EnforceMasterRole, DeleteLeader, BeginDemote, Signalled, Writable
  <2>4. wd' \in [Nodes -> 0..WatchdogTimeout] /\ wdOpen' \in [Nodes -> BOOLEAN]
    <3>1. /\ wd' = wd \/ (\E v \in {wd[n], WatchdogTimeout} : wd' = [wd EXCEPT ![n] = v])
          /\ wdOpen' = wdOpen \/ wdOpen' = [wdOpen EXCEPT ![n] = TRUE]
      BY <1>11 DEF TakeOver, EnforceMasterRole
    <3>2. {wd[n], WatchdogTimeout} \subseteq 0..WatchdogTimeout OBVIOUS
    <3>3. wd' \in [Nodes -> 0..WatchdogTimeout]
      <4>1. CASE wd' = wd BY <4>1
      <4>2. ASSUME NEW v \in 0..WatchdogTimeout, wd' = [wd EXCEPT ![n] = v]
            PROVE  wd' \in [Nodes -> 0..WatchdogTimeout]
        BY <4>2
      <4> QED BY <3>1, <3>2, <4>1, <4>2
    <3> QED BY <3>1, <3>3
  <2>5. /\ pc' \in [Nodes -> Pcs] /\ mode' \in [Nodes -> DemoteModes]
        /\ recovering' \in [Nodes -> BOOLEAN]
    BY <1>11 DEF TakeOver, EnforceMasterRole, DeleteLeader, BeginDemote, Signalled, Writable
  <2>6. /\ role' \in [Nodes -> Roles] /\ task' \in [Nodes -> Tasks]
        /\ prePromoteFailed' \in [Nodes -> BOOLEAN]
    BY <1>11 DEF TakeOver, EnforceMasterRole, DeleteLeader, BeginDemote, Signalled, Writable
  <2> QED BY <2>2, <2>3, <2>4, <2>5, <2>6
<1>12. CASE KeepLock(n)
  <2>1. KeyDeleted(n) \/ UNCHANGED dcs BY <1>12 DEF KeepLock, EnforceMasterRole, Kept, DeleteLeader, BeginDemote, Signalled, Writable
  <2>2. leader' \in Nodes \cup {NoNode} /\ ttl' \in 0..TTL BY <2>1, DcsTypes
  <2>3. pg' \in [Nodes -> PgStates] /\ dataDir' \in [Nodes -> {"primary", "replica"}]
    BY <1>12 DEF KeepLock, EnforceMasterRole, Kept, DeleteLeader, BeginDemote, Signalled, Writable
  <2>4. wd' \in [Nodes -> 0..WatchdogTimeout] /\ wdOpen' \in [Nodes -> BOOLEAN]
    <3>1. /\ wd' = wd \/ (\E v \in {wd[n], WatchdogTimeout} : wd' = [wd EXCEPT ![n] = v])
          /\ wdOpen' = wdOpen \/ wdOpen' = [wdOpen EXCEPT ![n] = TRUE]
      BY <1>12 DEF KeepLock, EnforceMasterRole, Kept
    <3>2. {wd[n], WatchdogTimeout} \subseteq 0..WatchdogTimeout OBVIOUS
    <3>3. wd' \in [Nodes -> 0..WatchdogTimeout]
      <4>1. CASE wd' = wd BY <4>1
      <4>2. ASSUME NEW v \in 0..WatchdogTimeout, wd' = [wd EXCEPT ![n] = v]
            PROVE  wd' \in [Nodes -> 0..WatchdogTimeout]
        BY <4>2
      <4> QED BY <3>1, <3>2, <4>1, <4>2
    <3> QED BY <3>1, <3>3
  <2>5. /\ pc' \in [Nodes -> Pcs] /\ mode' \in [Nodes -> DemoteModes]
        /\ recovering' \in [Nodes -> BOOLEAN]
    BY <1>12 DEF KeepLock, EnforceMasterRole, Kept, DeleteLeader, BeginDemote, Signalled, Writable
  <2>6. /\ role' \in [Nodes -> Roles] /\ task' \in [Nodes -> Tasks]
        /\ prePromoteFailed' \in [Nodes -> BOOLEAN]
    BY <1>12, ZenonT(30)
    DEF KeepLock, EnforceMasterRole, Kept, DeleteLeader, BeginDemote, Signalled, Writable
  <2> QED BY <2>2, <2>3, <2>4, <2>5, <2>6
<1>13. CASE UpdateLockWhileBusy(n) BY <1>13 DEF UpdateLockWhileBusy, UpdateLeader
<1>14. CASE KeepLockWhileBusy(n) BY <1>14 DEF KeepLockWhileBusy, Kept
<1>15. CASE LostLockWhileBusy(n) BY <1>15 DEF LostLockWhileBusy, BeginDemote, Signalled, Writable
<1>16. CASE StopDone(n) BY <1>16 DEF StopDone, Stopped, DisableWatchdog
<1>17. CASE DemoteDone(n) BY <1>17 DEF DemoteDone, DeleteLeader
<1>18. CASE Shutdown(n) BY <1>18 DEF Shutdown, Signalled, Writable
<1>19. CASE ShutdownDone(n) BY <1>19 DEF ShutdownDone, Stopped, DisableWatchdog, DeleteLeader
<1> QED
  BY <1>1, <1>2, <1>3, <1>4, <1>5, <1>6, <1>7, <1>8, <1>9, <1>10, <1>11, <1>12, <1>13,
     <1>14, <1>15, <1>16, <1>17, <1>18, <1>19 DEF LoopStep

(* A step of the background task keeps the types. *)
LEMMA TaskStepTypes ==
    ASSUME TypeOK, NEW n \in Nodes, TaskStep(n)
    PROVE  TypeOK'
<1> USE DEF TypeOK, dcs, host, loop, job, PgStates, Roles, Tasks
<1>1. CASE PrePromote(n) BY <1>1 DEF PrePromote
<1>2. CASE Promote(n) BY <1>2 DEF Promote
<1>3. CASE PromoteSetsRole(n) BY <1>3 DEF PromoteSetsRole
<1>4. CASE Restart(n) BY <1>4 DEF Restart
<1>5. CASE RestartStop(n) BY <1>5 DEF RestartStop
<1>6. CASE RestartStart(n) BY <1>6 DEF RestartStart
<1>7. CASE Follow(n) BY <1>7 DEF Follow
<1>8. CASE GracefulStop(n) BY <1>8 DEF GracefulStop, Signalled
<1>9. CASE GracefulStopped(n) BY <1>9, WatchdogTimeoutType DEF GracefulStopped, Stopped, DisableWatchdog
<1>10. CASE GracefulRelease(n) BY <1>10, DcsTypes DEF GracefulRelease, DeleteLeader
<1>11. CASE TaskFinished(n) BY <1>11 DEF TaskFinished
<1> QED
  BY <1>1, <1>2, <1>3, <1>4, <1>5, <1>6, <1>7, <1>8, <1>9, <1>10, <1>11 DEF TaskStep

(* What happens around the Patroni process keeps the types. *)
LEMMA EnvironmentStepTypes ==
    ASSUME TypeOK, NEW n \in Nodes, EnvironmentStep(n)
    PROVE  TypeOK'
<1> USE DEF TypeOK, dcs, host, loop, job, PgStates, Roles, Tasks, Pcs, DemoteModes
<1>1. CASE PostgresStops(n) BY <1>1 DEF PostgresStops
<1>2. CASE PatroniEnds(n) BY <1>2 DEF PatroniEnds, ProcessesGone
<1>3. CASE PatroniStart(n) BY <1>3 DEF PatroniStart, Continue
<1> QED BY <1>1, <1>2, <1>3 DEF EnvironmentStep

LEMMA TickTypes ==
    ASSUME TypeOK, Tick
    PROVE  TypeOK'
<1>1. leader' \in Nodes \cup {NoNode} /\ ttl' \in 0..TTL
  BY TimingAssumption DEF TypeOK, Tick
<1>2. wd' \in [Nodes -> 0..WatchdogTimeout]
  BY WatchdogTimeoutType DEF TypeOK, Tick
<1>3. QED
  BY <1>1, <1>2 DEF TypeOK, Tick, ProcessesGone, PgStates, Roles, Tasks, Pcs, DemoteModes

(* Every variable keeps its type: the timers stay within their ranges, and each
   thread is at a place that exists. *)
THEOREM TypeCorrect == Spec => []TypeOK
<1>1. Init => TypeOK
  BY TimingAssumption, WatchdogTimeoutType
  DEF Init, TypeOK, PgStates, Roles, Tasks, Pcs, DemoteModes
<1>2. TypeOK /\ [Next]_vars => TypeOK'
  <2>1. ASSUME TypeOK, NEW n \in Nodes, LoopStep(n) \/ TaskStep(n) \/ EnvironmentStep(n)
        PROVE  TypeOK'
    BY <2>1, LoopStepTypes, TaskStepTypes, EnvironmentStepTypes
  <2>2. ASSUME TypeOK, UNCHANGED vars PROVE TypeOK'
    BY <2>2 DEF TypeOK, vars
  <2> QED BY <2>1, <2>2, TickTypes DEF Next
<1> QED BY <1>1, <1>2, PTL DEF Spec

-----------------------------------------------------------------------------
(* The point of safety_margin: whoever handles an answer in time can set the watchdog
   and will still be reset before the key expires. *)
LEMMA RenewalCoversWatchdog == WatchdogTimeout <= TTL - MaxDelay
BY TimingAssumption DEF WatchdogTimeout

(* What one step of n can do to the leader key. *)
DcsStep(n) == UNCHANGED dcs \/ KeyCreated(n) \/ KeyRefreshed(n) \/ KeyDeleted(n)

(* A step that leaves the host and the process of m alone. *)
Same(m) ==
    /\ pg'[m] = pg[m] /\ dataDir'[m] = dataDir[m] /\ wd'[m] = wd[m]
    /\ pc'[m] = pc[m] /\ mode'[m] = mode[m] /\ wdOpen'[m] = wdOpen[m]
    /\ role'[m] = role[m] /\ task'[m] = task[m]
    /\ prePromoteFailed'[m] = prePromoteFailed[m]

(* A step of n does not disturb the invariant of another node. *)
LEMMA OthersUndisturbed ==
    ASSUME TypeOK, NEW n \in Nodes, NEW m \in Nodes \ {n}, NodeInv(m), DcsStep(n), Same(m)
    PROVE  NodeInv(m)'
<1>1. Fenced(m) => leader' = leader /\ ttl' = ttl
  BY NodesAssumption DEF Fenced, DcsStep, dcs, KeyCreated, KeyRefreshed, KeyDeleted
<1>2. AwaitsRenewal(m) => leader' = leader /\ ttl' = ttl
  BY NodesAssumption
  DEF NodeInv, DeviceInv, DcsStep, dcs, KeyCreated, KeyRefreshed, KeyDeleted
<1>3. MayWrite(m)' <=> MayWrite(m)
  BY DEF MayWrite, Writable, Same
<1>4. (MayWrite(m) => Fenced(m))' BY <1>1, <1>3 DEF NodeInv, Fenced, Same
<1>5. DeviceInv(m)' BY <1>2 DEF NodeInv, DeviceInv, AwaitsRenewal, Same
<1>6. PostgresInv(m)' BY <1>3 DEF NodeInv, PostgresInv, Writable, Same
<1>7. LoopInv(m)' BY DEF NodeInv, LoopInv, Writable, Busy, Same
<1> QED BY <1>4, <1>5, <1>6, <1>7 DEF NodeInv

(* A step of the HA loop touches its own node and the key only. *)
LEMMA LoopStepFrame ==
    ASSUME TypeOK, NEW n \in Nodes, LoopStep(n)
    PROVE  DcsStep(n) /\ \A m \in Nodes \ {n} : Same(m)
<1> USE DEF TypeOK, DcsStep, Same, dcs, host, loop, job, Continue
<1>1. CASE LoadCluster(n) BY <1>1 DEF LoadCluster
<1>2. CASE DcsError(n) BY <1>2 DEF DcsError, BeginDemote
<1>3. CASE PostRecover(n) BY <1>3 DEF PostRecover, DisableWatchdog, DeleteLeader
<1>4. CASE Recover(n) BY <1>4 DEF Recover, DisableWatchdog
<1>5. CASE QueryFails(n) BY <1>5 DEF QueryFails
<1>6. CASE JoinLeaderRace(n) BY <1>6 DEF JoinLeaderRace
<1>7. CASE FollowAfterRace(n) BY <1>7 DEF FollowAfterRace, FollowLeader, BeginDemote
<1>8. CASE FollowOther(n) BY <1>8 DEF FollowOther, FollowLeader, BeginDemote
<1>9. CASE UpdateLock(n) BY <1>9 DEF UpdateLock, UpdateLeader
<1>10. CASE FailedToUpdateLock(n) BY <1>10 DEF FailedToUpdateLock, BeginDemote
<1>11. CASE TakeOver(n) BY <1>11 DEF TakeOver, EnforceMasterRole, DeleteLeader, BeginDemote
<1>12. CASE KeepLock(n) BY <1>12 DEF KeepLock, EnforceMasterRole, Kept, DeleteLeader, BeginDemote
<1>13. CASE UpdateLockWhileBusy(n) BY <1>13 DEF UpdateLockWhileBusy, UpdateLeader
<1>14. CASE KeepLockWhileBusy(n) BY <1>14 DEF KeepLockWhileBusy, Kept
<1>15. CASE LostLockWhileBusy(n) BY <1>15 DEF LostLockWhileBusy, BeginDemote
<1>16. CASE StopDone(n) BY <1>16 DEF StopDone, Stopped, DisableWatchdog
<1>17. CASE DemoteDone(n) BY <1>17 DEF DemoteDone, DeleteLeader
<1>18. CASE Shutdown(n) BY <1>18 DEF Shutdown
<1>19. CASE ShutdownDone(n) BY <1>19 DEF ShutdownDone, Stopped, DisableWatchdog, DeleteLeader
<1> QED
  BY <1>1, <1>2, <1>3, <1>4, <1>5, <1>6, <1>7, <1>8, <1>9, <1>10, <1>11, <1>12, <1>13, <1>14, <1>15, <1>16, <1>17, <1>18, <1>19 DEF LoopStep

(* A step of the background task touches its own node and the key only. *)
LEMMA TaskStepFrame ==
    ASSUME TypeOK, NEW n \in Nodes, TaskStep(n)
    PROVE  DcsStep(n) /\ \A m \in Nodes \ {n} : Same(m)
<1> USE DEF TypeOK, DcsStep, Same, dcs, host, loop, job, Continue
<1>1. CASE PrePromote(n) BY <1>1 DEF PrePromote
<1>2. CASE Promote(n) BY <1>2 DEF Promote
<1>3. CASE PromoteSetsRole(n) BY <1>3 DEF PromoteSetsRole
<1>4. CASE Restart(n) BY <1>4 DEF Restart
<1>5. CASE RestartStop(n) BY <1>5 DEF RestartStop
<1>6. CASE RestartStart(n) BY <1>6 DEF RestartStart
<1>7. CASE Follow(n) BY <1>7 DEF Follow
<1>8. CASE GracefulStop(n) BY <1>8 DEF GracefulStop
<1>9. CASE GracefulStopped(n) BY <1>9 DEF GracefulStopped, Stopped, DisableWatchdog
<1>10. CASE GracefulRelease(n) BY <1>10 DEF GracefulRelease, DeleteLeader, ExecutorLockFree
<1>11. CASE TaskFinished(n) BY <1>11 DEF TaskFinished, ExecutorLockFree
<1> QED
  BY <1>1, <1>2, <1>3, <1>4, <1>5, <1>6, <1>7, <1>8, <1>9, <1>10, <1>11 DEF TaskStep

(* A step of the environment touches its own node and the key only. *)
LEMMA EnvironmentStepFrame ==
    ASSUME TypeOK, NEW n \in Nodes, EnvironmentStep(n)
    PROVE  DcsStep(n) /\ \A m \in Nodes \ {n} : Same(m)
<1> USE DEF TypeOK, DcsStep, Same, dcs, host, loop, job, Continue
<1>1. CASE PostgresStops(n) BY <1>1 DEF PostgresStops
<1>2. CASE PatroniEnds(n) BY <1>2 DEF PatroniEnds, ProcessesGone
<1>3. CASE PatroniStart(n) BY <1>3 DEF PatroniStart
<1> QED
  BY <1>1, <1>2, <1>3 DEF EnvironmentStep

(* A step of the HA loop keeps the invariant of its node. *)
LEMMA LoopStepInv ==
    ASSUME Races = {}, TypeOK, NEW n \in Nodes, NodeInv(n), LoopStep(n)
    PROVE  NodeInv(n)'
<1> USE WatchdogTimeoutType, RenewalCoversWatchdog, TimingAssumption, NodesAssumption
    DEF TypeOK, NodeInv, MayWrite, Writable, Fenced, DeviceInv, PostgresInv, LoopInv,
        AwaitsRenewal, Busy, CanAct, Views, PromoteTasks, RestartTasks, Continue,
        KeyCreated, KeyRefreshed, KeyDeleted, Signalled, dcs, host, loop, job
<1>1. CASE LoadCluster(n) BY <1>1 DEF LoadCluster
<1>2. CASE DcsError(n) BY <1>2 DEF DcsError, BeginDemote
<1>3. CASE PostRecover(n) BY <1>3 DEF PostRecover, DisableWatchdog, DeleteLeader
<1>4. CASE Recover(n) BY <1>4 DEF Recover, DisableWatchdog
<1>5. CASE QueryFails(n) BY <1>5 DEF QueryFails
<1>6. CASE JoinLeaderRace(n) BY <1>6 DEF JoinLeaderRace
<1>7. CASE FollowAfterRace(n) BY <1>7 DEF FollowAfterRace, FollowLeader, BeginDemote
<1>8. CASE FollowOther(n) BY <1>8 DEF FollowOther, FollowLeader, BeginDemote
<1>9. CASE UpdateLock(n) BY <1>9 DEF UpdateLock, UpdateLeader
<1>10. CASE FailedToUpdateLock(n) BY <1>10 DEF FailedToUpdateLock, BeginDemote
<1>11. CASE TakeOver(n) BY <1>11 DEF TakeOver, EnforceMasterRole, DeleteLeader, BeginDemote, PgStates
<1>12. CASE KeepLock(n) BY <1>12 DEF KeepLock, EnforceMasterRole, Kept, DeleteLeader, BeginDemote, PgStates
<1>13. CASE UpdateLockWhileBusy(n) BY <1>13 DEF UpdateLockWhileBusy, UpdateLeader
<1>14. CASE KeepLockWhileBusy(n) BY <1>14 DEF KeepLockWhileBusy, Kept
<1>15. CASE LostLockWhileBusy(n) BY <1>15 DEF LostLockWhileBusy, BeginDemote
<1>16. CASE StopDone(n) BY <1>16 DEF StopDone, Stopped, DisableWatchdog
<1>17. CASE DemoteDone(n) BY <1>17 DEF DemoteDone, DeleteLeader
<1>18. CASE Shutdown(n) BY <1>18 DEF Shutdown
<1>19. CASE ShutdownDone(n) BY <1>19 DEF ShutdownDone, Stopped, DisableWatchdog, DeleteLeader
<1> QED
  BY <1>1, <1>2, <1>3, <1>4, <1>5, <1>6, <1>7, <1>8, <1>9, <1>10, <1>11, <1>12, <1>13, <1>14, <1>15, <1>16, <1>17, <1>18, <1>19 DEF LoopStep

(* A step of the background task keeps the invariant of its node. *)
LEMMA TaskStepInv ==
    ASSUME Races = {}, TypeOK, NEW n \in Nodes, NodeInv(n), TaskStep(n)
    PROVE  NodeInv(n)'
<1> USE WatchdogTimeoutType, RenewalCoversWatchdog, TimingAssumption, NodesAssumption
    DEF TypeOK, NodeInv, MayWrite, Writable, Fenced, DeviceInv, PostgresInv, LoopInv,
        AwaitsRenewal, Busy, CanAct, Views, PromoteTasks, RestartTasks, Continue,
        KeyCreated, KeyRefreshed, KeyDeleted, Signalled, dcs, host, loop, job
<1>1. CASE PrePromote(n) BY <1>1 DEF PrePromote
<1>2. CASE Promote(n) BY <1>2 DEF Promote
<1>3. CASE PromoteSetsRole(n) BY <1>3 DEF PromoteSetsRole
<1>4. CASE Restart(n) BY <1>4 DEF Restart, PgStates
<1>5. CASE RestartStop(n) BY <1>5 DEF RestartStop
<1>6. CASE RestartStart(n) BY <1>6 DEF RestartStart
<1>7. CASE Follow(n) BY <1>7 DEF Follow
<1>8. CASE GracefulStop(n) BY <1>8 DEF GracefulStop
<1>9. CASE GracefulStopped(n) BY <1>9 DEF GracefulStopped, Stopped, DisableWatchdog
<1>10. CASE GracefulRelease(n) BY <1>10 DEF GracefulRelease, DeleteLeader, ExecutorLockFree
<1>11. CASE TaskFinished(n) BY <1>11 DEF TaskFinished, ExecutorLockFree
<1> QED
  BY <1>1, <1>2, <1>3, <1>4, <1>5, <1>6, <1>7, <1>8, <1>9, <1>10, <1>11 DEF TaskStep

(* A step of the environment keeps the invariant of its node. *)
LEMMA EnvironmentStepInv ==
    ASSUME Races = {}, TypeOK, NEW n \in Nodes, NodeInv(n), EnvironmentStep(n)
    PROVE  NodeInv(n)'
<1> USE WatchdogTimeoutType, RenewalCoversWatchdog, TimingAssumption, NodesAssumption
    DEF TypeOK, NodeInv, MayWrite, Writable, Fenced, DeviceInv, PostgresInv, LoopInv,
        AwaitsRenewal, Busy, CanAct, Views, PromoteTasks, RestartTasks, Continue,
        KeyCreated, KeyRefreshed, KeyDeleted, Signalled, dcs, host, loop, job
<1>1. CASE PostgresStops(n) BY <1>1 DEF PostgresStops
<1>2. CASE PatroniEnds(n) BY <1>2 DEF PatroniEnds, ProcessesGone
<1>3. CASE PatroniStart(n) BY <1>3 DEF PatroniStart
<1> QED
  BY <1>1, <1>2, <1>3 DEF EnvironmentStep

(* A tick takes the watchdog of a node no further than its key: the device of a
   writer fires, and resets the host, before the key is gone. *)
LEMMA TickInv ==
    ASSUME TypeOK, NEW n \in Nodes, NodeInv(n), Tick
    PROVE  NodeInv(n)'
<1> USE TimingAssumption, NodesAssumption, WatchdogTimeoutType
    DEF TypeOK, Tick, ProcessesGone
<1>1. CASE wd[n] = 1
  <2>1. /\ pg'[n] = "stopped" /\ pc'[n] = "down" /\ task'[n] = "none"
        /\ ~wdOpen'[n] /\ ~prePromoteFailed'[n]
    BY <1>1
  <2> QED
    BY <2>1 DEF NodeInv, MayWrite, Writable, DeviceInv, AwaitsRenewal, PostgresInv, LoopInv,
                Busy, PromoteTasks, RestartTasks
<1>2. CASE wd[n] # 1
  <2>1. /\ pg'[n] = pg[n] /\ dataDir'[n] = dataDir[n] /\ pc'[n] = pc[n] /\ mode'[n] = mode[n]
        /\ role'[n] = role[n] /\ task'[n] = task[n] /\ wdOpen'[n] = wdOpen[n]
        /\ prePromoteFailed'[n] = prePromoteFailed[n]
    BY <1>2
  <2>2. MayWrite(n)' <=> MayWrite(n) BY <2>1 DEF MayWrite, Writable
  <2>3. Fenced(n) => Fenced(n)' BY <1>2 DEF Fenced
  <2>4. DeviceInv(n)' BY <1>2, <2>1 DEF NodeInv, DeviceInv, AwaitsRenewal
  <2>5. PostgresInv(n)' BY <2>1, <2>2 DEF NodeInv, PostgresInv, Writable
  <2>6. LoopInv(n)' BY <2>1 DEF NodeInv, LoopInv, Writable, Busy
  <2> QED BY <2>2, <2>3, <2>4, <2>5, <2>6 DEF NodeInv
<1> QED BY <1>1, <1>2

(* IInv is inductive when no unguarded overlap of two threads happens. *)
THEOREM Inductive ==
    ASSUME Races = {}
    PROVE  Spec => []IInv
<1>1. Init => IInv
  <2> SUFFICES ASSUME Init PROVE IInv OBVIOUS
  <2>1. TypeOK
    BY TimingAssumption, WatchdogTimeoutType
    DEF Init, TypeOK, PgStates, Roles, Tasks, Pcs, DemoteModes
  <2>2. ASSUME NEW n \in Nodes PROVE NodeInv(n)
    BY DEF Init, NodeInv, MayWrite, Writable, DeviceInv, AwaitsRenewal, PostgresInv, LoopInv,
           Busy, PromoteTasks, RestartTasks
  <2> QED BY <2>1, <2>2 DEF IInv
<1>2. IInv /\ [Next]_vars => IInv'
  <2>1. ASSUME IInv, NEW n \in Nodes, LoopStep(n) \/ TaskStep(n) \/ EnvironmentStep(n)
        PROVE  IInv'
    <3>1. TypeOK /\ \A m \in Nodes : NodeInv(m) BY <2>1 DEF IInv
    <3>2. TypeOK' BY <2>1, <3>1, LoopStepTypes, TaskStepTypes, EnvironmentStepTypes
    <3>3. NodeInv(n)' BY <2>1, <3>1, LoopStepInv, TaskStepInv, EnvironmentStepInv
    <3>4. DcsStep(n) /\ \A m \in Nodes \ {n} : Same(m)
      BY <2>1, <3>1, LoopStepFrame, TaskStepFrame, EnvironmentStepFrame
    <3>5. ASSUME NEW m \in Nodes \ {n} PROVE NodeInv(m)'
      BY <3>1, <3>4, <3>5, OthersUndisturbed
    <3> QED BY <3>2, <3>3, <3>5 DEF IInv
  <2>2. ASSUME IInv, Tick PROVE IInv'
    BY <2>2, TickTypes, TickInv DEF IInv
  <2>3. ASSUME IInv, UNCHANGED vars PROVE IInv'
    BY <2>3 DEF IInv, TypeOK, vars, NodeInv, MayWrite, Writable, Fenced, DeviceInv,
                AwaitsRenewal, PostgresInv, LoopInv, Busy
  <2> QED BY <2>1, <2>2, <2>3 DEF Next
<1> QED BY <1>1, <1>2, PTL DEF Spec

(* A node that accepts writes owns the leader key and is fenced by its watchdog. *)
THEOREM WriterFenced ==
    ASSUME Races = {}
    PROVE  Spec => []WriterIsFenced
<1>1. IInv => WriterIsFenced
  BY DEF IInv, NodeInv, MayWrite, Fenced, WriterIsFenced
<1> QED BY <1>1, Inductive, PTL

(* There is no split brain: at most one node accepts writes. *)
THEOREM NoSplitBrain ==
    ASSUME Races = {}
    PROVE  Spec => []SingleWriter
<1>1. WriterIsFenced => SingleWriter
  BY DEF WriterIsFenced, SingleWriter
<1> QED BY <1>1, WriterFenced, PTL

-----------------------------------------------------------------------------
(* The leader key moves from a node only through the state without owner, and it
   gets an owner in a step that does not touch Postgres. *)
LEMMA KeyMoves ==
    ASSUME TypeOK, Next, leader' # leader
    PROVE  leader' = NoNode \/ (leader = NoNode /\ leader' \in Nodes /\ pg' = pg)
<1> USE DEF dcs, host, KeyCreated, KeyRefreshed, KeyDeleted
<1>1. CASE Tick BY <1>1 DEF Tick
<1>2. ASSUME NEW n \in Nodes, LoopStep(n)
      PROVE  leader' = NoNode \/ (leader = NoNode /\ leader' \in Nodes /\ pg' = pg)
  <2>1. CASE JoinLeaderRace(n) BY <2>1 DEF JoinLeaderRace
  <2>2. CASE ~JoinLeaderRace(n)
    BY <1>2, <2>2
    DEF LoopStep, LoadCluster, DcsError, PostRecover, Recover, QueryFails, FollowAfterRace,
        FollowOther, FollowLeader, UpdateLock, UpdateLeader, FailedToUpdateLock, TakeOver,
        KeepLock, EnforceMasterRole, UpdateLockWhileBusy, KeepLockWhileBusy,
        LostLockWhileBusy, StopDone, DemoteDone, Shutdown, ShutdownDone, DeleteLeader
  <2> QED BY <2>1, <2>2
<1>3. ASSUME NEW n \in Nodes, TaskStep(n) \/ EnvironmentStep(n)
      PROVE  leader' = NoNode \/ (leader = NoNode /\ leader' \in Nodes /\ pg' = pg)
  BY <1>3
  DEF TaskStep, EnvironmentStep, PrePromote, Promote, PromoteSetsRole, Restart, RestartStop,
      RestartStart, Follow, GracefulStop, GracefulStopped, GracefulRelease, TaskFinished,
      PostgresStops, PatroniEnds, PatroniStart, DeleteLeader
<1> QED BY <1>1, <1>2, <1>3 DEF Next

(* The leader key and the nodes that accept writes behave as LeaderLease says. *)
THEOREM LeaseRefinement ==
    ASSUME Races = {}
    PROVE  Spec => ImplementsLeaderLease
<1>1. Init => Lease!Init
  BY DEF Init, Lease!Init, writers, Writable
<1>2. /\ IInv /\ WriterIsFenced /\ WriterIsFenced' /\ [Next]_vars
      => [Lease!Next]_(Lease!vars)
  <2> SUFFICES ASSUME IInv, WriterIsFenced, WriterIsFenced', [Next]_vars
               PROVE  Lease!Next \/ UNCHANGED <<leader, writers>>
    BY DEF Lease!vars
  <2>1. writers \subseteq {leader} /\ writers' \subseteq {leader'} /\ NoNode \notin writers \cup writers'
    BY NodesAssumption DEF WriterIsFenced, writers
  <2>2. CASE leader' = leader
    <3>1. CASE writers' = writers BY <2>2, <3>1
    <3>2. CASE writers = {} /\ writers' = {leader}
      <4>1. leader \in Nodes BY <3>2 DEF writers
      <4> QED BY <2>2, <3>2, <4>1 DEF Lease!Next, Lease!Promote
    <3>3. CASE writers # {} /\ writers' = {}
      BY <2>2, <3>3 DEF Lease!Next, Lease!StepDown
    <3> QED BY <2>1, <2>2, <3>1, <3>2, <3>3
  <2>3. CASE leader' # leader
    <3>1. leader' = NoNode \/ (leader = NoNode /\ leader' \in Nodes /\ pg' = pg)
      BY <2>3, KeyMoves DEF IInv, vars
    <3>2. CASE leader' = NoNode
      <4>1. writers' = {} BY <2>1, <3>2
      <4> QED BY <3>2, <4>1 DEF Lease!Next, Lease!StepDown, Lease!Release
    <3>3. CASE leader = NoNode /\ leader' \in Nodes /\ pg' = pg
      <4>1. writers = {} BY <2>1, <3>3
      <4>2. writers' = writers BY <3>3 DEF writers, Writable
      <4> QED BY <3>3, <4>1, <4>2 DEF Lease!Next, Lease!Acquire
    <3> QED BY <3>1, <3>2, <3>3
  <2> QED BY <2>2, <2>3
<1> QED
  BY <1>1, <1>2, Inductive, WriterFenced, PTL DEF Spec, ImplementsLeaderLease, Lease!Spec
=============================================================================
