-------------------------- MODULE BootstrapProofs --------------------------
(***************************************************************************)
(* Proofs about Bootstrap: one member at a time bootstraps a cluster, and  *)
(* no cluster takes the place of another, for any number of members and    *)
(* mishaps.                                                                *)
(***************************************************************************)
EXTENDS Bootstrap, TLAPS

-----------------------------------------------------------------------------
(* Types. *)

(* The identifiers 1 and 2 are there from the beginning. *)
ClustersInv == clusters >= Remote

ReadStates == [leader : Members \cup {NoMember}, init : Unusable..clusters, next : Steps]

LEMMA EndCycleType ==
    ASSUME BootstrapTypeOK, ClustersInv, NEW m \in Members, EndCycle(m)
    PROVE  read' \in [Members -> ReadStates]
<1>1. NotRead \in ReadStates
  BY DEF NotRead, ReadStates, Steps, Unusable, Empty, ClustersInv, BootstrapTypeOK, Remote
<1>. QED
  BY <1>1 DEF EndCycle, BootstrapTypeOK, ReadStates

LEMMA NextType ==
    ASSUME BootstrapTypeOK, NEW m \in Members, NEW s \in Steps,
           read' = [read EXCEPT ![m].next = s]
    PROVE  read' \in [Members -> ReadStates]
BY DEF BootstrapTypeOK, ReadStates

LEMMA TypesKept ==
    ASSUME BootstrapTypeOK, ClustersInv, BootstrapNext
    PROVE  BootstrapTypeOK' /\ ClustersInv'
<1>. USE BootstrapAssumption, NoMemberAssumption DEF BootstrapTypeOK, ReadStates, ClustersInv, Unusable, Empty, Remote, Steps,
          MemberJobs, cluster, node, processes
<1>1. ASSUME NEW m \in Members, LoadCluster(m) PROVE BootstrapTypeOK' /\ ClustersInv'
  BY <1>1 DEF LoadCluster
<1>2. ASSUME NEW m \in Members, RestoreInitialize(m) PROVE BootstrapTypeOK' /\ ClustersInv'
  <2>1. initialize' \in Unusable..clusters
    BY <1>2 DEF RestoreInitialize, WriteInitialize, EndCycle, Mishap
  <2>2. mishaps' \in 0..MaxMishaps
    BY <1>2 DEF RestoreInitialize, WriteInitialize, EndCycle, Mishap
  <2>3. read' \in [Members -> ReadStates]
    BY <1>2, EndCycleType DEF RestoreInitialize, WriteInitialize, EndCycle
  <2>. QED
    BY <1>2, <2>1, <2>2, <2>3 DEF RestoreInitialize, WriteInitialize, EndCycle
<1>3. ASSUME NEW m \in Members, TaskInProgress(m) PROVE BootstrapTypeOK' /\ ClustersInv'
  BY <1>3, EndCycleType DEF TaskInProgress, EndCycle
<1>4. ASSUME NEW m \in Members, BootstrapFromLeader(m) PROVE BootstrapTypeOK' /\ ClustersInv'
  BY <1>4, EndCycleType DEF BootstrapFromLeader, InCycle, EndCycle
<1>5. ASSUME NEW m \in Members, WinInitialize(m) PROVE BootstrapTypeOK' /\ ClustersInv'
  <2>1. initialize' \in Unusable..clusters
    BY <1>5 DEF WinInitialize, RaceForInitialize, InCycle, CanInitialize, EndCycle, Mishap
  <2>2. read' \in [Members -> ReadStates]
    BY <1>5, EndCycleType DEF WinInitialize, RaceForInitialize, InCycle, CanInitialize, EndCycle
  <2>3. memberJob' \in [Members -> MemberJobs]
    BY <1>5 DEF WinInitialize, RaceForInitialize, InCycle, CanInitialize, EndCycle
  <2>4. result' \in [Members -> {"None", "True", "False"}]
    BY <1>5 DEF WinInitialize, RaceForInitialize, InCycle, CanInitialize, EndCycle
  <2>5. bootstrapping' \in [Members -> BOOLEAN]
    BY <1>5 DEF WinInitialize, RaceForInitialize, InCycle, CanInitialize, EndCycle
  <2>. QED
    BY <1>5, <2>1, <2>2, <2>3, <2>4, <2>5 DEF WinInitialize, RaceForInitialize, InCycle, CanInitialize, EndCycle
<1>6. ASSUME NEW m \in Members, LoseInitialize(m) PROVE BootstrapTypeOK' /\ ClustersInv'
  <2>1. initialize' \in Unusable..clusters
    BY <1>6 DEF LoseInitialize, RaceForInitialize, InCycle, CanInitialize, EndCycle, Mishap, Mishap
  <2>2. mishaps' \in 0..MaxMishaps
    BY <1>6 DEF LoseInitialize, RaceForInitialize, InCycle, CanInitialize, EndCycle, Mishap
  <2>3. read' \in [Members -> ReadStates]
    BY <1>6, EndCycleType DEF LoseInitialize, RaceForInitialize, InCycle, CanInitialize, EndCycle, Mishap
  <2>. QED
    BY <1>6, <2>1, <2>2, <2>3 DEF LoseInitialize, RaceForInitialize, InCycle, CanInitialize, EndCycle, Mishap
<1>7. ASSUME NEW m \in Members, WaitForLeader(m) PROVE BootstrapTypeOK' /\ ClustersInv'
  BY <1>7, EndCycleType DEF WaitForLeader, InCycle, EndCycle
<1>8. ASSUME NEW m \in Members, SysidMismatch(m) PROVE BootstrapTypeOK' /\ ClustersInv'
  BY <1>8, EndCycleType DEF SysidMismatch, WithData, InCycle, Exit, EndCycle
<1>9. ASSUME NEW m \in Members, AbortStart(m) PROVE BootstrapTypeOK' /\ ClustersInv'
  BY <1>9, EndCycleType DEF AbortStart, WithData, InCycle, Exit, EndCycle
<1>10. ASSUME NEW m \in Members, ClaimInitialize(m) PROVE BootstrapTypeOK' /\ ClustersInv'
  BY <1>10, NextType DEF ClaimInitialize, WithData, InCycle, WriteInitialize, Mishap
<1>11. ASSUME NEW m \in Members, RecoverData(m) PROVE BootstrapTypeOK' /\ ClustersInv'
  BY <1>11, EndCycleType DEF RecoverData, MayJoin, WithData, InCycle, EndCycle
<1>12. ASSUME NEW m \in Members, Acquire(m) PROVE BootstrapTypeOK' /\ ClustersInv'
  <2>1. leaderKey' \in Members \cup {NoMember}
    BY <1>12 DEF Acquire, MayJoin, WithData, InCycle, EndCycle
  <2>2. postgres' \in [Members -> {"stopped", "replica", "recovering", "master"}]
    BY <1>12 DEF Acquire, MayJoin, WithData, InCycle, EndCycle
  <2>3. read' \in [Members -> ReadStates]
    BY <1>12, EndCycleType DEF Acquire, MayJoin, WithData, InCycle, EndCycle
  <2>4. called' \in [Members -> BOOLEAN]
    BY <1>12 DEF Acquire, MayJoin, WithData, InCycle, EndCycle
  <2>. QED
    BY <1>12, <2>1, <2>2, <2>3, <2>4 DEF Acquire, MayJoin, WithData, InCycle, EndCycle
<1>13. ASSUME NEW m \in Members, Follow(m) PROVE BootstrapTypeOK' /\ ClustersInv'
  BY <1>13, EndCycleType DEF Follow, MayJoin, WithData, InCycle, EndCycle
<1>14. ASSUME NEW m \in Members, WaitForRecovery(m) PROVE BootstrapTypeOK' /\ ClustersInv'
  BY <1>14, EndCycleType DEF WaitForRecovery, PostBootstrap, InCycle, EndCycle
<1>15. ASSUME NEW m \in Members, StartPostBootstrap(m) PROVE BootstrapTypeOK' /\ ClustersInv'
  BY <1>15, EndCycleType DEF StartPostBootstrap, PostBootstrap, Failed, InCycle, EndCycle
<1>16. ASSUME NEW m \in Members, CancelInitialization(m) PROVE BootstrapTypeOK' /\ ClustersInv'
  <2>1. initialize' \in Unusable..clusters
    BY <1>16 DEF CancelInitialization, PostBootstrap, InCycle, Failed, RemoveInitialize, EndCycle, Mishap, Mishap
  <2>2. mishaps' \in 0..MaxMishaps
    BY <1>16 DEF CancelInitialization, PostBootstrap, InCycle, Failed, RemoveInitialize, EndCycle, Mishap
  <2>3. read' \in [Members -> ReadStates]
    BY <1>16, EndCycleType DEF CancelInitialization, PostBootstrap, InCycle, Failed, RemoveInitialize, EndCycle, Mishap
  <2>4. memberJob' \in [Members -> MemberJobs]
    BY <1>16 DEF CancelInitialization, PostBootstrap, InCycle, Failed, RemoveInitialize, EndCycle, Mishap
  <2>. QED
    BY <1>16, <2>1, <2>2, <2>3, <2>4 DEF CancelInitialization, PostBootstrap, InCycle, Failed, RemoveInitialize, EndCycle, Mishap
<1>17. ASSUME NEW m \in Members, MoveDataDirectory(m) PROVE BootstrapTypeOK' /\ ClustersInv'
  BY <1>17 DEF MoveDataDirectory, EndJob
<1>18. ASSUME NEW m \in Members, Initialize(m) PROVE BootstrapTypeOK' /\ ClustersInv'
  BY <1>18, NextType DEF Initialize, PostBootstrap, InCycle, Failed, WriteInitialize, Mishap
<1>19. ASSUME NEW m \in Members, TakeLeader(m) PROVE BootstrapTypeOK' /\ ClustersInv'
  BY <1>19, EndCycleType DEF TakeLeader, EndCycle
<1>20. ASSUME NEW m \in Members, RunBootstrap(m) PROVE BootstrapTypeOK' /\ ClustersInv'
  <2>1. clusters' \in Nat /\ clusters' >= clusters
    BY <1>20 DEF RunBootstrap, Mishap
  <2>2. Unusable..clusters \subseteq Unusable..clusters'
    BY <2>1
  <2>3. dataDir' \in [Members -> Unusable..clusters']
    <3>1. dataDir \in [Members -> Unusable..clusters']
      BY <2>2
    <3>2. clusters' = clusters + 1 => clusters + 1 \in Unusable..clusters'
      BY <2>1
    <3>. QED
      BY <3>1, <3>2, <2>1, <1>20 DEF RunBootstrap, Mishap
  <2>4. read' \in [Members -> [leader : Members \cup {NoMember}, init : Unusable..clusters', next : Steps]]
    BY <2>2, <1>20 DEF RunBootstrap
  <2>5. initialize' \in Unusable..clusters'
    BY <2>2, <1>20 DEF RunBootstrap
  <2>6. mishaps' \in 0..MaxMishaps
    BY <1>20 DEF RunBootstrap, Mishap
  <2>7. postgres' \in [Members -> {"stopped", "replica", "recovering", "master"}] /\ called' \in [Members -> BOOLEAN]
    BY <1>20 DEF RunBootstrap
  <2>8. memberJob' \in [Members -> MemberJobs]
    BY <1>20 DEF RunBootstrap, EndJob
  <2>. QED
    BY <1>20, <2>1, <2>3, <2>4, <2>5, <2>6, <2>7, <2>8 DEF RunBootstrap
<1>21. ASSUME NEW m \in Members, RunPostBootstrap(m) PROVE BootstrapTypeOK' /\ ClustersInv'
  BY <1>21 DEF RunPostBootstrap, EndJob, Mishap
<1>22. ASSUME NEW m \in Members, RunClone(m) PROVE BootstrapTypeOK' /\ ClustersInv'
  <2>1. dataDir' \in [Members -> Unusable..clusters]
    BY <1>22 DEF RunClone, EndJob, Cloned, NotCloned, Mishap, CloneMembers
  <2>2. postgres' \in [Members -> {"stopped", "replica", "recovering", "master"}]
    BY <1>22 DEF RunClone, EndJob, Cloned, NotCloned, Mishap, CloneMembers
  <2>3. called' \in [Members -> BOOLEAN]
    BY <1>22 DEF RunClone, EndJob, Cloned, NotCloned, Mishap, CloneMembers
  <2>4. memberJob' \in [Members -> MemberJobs]
    BY <1>22 DEF RunClone, EndJob, Cloned, NotCloned, Mishap, CloneMembers
  <2>5. mishaps' \in 0..MaxMishaps
    BY <1>22 DEF RunClone, EndJob, Cloned, NotCloned, Mishap, CloneMembers
  <2>. QED
    BY <1>22, <2>1, <2>2, <2>3, <2>4, <2>5 DEF RunClone, EndJob, Cloned, NotCloned, Mishap, CloneMembers
<1>23. ASSUME NEW m \in Members, RunBootstrapStandbyLeader(m) PROVE BootstrapTypeOK' /\ ClustersInv'
  <2>1. dataDir' \in [Members -> Unusable..clusters]
    BY <1>23 DEF RunBootstrapStandbyLeader, EndJob, Cloned, NotCloned, Mishap
  <2>2. postgres' \in [Members -> {"stopped", "replica", "recovering", "master"}]
    BY <1>23 DEF RunBootstrapStandbyLeader, EndJob, Cloned, NotCloned, Mishap
  <2>3. called' \in [Members -> BOOLEAN]
    BY <1>23 DEF RunBootstrapStandbyLeader, EndJob, Cloned, NotCloned, Mishap
  <2>4. memberJob' \in [Members -> MemberJobs]
    BY <1>23 DEF RunBootstrapStandbyLeader, EndJob, Cloned, NotCloned, Mishap
  <2>5. result' \in [Members -> {"None", "True", "False"}]
    BY <1>23 DEF RunBootstrapStandbyLeader, EndJob, Cloned, NotCloned, Mishap
  <2>6. mishaps' \in 0..MaxMishaps
    BY <1>23 DEF RunBootstrapStandbyLeader, EndJob, Cloned, NotCloned, Mishap
  <2>. QED
    BY <1>23, <2>1, <2>2, <2>3, <2>4, <2>5, <2>6 DEF RunBootstrapStandbyLeader, EndJob, Cloned, NotCloned, Mishap
<1>24. ASSUME NEW m \in Members, EndOfRecovery(m) PROVE BootstrapTypeOK' /\ ClustersInv'
  BY <1>24 DEF EndOfRecovery
<1>25. ASSUME NEW m \in Members, CrashMember(m) PROVE BootstrapTypeOK' /\ ClustersInv'
  <2>1. dataDir' \in [Members -> Unusable..clusters]
    BY <1>25 DEF CrashMember, EndJob, EndCycle, Mishap
  <2>2. postgres' \in [Members -> {"stopped", "replica", "recovering", "master"}]
    BY <1>25 DEF CrashMember, EndJob, EndCycle, Mishap
  <2>3. called' \in [Members -> BOOLEAN]
    BY <1>25 DEF CrashMember, EndJob, EndCycle, Mishap
  <2>4. memberJob' \in [Members -> MemberJobs]
    BY <1>25 DEF CrashMember, EndJob, EndCycle, Mishap
  <2>5. bootstrapping' \in [Members -> BOOLEAN]
    BY <1>25 DEF CrashMember, EndJob, EndCycle, Mishap
  <2>6. read' \in [Members -> ReadStates]
    BY <1>25, EndCycleType DEF CrashMember, EndJob, EndCycle, Mishap
  <2>7. mishaps' \in 0..MaxMishaps
    BY <1>25 DEF CrashMember, EndJob, EndCycle, Mishap
  <2>. QED
    BY <1>25, <2>1, <2>2, <2>3, <2>4, <2>5, <2>6, <2>7 DEF CrashMember, EndJob, EndCycle, Mishap
<1>26. ASSUME NEW m \in Members, StartPatroni(m) PROVE BootstrapTypeOK' /\ ClustersInv'
  BY <1>26 DEF StartPatroni
<1>27. CASE LeaderKeyExpires
  BY <1>27 DEF LeaderKeyExpires
<1>. QED
  BY <1>1, <1>2, <1>3, <1>4, <1>5, <1>6, <1>7, <1>8, <1>9, <1>10, <1>11, <1>12, <1>13,
     <1>14, <1>15, <1>16, <1>17, <1>18, <1>19, <1>20, <1>21, <1>22, <1>23, <1>24, <1>25, <1>26,
     <1>27
  DEF BootstrapNext, BootstrapCycle, Task

(* What a member's task, its data and Postgres, its flag and the key say of
   each other. *)
JobInv(m) ==
    /\ postgres[m] # "stopped" => Valid(dataDir[m])
    /\ memberJob[m] \in {"bootstrap", "standby", "clone"} => dataDir[m] = Empty
    /\ memberJob[m] \in {"bootstrap", "standby", "post_bootstrap", "cancel"} => bootstrapping[m]
    /\ memberJob[m] = "clone" => ~bootstrapping[m]
    /\ (read[m].next \in {"claimed", "initialized"} \/ m \in {leaderKey, read[m].leader})
          => Valid(dataDir[m]) /\ memberJob[m] = "none" /\ ~bootstrapping[m]
    /\ read[m].next = "none" => read[m] = NotRead

(* The initialize key is there while a member has the race, and only one has
   it. *)
RaceInv ==
    \A m \in Members : HasTheRace(m) =>
        initialize # Empty /\ \A n \in Members \ {m} : ~HasTheRace(n)

MemberStep(m) ==
    BootstrapCycle(m) \/ Task(m) \/ EndOfRecovery(m) \/ CrashMember(m) \/ StartPatroni(m)

(* What no step of another member changes. *)
Stays(n) ==
    /\ dataDir'[n] = dataDir[n] /\ postgres'[n] = postgres[n]
    /\ memberJob'[n] = memberJob[n] /\ bootstrapping'[n] = bootstrapping[n]
    /\ read'[n] = read[n]

(* A step changes the state of one member. *)
LEMMA OthersStay ==
    ASSUME BootstrapTypeOK, NEW m \in Members, MemberStep(m), NEW n \in Members \ {m}
    PROVE  Stays(n)
<1>. USE DEF BootstrapTypeOK, Stays, cluster, node, processes
<1>1. CASE LoadCluster(m)
  BY <1>1 DEF LoadCluster
<1>2. CASE RestoreInitialize(m)
  BY <1>2 DEF RestoreInitialize, WriteInitialize, EndCycle
<1>3. CASE TaskInProgress(m)
  BY <1>3 DEF TaskInProgress, EndCycle
<1>4. CASE BootstrapFromLeader(m)
  BY <1>4 DEF BootstrapFromLeader, InCycle, EndCycle
<1>5. CASE WinInitialize(m)
  BY <1>5 DEF WinInitialize, RaceForInitialize, InCycle, CanInitialize, EndCycle
<1>6. CASE LoseInitialize(m)
  BY <1>6 DEF LoseInitialize, RaceForInitialize, InCycle, CanInitialize, EndCycle, Mishap
<1>7. CASE WaitForLeader(m)
  BY <1>7 DEF WaitForLeader, InCycle, EndCycle
<1>8. CASE SysidMismatch(m)
  BY <1>8 DEF SysidMismatch, WithData, InCycle, Exit, EndCycle
<1>9. CASE AbortStart(m)
  BY <1>9 DEF AbortStart, WithData, InCycle, Exit, EndCycle
<1>10. CASE ClaimInitialize(m)
  BY <1>10 DEF ClaimInitialize, WithData, InCycle, WriteInitialize
<1>11. CASE RecoverData(m)
  BY <1>11 DEF RecoverData, MayJoin, WithData, InCycle, EndCycle
<1>12. CASE Acquire(m)
  BY <1>12 DEF Acquire, MayJoin, WithData, InCycle, EndCycle
<1>13. CASE Follow(m)
  BY <1>13 DEF Follow, MayJoin, WithData, InCycle, EndCycle
<1>14. CASE WaitForRecovery(m)
  BY <1>14 DEF WaitForRecovery, PostBootstrap, InCycle, EndCycle
<1>15. CASE StartPostBootstrap(m)
  BY <1>15 DEF StartPostBootstrap, PostBootstrap, Failed, InCycle, EndCycle
<1>16. CASE CancelInitialization(m)
  BY <1>16 DEF CancelInitialization, PostBootstrap, InCycle, Failed, RemoveInitialize, EndCycle, Mishap
<1>17. CASE MoveDataDirectory(m)
  BY <1>17 DEF MoveDataDirectory, EndJob
<1>18. CASE Initialize(m)
  BY <1>18 DEF Initialize, PostBootstrap, InCycle, Failed, WriteInitialize
<1>19. CASE TakeLeader(m)
  BY <1>19 DEF TakeLeader, EndCycle
<1>20. CASE RunBootstrap(m)
  BY <1>20 DEF RunBootstrap, EndJob, Mishap
<1>21. CASE RunPostBootstrap(m)
  BY <1>21 DEF RunPostBootstrap, EndJob, Mishap
<1>22. CASE RunClone(m)
  BY <1>22 DEF RunClone, EndJob, Cloned, NotCloned, Mishap, CloneMembers
<1>23. CASE RunBootstrapStandbyLeader(m)
  BY <1>23 DEF RunBootstrapStandbyLeader, EndJob, Cloned, NotCloned, Mishap
<1>24. CASE EndOfRecovery(m)
  BY <1>24 DEF EndOfRecovery
<1>25. CASE CrashMember(m)
  BY <1>25 DEF CrashMember, EndJob, EndCycle, Mishap
<1>26. CASE StartPatroni(m)
  BY <1>26 DEF StartPatroni
<1>. QED
  BY <1>1, <1>2, <1>3, <1>4, <1>5, <1>6, <1>7, <1>8, <1>9, <1>10, <1>11, <1>12, <1>13,
     <1>14, <1>15, <1>16, <1>17, <1>18, <1>19, <1>20, <1>21, <1>22, <1>23, <1>24, <1>25, <1>26
  DEF MemberStep, BootstrapCycle, Task

(* A member writes itself into the leader key, or leaves it, or removes itself. *)
LEMMA KeyWriters ==
    ASSUME BootstrapTypeOK, NEW m \in Members, MemberStep(m)
    PROVE  leaderKey' \in {leaderKey, m, NoMember}
<1>. USE DEF cluster, node, processes
<1>1. CASE LoadCluster(m)
  BY <1>1 DEF LoadCluster
<1>2. CASE RestoreInitialize(m)
  BY <1>2 DEF RestoreInitialize, WriteInitialize, EndCycle
<1>3. CASE TaskInProgress(m)
  BY <1>3 DEF TaskInProgress, EndCycle
<1>4. CASE BootstrapFromLeader(m)
  BY <1>4 DEF BootstrapFromLeader, InCycle, EndCycle
<1>5. CASE WinInitialize(m)
  BY <1>5 DEF WinInitialize, RaceForInitialize, InCycle, CanInitialize, EndCycle
<1>6. CASE LoseInitialize(m)
  BY <1>6 DEF LoseInitialize, RaceForInitialize, InCycle, CanInitialize, EndCycle, Mishap
<1>7. CASE WaitForLeader(m)
  BY <1>7 DEF WaitForLeader, InCycle, EndCycle
<1>8. CASE SysidMismatch(m)
  BY <1>8 DEF SysidMismatch, WithData, InCycle, Exit, EndCycle
<1>9. CASE AbortStart(m)
  BY <1>9 DEF AbortStart, WithData, InCycle, Exit, EndCycle
<1>10. CASE ClaimInitialize(m)
  BY <1>10 DEF ClaimInitialize, WithData, InCycle, WriteInitialize
<1>11. CASE RecoverData(m)
  BY <1>11 DEF RecoverData, MayJoin, WithData, InCycle, EndCycle
<1>12. CASE Acquire(m)
  BY <1>12 DEF Acquire, MayJoin, WithData, InCycle, EndCycle
<1>13. CASE Follow(m)
  BY <1>13 DEF Follow, MayJoin, WithData, InCycle, EndCycle
<1>14. CASE WaitForRecovery(m)
  BY <1>14 DEF WaitForRecovery, PostBootstrap, InCycle, EndCycle
<1>15. CASE StartPostBootstrap(m)
  BY <1>15 DEF StartPostBootstrap, PostBootstrap, Failed, InCycle, EndCycle
<1>16. CASE CancelInitialization(m)
  BY <1>16 DEF CancelInitialization, PostBootstrap, InCycle, Failed, RemoveInitialize, EndCycle, Mishap
<1>17. CASE MoveDataDirectory(m)
  BY <1>17 DEF MoveDataDirectory, EndJob
<1>18. CASE Initialize(m)
  BY <1>18 DEF Initialize, PostBootstrap, InCycle, Failed, WriteInitialize
<1>19. CASE TakeLeader(m)
  BY <1>19 DEF TakeLeader, EndCycle
<1>20. CASE RunBootstrap(m)
  BY <1>20 DEF RunBootstrap, EndJob, Mishap
<1>21. CASE RunPostBootstrap(m)
  BY <1>21 DEF RunPostBootstrap, EndJob, Mishap
<1>22. CASE RunClone(m)
  BY <1>22 DEF RunClone, EndJob, Cloned, NotCloned, Mishap, CloneMembers
<1>23. CASE RunBootstrapStandbyLeader(m)
  BY <1>23 DEF RunBootstrapStandbyLeader, EndJob, Cloned, NotCloned, Mishap
<1>24. CASE EndOfRecovery(m)
  BY <1>24 DEF EndOfRecovery
<1>25. CASE CrashMember(m)
  BY <1>25 DEF CrashMember, EndJob, EndCycle, Mishap
<1>26. CASE StartPatroni(m)
  BY <1>26 DEF StartPatroni
<1>. QED
  BY <1>1, <1>2, <1>3, <1>4, <1>5, <1>6, <1>7, <1>8, <1>9, <1>10, <1>11, <1>12, <1>13,
     <1>14, <1>15, <1>16, <1>17, <1>18, <1>19, <1>20, <1>21, <1>22, <1>23, <1>24, <1>25, <1>26
  DEF MemberStep, BootstrapCycle, Task

LEMMA JobStep ==
    ASSUME BootstrapTypeOK, ClustersInv, NEW m \in Members, MemberStep(m),
           \A n \in Members : JobInv(n)
    PROVE  JobInv(m)'
<1>. USE NoMemberAssumption DEF BootstrapTypeOK, JobInv, NotRead, Steps, MemberJobs, Valid, Empty, Unusable, Remote, ClustersInv, cluster, node, processes
<1>1. CASE LoadCluster(m)
  BY <1>1 DEF LoadCluster
<1>2. CASE RestoreInitialize(m)
  BY <1>2 DEF RestoreInitialize, WriteInitialize, EndCycle
<1>3. CASE TaskInProgress(m)
  BY <1>3 DEF TaskInProgress, EndCycle
<1>4. CASE BootstrapFromLeader(m)
  BY <1>4 DEF BootstrapFromLeader, InCycle, EndCycle
<1>5. CASE WinInitialize(m)
  BY <1>5 DEF WinInitialize, RaceForInitialize, InCycle, CanInitialize, EndCycle
<1>6. CASE LoseInitialize(m)
  BY <1>6 DEF LoseInitialize, RaceForInitialize, InCycle, CanInitialize, EndCycle, Mishap
<1>7. CASE WaitForLeader(m)
  BY <1>7 DEF WaitForLeader, InCycle, EndCycle
<1>8. CASE SysidMismatch(m)
  BY <1>8 DEF SysidMismatch, WithData, InCycle, Exit, EndCycle
<1>9. CASE AbortStart(m)
  BY <1>9 DEF AbortStart, WithData, InCycle, Exit, EndCycle
<1>10. CASE ClaimInitialize(m)
  BY <1>10 DEF ClaimInitialize, WithData, InCycle, WriteInitialize
<1>11. CASE RecoverData(m)
  BY <1>11 DEF RecoverData, MayJoin, WithData, InCycle, EndCycle
<1>12. CASE Acquire(m)
  BY <1>12 DEF Acquire, MayJoin, WithData, InCycle, EndCycle
<1>13. CASE Follow(m)
  BY <1>13 DEF Follow, MayJoin, WithData, InCycle, EndCycle
<1>14. CASE WaitForRecovery(m)
  BY <1>14 DEF WaitForRecovery, PostBootstrap, InCycle, EndCycle
<1>15. CASE StartPostBootstrap(m)
  BY <1>15 DEF StartPostBootstrap, PostBootstrap, Failed, InCycle, EndCycle
<1>16. CASE CancelInitialization(m)
  BY <1>16 DEF CancelInitialization, PostBootstrap, InCycle, Failed, RemoveInitialize, EndCycle, Mishap
<1>17. CASE MoveDataDirectory(m)
  BY <1>17 DEF MoveDataDirectory, EndJob
<1>18. CASE Initialize(m)
  BY <1>18 DEF Initialize, PostBootstrap, InCycle, Failed, WriteInitialize
<1>19. CASE TakeLeader(m)
  BY <1>19 DEF TakeLeader, EndCycle
<1>20. CASE RunBootstrap(m)
  BY <1>20 DEF RunBootstrap, EndJob, Mishap
<1>21. CASE RunPostBootstrap(m)
  BY <1>21 DEF RunPostBootstrap, EndJob, Mishap
<1>22. CASE RunClone(m)
  BY <1>22 DEF RunClone, EndJob, Cloned, NotCloned, Mishap, CloneMembers
<1>23. CASE RunBootstrapStandbyLeader(m)
  BY <1>23 DEF RunBootstrapStandbyLeader, EndJob, Cloned, NotCloned, Mishap
<1>24. CASE EndOfRecovery(m)
  BY <1>24 DEF EndOfRecovery
<1>25. CASE CrashMember(m)
  BY <1>25 DEF CrashMember, EndJob, EndCycle, Mishap
<1>26. CASE StartPatroni(m)
  BY <1>26 DEF StartPatroni
<1>. QED
  BY <1>1, <1>2, <1>3, <1>4, <1>5, <1>6, <1>7, <1>8, <1>9, <1>10, <1>11, <1>12, <1>13,
     <1>14, <1>15, <1>16, <1>17, <1>18, <1>19, <1>20, <1>21, <1>22, <1>23, <1>24, <1>25, <1>26
  DEF MemberStep, BootstrapCycle, Task

LEMMA JobKept ==
    ASSUME BootstrapTypeOK, ClustersInv, BootstrapNext, \A n \in Members : JobInv(n)
    PROVE  \A n \in Members : JobInv(n)'
<1>1. ASSUME NEW m \in Members, MemberStep(m), NEW n \in Members PROVE JobInv(n)'
  <2>1. CASE n = m
    BY <1>1, <2>1, JobStep
  <2>2. CASE n # m
    BY <1>1, <2>2, OthersStay, KeyWriters, NoMemberAssumption DEF Stays, JobInv
  <2>. QED
    BY <2>1, <2>2
<1>2. CASE LeaderKeyExpires
  BY <1>2, NoMemberAssumption DEF LeaderKeyExpires, JobInv, node, processes
<1>. QED
  BY <1>1, <1>2 DEF BootstrapNext, MemberStep

(* A member gains the race by creating the key, *)
LEMMA RaceBegins ==
    ASSUME BootstrapTypeOK, NEW m \in Members, MemberStep(m), JobInv(m),
           HasTheRace(m)', ~HasTheRace(m)
    PROVE  WinInitialize(m)
<1>. USE DEF BootstrapTypeOK, JobInv, HasTheRace, NotRead, cluster, node, processes
<1>1. CASE LoadCluster(m)
  BY <1>1 DEF LoadCluster
<1>2. CASE RestoreInitialize(m)
  BY <1>2 DEF RestoreInitialize, WriteInitialize, EndCycle
<1>3. CASE TaskInProgress(m)
  BY <1>3 DEF TaskInProgress, EndCycle
<1>4. CASE BootstrapFromLeader(m)
  BY <1>4 DEF BootstrapFromLeader, InCycle, EndCycle
<1>5. CASE WinInitialize(m)
  BY <1>5 DEF WinInitialize, RaceForInitialize, InCycle, CanInitialize, EndCycle
<1>6. CASE LoseInitialize(m)
  BY <1>6 DEF LoseInitialize, RaceForInitialize, InCycle, CanInitialize, EndCycle, Mishap
<1>7. CASE WaitForLeader(m)
  BY <1>7 DEF WaitForLeader, InCycle, EndCycle
<1>8. CASE SysidMismatch(m)
  BY <1>8 DEF SysidMismatch, WithData, InCycle, Exit, EndCycle
<1>9. CASE AbortStart(m)
  BY <1>9 DEF AbortStart, WithData, InCycle, Exit, EndCycle
<1>10. CASE ClaimInitialize(m)
  BY <1>10 DEF ClaimInitialize, WithData, InCycle, WriteInitialize
<1>11. CASE RecoverData(m)
  BY <1>11 DEF RecoverData, MayJoin, WithData, InCycle, EndCycle
<1>12. CASE Acquire(m)
  BY <1>12 DEF Acquire, MayJoin, WithData, InCycle, EndCycle
<1>13. CASE Follow(m)
  BY <1>13 DEF Follow, MayJoin, WithData, InCycle, EndCycle
<1>14. CASE WaitForRecovery(m)
  BY <1>14 DEF WaitForRecovery, PostBootstrap, InCycle, EndCycle
<1>15. CASE StartPostBootstrap(m)
  BY <1>15 DEF StartPostBootstrap, PostBootstrap, Failed, InCycle, EndCycle
<1>16. CASE CancelInitialization(m)
  BY <1>16 DEF CancelInitialization, PostBootstrap, InCycle, Failed, RemoveInitialize, EndCycle, Mishap
<1>17. CASE MoveDataDirectory(m)
  BY <1>17 DEF MoveDataDirectory, EndJob
<1>18. CASE Initialize(m)
  BY <1>18 DEF Initialize, PostBootstrap, InCycle, Failed, WriteInitialize
<1>19. CASE TakeLeader(m)
  BY <1>19 DEF TakeLeader, EndCycle
<1>20. CASE RunBootstrap(m)
  BY <1>20 DEF RunBootstrap, EndJob, Mishap
<1>21. CASE RunPostBootstrap(m)
  BY <1>21 DEF RunPostBootstrap, EndJob, Mishap
<1>22. CASE RunClone(m)
  BY <1>22 DEF RunClone, EndJob, Cloned, NotCloned, Mishap, CloneMembers
<1>23. CASE RunBootstrapStandbyLeader(m)
  BY <1>23 DEF RunBootstrapStandbyLeader, EndJob, Cloned, NotCloned, Mishap
<1>24. CASE EndOfRecovery(m)
  BY <1>24 DEF EndOfRecovery
<1>25. CASE CrashMember(m)
  BY <1>25 DEF CrashMember, EndJob, EndCycle, Mishap
<1>26. CASE StartPatroni(m)
  BY <1>26 DEF StartPatroni
<1>. QED
  BY <1>1, <1>2, <1>3, <1>4, <1>5, <1>6, <1>7, <1>8, <1>9, <1>10, <1>11, <1>12, <1>13,
     <1>14, <1>15, <1>16, <1>17, <1>18, <1>19, <1>20, <1>21, <1>22, <1>23, <1>24, <1>25, <1>26
  DEF MemberStep, BootstrapCycle, Task

(* and only the member that has the race removes the key, and gives the race
   up. *)
LEMMA KeyStays ==
    ASSUME BootstrapTypeOK, NEW m \in Members, MemberStep(m), JobInv(m),
           initialize # Empty, initialize' = Empty
    PROVE  HasTheRace(m) /\ ~HasTheRace(m)'
<1>. USE DEF BootstrapTypeOK, JobInv, HasTheRace, NotRead, Valid, Empty, Unusable, CanInitialize, cluster, node, processes
<1>1. CASE LoadCluster(m)
  BY <1>1 DEF LoadCluster
<1>2. CASE RestoreInitialize(m)
  BY <1>2 DEF RestoreInitialize, WriteInitialize, EndCycle
<1>3. CASE TaskInProgress(m)
  BY <1>3 DEF TaskInProgress, EndCycle
<1>4. CASE BootstrapFromLeader(m)
  BY <1>4 DEF BootstrapFromLeader, InCycle, EndCycle
<1>5. CASE WinInitialize(m)
  BY <1>5 DEF WinInitialize, RaceForInitialize, InCycle, CanInitialize, EndCycle
<1>6. CASE LoseInitialize(m)
  BY <1>6 DEF LoseInitialize, RaceForInitialize, InCycle, CanInitialize, EndCycle, Mishap
<1>7. CASE WaitForLeader(m)
  BY <1>7 DEF WaitForLeader, InCycle, EndCycle
<1>8. CASE SysidMismatch(m)
  BY <1>8 DEF SysidMismatch, WithData, InCycle, Exit, EndCycle
<1>9. CASE AbortStart(m)
  BY <1>9 DEF AbortStart, WithData, InCycle, Exit, EndCycle
<1>10. CASE ClaimInitialize(m)
  BY <1>10 DEF ClaimInitialize, WithData, InCycle, WriteInitialize
<1>11. CASE RecoverData(m)
  BY <1>11 DEF RecoverData, MayJoin, WithData, InCycle, EndCycle
<1>12. CASE Acquire(m)
  BY <1>12 DEF Acquire, MayJoin, WithData, InCycle, EndCycle
<1>13. CASE Follow(m)
  BY <1>13 DEF Follow, MayJoin, WithData, InCycle, EndCycle
<1>14. CASE WaitForRecovery(m)
  BY <1>14 DEF WaitForRecovery, PostBootstrap, InCycle, EndCycle
<1>15. CASE StartPostBootstrap(m)
  BY <1>15 DEF StartPostBootstrap, PostBootstrap, Failed, InCycle, EndCycle
<1>16. CASE CancelInitialization(m)
  BY <1>16 DEF CancelInitialization, PostBootstrap, InCycle, Failed, RemoveInitialize, EndCycle, Mishap
<1>17. CASE MoveDataDirectory(m)
  BY <1>17 DEF MoveDataDirectory, EndJob
<1>18. CASE Initialize(m)
  BY <1>18 DEF Initialize, PostBootstrap, InCycle, Failed, WriteInitialize
<1>19. CASE TakeLeader(m)
  BY <1>19 DEF TakeLeader, EndCycle
<1>20. CASE RunBootstrap(m)
  BY <1>20 DEF RunBootstrap, EndJob, Mishap
<1>21. CASE RunPostBootstrap(m)
  BY <1>21 DEF RunPostBootstrap, EndJob, Mishap
<1>22. CASE RunClone(m)
  BY <1>22 DEF RunClone, EndJob, Cloned, NotCloned, Mishap, CloneMembers
<1>23. CASE RunBootstrapStandbyLeader(m)
  BY <1>23 DEF RunBootstrapStandbyLeader, EndJob, Cloned, NotCloned, Mishap
<1>24. CASE EndOfRecovery(m)
  BY <1>24 DEF EndOfRecovery
<1>25. CASE CrashMember(m)
  BY <1>25 DEF CrashMember, EndJob, EndCycle, Mishap
<1>26. CASE StartPatroni(m)
  BY <1>26 DEF StartPatroni
<1>. QED
  BY <1>1, <1>2, <1>3, <1>4, <1>5, <1>6, <1>7, <1>8, <1>9, <1>10, <1>11, <1>12, <1>13,
     <1>14, <1>15, <1>16, <1>17, <1>18, <1>19, <1>20, <1>21, <1>22, <1>23, <1>24, <1>25, <1>26
  DEF MemberStep, BootstrapCycle, Task

LEMMA RaceKept ==
    ASSUME BootstrapTypeOK, BootstrapNext, \A n \in Members : JobInv(n), RaceInv
    PROVE  RaceInv'
<1>1. ASSUME NEW m \in Members, MemberStep(m) PROVE RaceInv'
  <2>1. \A n \in Members \ {m} : HasTheRace(n)' <=> HasTheRace(n)
    BY <1>1, OthersStay DEF Stays, HasTheRace
  <2>2. CASE HasTheRace(m)' /\ ~HasTheRace(m)
    <3>1. initialize = Empty /\ initialize' = Unusable
      BY <1>1, <2>2, RaceBegins DEF WinInitialize, CanInitialize
    <3>. QED
      BY <2>1, <2>2, <3>1 DEF RaceInv, Empty, Unusable
  <2>3. CASE HasTheRace(m)' => HasTheRace(m)
    <3>1. initialize # Empty /\ initialize' = Empty => HasTheRace(m) /\ ~HasTheRace(m)'
      BY <1>1, KeyStays
    <3>. QED
      BY <2>1, <2>3, <3>1 DEF RaceInv, Empty
  <2>. QED
    BY <2>2, <2>3
<1>2. CASE LeaderKeyExpires
  BY <1>2 DEF LeaderKeyExpires, RaceInv, HasTheRace, node, processes
<1>. QED
  BY <1>1, <1>2 DEF BootstrapNext, MemberStep

BootstrapInv ==
    /\ BootstrapTypeOK
    /\ ClustersInv
    /\ \A m \in Members : JobInv(m)
    /\ RaceInv

(* The state variables keep their types, the task, the data and the flag of a
   member fit each other, and the initialize key is there while a member has
   the race, in every execution of Bootstrap. *)
THEOREM BootstrapInductive == BootstrapSpec => []BootstrapInv
<1>1. BootstrapInit => BootstrapInv
  <2>. SUFFICES ASSUME BootstrapInit PROVE BootstrapInv
    OBVIOUS
  <2>1. initialize \in Unusable..clusters /\ clusters = Remote
    BY DEF BootstrapInit, Unusable, Empty, OldCluster, Remote
  <2>2. dataDir \in [Members -> Unusable..clusters]
    BY DEF BootstrapInit, WithOldData, Unusable, Empty, OldCluster, Remote
  <2>3. postgres \in [Members -> {"stopped", "replica", "recovering", "master"}]
    BY DEF BootstrapInit, WithOldData
  <2>4. read \in [Members -> [leader : Members \cup {NoMember},
                             init : Unusable..clusters, next : Steps]]
    BY DEF BootstrapInit, NotRead, Steps, Unusable, Empty, Remote
  <2>5. BootstrapTypeOK /\ ClustersInv
    BY <2>1, <2>2, <2>3, <2>4, BootstrapAssumption
    DEF BootstrapInit, BootstrapTypeOK, ClustersInv, MemberJobs, Remote
  <2>6. ASSUME NEW m \in Members PROVE JobInv(m)
    <3>1. postgres[m] # "stopped" => Valid(dataDir[m])
      BY <2>6 DEF BootstrapInit, WithOldData, Valid, Empty, OldCluster, Remote
    <3>. QED
      BY <2>6, <3>1, NoMemberAssumption DEF BootstrapInit, JobInv, NotRead
  <2>7. RaceInv
    BY DEF BootstrapInit, RaceInv, HasTheRace, NotRead
  <2>. QED
    BY <2>5, <2>6, <2>7 DEF BootstrapInv
<1>2. BootstrapInv /\ [BootstrapNext]_bootstrapVars => BootstrapInv'
  <2>1. BootstrapInv /\ BootstrapNext => BootstrapInv'
    BY TypesKept, JobKept, RaceKept DEF BootstrapInv
  <2>2. BootstrapInv /\ UNCHANGED bootstrapVars => BootstrapInv'
    BY DEF BootstrapInv, BootstrapTypeOK, ClustersInv, JobInv, RaceInv, HasTheRace, bootstrapVars
  <2>. QED
    BY <2>1, <2>2
<1>. QED
  BY <1>1, <1>2, PTL DEF BootstrapSpec

(* At most one member bootstraps a cluster at a time, however the initialize
   key is lost, given back or left behind. *)
THEOREM OneMemberBootstraps == BootstrapSpec => []OneBootstrapper
<1>1. BootstrapInv => OneBootstrapper
  BY DEF BootstrapInv, RaceInv, OneBootstrapper
<1>. QED
  BY <1>1, BootstrapInductive, PTL

(* No cluster takes the place of another. *)

(* Data that stays: that of a member which does not clean up after a failed
   bootstrap. *)
Lasting(m) == Valid(dataDir[m]) /\ memberJob[m] # "cancel"

Settled(m) == Lasting(m) /\ ~bootstrapping[m]

Bootstraps(m) == bootstrapping[m] /\ memberJob[m] # "cancel"

KnowsALeader(m) == read[m].leader # NoMember \/ memberJob[m] = "clone"

(* A cluster that began with nothing: all data is that of one cluster, there
   is none without the initialize key, none is settled while somebody
   bootstraps, and some is once there has been a leader. *)
Coherent ==
    /\ initialize = Empty => \A m \in Members : ~Lasting(m)
    /\ \A m, n \in Members : Lasting(m) /\ Lasting(n) => dataDir[m] = dataDir[n]
    /\ Valid(initialize) => \A m \in Members : Lasting(m) => dataDir[m] = initialize
    /\ \A m \in Members : Bootstraps(m) =>
          initialize = Unusable /\ \A n \in Members : ~Settled(n)
    /\ (leaderKey # NoMember \/ \E m \in Members : KnowsALeader(m))
          => \E s \in Members : Settled(s)

(* A cluster that was there at the beginning: nobody bootstraps, or thinks
   that the key is not there. *)
Old ==
    /\ initialize = OldCluster
    /\ \A m \in Members :
          /\ read[m].next \in {"none", "cycle"} /\ ~bootstrapping[m]
          /\ read[m].next = "cycle" => read[m].init = OldCluster
    /\ leaderKey # NoMember => dataDir[leaderKey] = OldCluster

(* What the key and the data of a cluster are kept by: the keys of a cluster
   that has data have not been removed, and nothing happens between the
   removal of the key by a bootstrap that has failed and the removal of its
   data. *)
KeysAreKept == Origins \subseteq {"new", "existing"} /\ ~CancelIsSlow

(* Settled data stays settled, *)
LEMMA SettledStays ==
    ASSUME BootstrapTypeOK, ClustersInv, ~CancelIsSlow, NEW m \in Members, MemberStep(m),
           \A n \in Members : JobInv(n),
           Settled(m)
    PROVE  Settled(m)'
<1>. USE DEF BootstrapTypeOK, JobInv, NotRead, Valid, Empty, Unusable, Remote, ClustersInv, Lasting, Settled, Bootstraps,
          cluster, node, processes
<1>1. CASE LoadCluster(m)
  BY <1>1 DEF LoadCluster
<1>2. CASE RestoreInitialize(m)
  BY <1>2 DEF RestoreInitialize, WriteInitialize, EndCycle
<1>3. CASE TaskInProgress(m)
  BY <1>3 DEF TaskInProgress, EndCycle
<1>4. CASE BootstrapFromLeader(m)
  BY <1>4 DEF BootstrapFromLeader, InCycle, EndCycle
<1>5. CASE WinInitialize(m)
  BY <1>5 DEF WinInitialize, RaceForInitialize, InCycle, CanInitialize, EndCycle
<1>6. CASE LoseInitialize(m)
  BY <1>6 DEF LoseInitialize, RaceForInitialize, InCycle, CanInitialize, EndCycle, Mishap
<1>7. CASE WaitForLeader(m)
  BY <1>7 DEF WaitForLeader, InCycle, EndCycle
<1>8. CASE SysidMismatch(m)
  BY <1>8 DEF SysidMismatch, WithData, InCycle, Exit, EndCycle
<1>9. CASE AbortStart(m)
  BY <1>9 DEF AbortStart, WithData, InCycle, Exit, EndCycle
<1>10. CASE ClaimInitialize(m)
  BY <1>10 DEF ClaimInitialize, WithData, InCycle, WriteInitialize
<1>11. CASE RecoverData(m)
  BY <1>11 DEF RecoverData, MayJoin, WithData, InCycle, EndCycle
<1>12. CASE Acquire(m)
  BY <1>12 DEF Acquire, MayJoin, WithData, InCycle, EndCycle
<1>13. CASE Follow(m)
  BY <1>13 DEF Follow, MayJoin, WithData, InCycle, EndCycle
<1>14. CASE WaitForRecovery(m)
  BY <1>14 DEF WaitForRecovery, PostBootstrap, InCycle, EndCycle
<1>15. CASE StartPostBootstrap(m)
  BY <1>15 DEF StartPostBootstrap, PostBootstrap, Failed, InCycle, EndCycle
<1>16. CASE CancelInitialization(m)
  BY <1>16 DEF CancelInitialization, PostBootstrap, InCycle, Failed, RemoveInitialize, EndCycle, Mishap
<1>17. CASE MoveDataDirectory(m)
  BY <1>17 DEF MoveDataDirectory, EndJob
<1>18. CASE Initialize(m)
  BY <1>18 DEF Initialize, PostBootstrap, InCycle, Failed, WriteInitialize
<1>19. CASE TakeLeader(m)
  BY <1>19 DEF TakeLeader, EndCycle
<1>20. CASE RunBootstrap(m)
  BY <1>20 DEF RunBootstrap, EndJob, Mishap
<1>21. CASE RunPostBootstrap(m)
  BY <1>21 DEF RunPostBootstrap, EndJob, Mishap
<1>22. CASE RunClone(m)
  BY <1>22 DEF RunClone, EndJob, Cloned, NotCloned, Mishap, CloneMembers
<1>23. CASE RunBootstrapStandbyLeader(m)
  BY <1>23 DEF RunBootstrapStandbyLeader, EndJob, Cloned, NotCloned, Mishap
<1>24. CASE EndOfRecovery(m)
  BY <1>24 DEF EndOfRecovery
<1>25. CASE CrashMember(m)
  BY <1>25 DEF CrashMember, EndJob, EndCycle, Mishap
<1>26. CASE StartPatroni(m)
  BY <1>26 DEF StartPatroni
<1>. QED
  BY <1>1, <1>2, <1>3, <1>4, <1>5, <1>6, <1>7, <1>8, <1>9, <1>10, <1>11, <1>12, <1>13,
     <1>14, <1>15, <1>16, <1>17, <1>18, <1>19, <1>20, <1>21, <1>22, <1>23, <1>24, <1>25, <1>26
  DEF MemberStep, BootstrapCycle, Task

(* and lasting data what it is. *)
LEMMA LastingStays ==
    ASSUME BootstrapTypeOK, ClustersInv, ~CancelIsSlow, NEW m \in Members, MemberStep(m),
           \A n \in Members : JobInv(n),
           Lasting(m), Lasting(m)'
    PROVE  dataDir'[m] = dataDir[m]
<1>. USE DEF BootstrapTypeOK, JobInv, NotRead, Valid, Empty, Unusable, Remote, ClustersInv, Lasting, Settled, Bootstraps,
          cluster, node, processes
<1>1. CASE LoadCluster(m)
  BY <1>1 DEF LoadCluster
<1>2. CASE RestoreInitialize(m)
  BY <1>2 DEF RestoreInitialize, WriteInitialize, EndCycle
<1>3. CASE TaskInProgress(m)
  BY <1>3 DEF TaskInProgress, EndCycle
<1>4. CASE BootstrapFromLeader(m)
  BY <1>4 DEF BootstrapFromLeader, InCycle, EndCycle
<1>5. CASE WinInitialize(m)
  BY <1>5 DEF WinInitialize, RaceForInitialize, InCycle, CanInitialize, EndCycle
<1>6. CASE LoseInitialize(m)
  BY <1>6 DEF LoseInitialize, RaceForInitialize, InCycle, CanInitialize, EndCycle, Mishap
<1>7. CASE WaitForLeader(m)
  BY <1>7 DEF WaitForLeader, InCycle, EndCycle
<1>8. CASE SysidMismatch(m)
  BY <1>8 DEF SysidMismatch, WithData, InCycle, Exit, EndCycle
<1>9. CASE AbortStart(m)
  BY <1>9 DEF AbortStart, WithData, InCycle, Exit, EndCycle
<1>10. CASE ClaimInitialize(m)
  BY <1>10 DEF ClaimInitialize, WithData, InCycle, WriteInitialize
<1>11. CASE RecoverData(m)
  BY <1>11 DEF RecoverData, MayJoin, WithData, InCycle, EndCycle
<1>12. CASE Acquire(m)
  BY <1>12 DEF Acquire, MayJoin, WithData, InCycle, EndCycle
<1>13. CASE Follow(m)
  BY <1>13 DEF Follow, MayJoin, WithData, InCycle, EndCycle
<1>14. CASE WaitForRecovery(m)
  BY <1>14 DEF WaitForRecovery, PostBootstrap, InCycle, EndCycle
<1>15. CASE StartPostBootstrap(m)
  BY <1>15 DEF StartPostBootstrap, PostBootstrap, Failed, InCycle, EndCycle
<1>16. CASE CancelInitialization(m)
  BY <1>16 DEF CancelInitialization, PostBootstrap, InCycle, Failed, RemoveInitialize, EndCycle, Mishap
<1>17. CASE MoveDataDirectory(m)
  BY <1>17 DEF MoveDataDirectory, EndJob
<1>18. CASE Initialize(m)
  BY <1>18 DEF Initialize, PostBootstrap, InCycle, Failed, WriteInitialize
<1>19. CASE TakeLeader(m)
  BY <1>19 DEF TakeLeader, EndCycle
<1>20. CASE RunBootstrap(m)
  BY <1>20 DEF RunBootstrap, EndJob, Mishap
<1>21. CASE RunPostBootstrap(m)
  BY <1>21 DEF RunPostBootstrap, EndJob, Mishap
<1>22. CASE RunClone(m)
  BY <1>22 DEF RunClone, EndJob, Cloned, NotCloned, Mishap, CloneMembers
<1>23. CASE RunBootstrapStandbyLeader(m)
  BY <1>23 DEF RunBootstrapStandbyLeader, EndJob, Cloned, NotCloned, Mishap
<1>24. CASE EndOfRecovery(m)
  BY <1>24 DEF EndOfRecovery
<1>25. CASE CrashMember(m)
  BY <1>25 DEF CrashMember, EndJob, EndCycle, Mishap
<1>26. CASE StartPatroni(m)
  BY <1>26 DEF StartPatroni
<1>. QED
  BY <1>1, <1>2, <1>3, <1>4, <1>5, <1>6, <1>7, <1>8, <1>9, <1>10, <1>11, <1>12, <1>13,
     <1>14, <1>15, <1>16, <1>17, <1>18, <1>19, <1>20, <1>21, <1>22, <1>23, <1>24, <1>25, <1>26
  DEF MemberStep, BootstrapCycle, Task

(* Data is settled by a bootstrap that has ended, or a copy. *)
LEMMA NewSettled ==
    ASSUME BootstrapTypeOK, ClustersInv, ~CancelIsSlow, NEW m \in Members, MemberStep(m),
           \A n \in Members : JobInv(n),
           Settled(m)', ~Settled(m)
    PROVE  Bootstraps(m) \/ memberJob[m] = "clone"
<1>. USE DEF BootstrapTypeOK, JobInv, NotRead, Valid, Empty, Unusable, Remote, ClustersInv, Lasting, Settled, Bootstraps,
          cluster, node, processes
<1>1. CASE LoadCluster(m)
  BY <1>1 DEF LoadCluster
<1>2. CASE RestoreInitialize(m)
  BY <1>2 DEF RestoreInitialize, WriteInitialize, EndCycle
<1>3. CASE TaskInProgress(m)
  BY <1>3 DEF TaskInProgress, EndCycle
<1>4. CASE BootstrapFromLeader(m)
  BY <1>4 DEF BootstrapFromLeader, InCycle, EndCycle
<1>5. CASE WinInitialize(m)
  BY <1>5 DEF WinInitialize, RaceForInitialize, InCycle, CanInitialize, EndCycle
<1>6. CASE LoseInitialize(m)
  BY <1>6 DEF LoseInitialize, RaceForInitialize, InCycle, CanInitialize, EndCycle, Mishap
<1>7. CASE WaitForLeader(m)
  BY <1>7 DEF WaitForLeader, InCycle, EndCycle
<1>8. CASE SysidMismatch(m)
  BY <1>8 DEF SysidMismatch, WithData, InCycle, Exit, EndCycle
<1>9. CASE AbortStart(m)
  BY <1>9 DEF AbortStart, WithData, InCycle, Exit, EndCycle
<1>10. CASE ClaimInitialize(m)
  BY <1>10 DEF ClaimInitialize, WithData, InCycle, WriteInitialize
<1>11. CASE RecoverData(m)
  BY <1>11 DEF RecoverData, MayJoin, WithData, InCycle, EndCycle
<1>12. CASE Acquire(m)
  BY <1>12 DEF Acquire, MayJoin, WithData, InCycle, EndCycle
<1>13. CASE Follow(m)
  BY <1>13 DEF Follow, MayJoin, WithData, InCycle, EndCycle
<1>14. CASE WaitForRecovery(m)
  BY <1>14 DEF WaitForRecovery, PostBootstrap, InCycle, EndCycle
<1>15. CASE StartPostBootstrap(m)
  BY <1>15 DEF StartPostBootstrap, PostBootstrap, Failed, InCycle, EndCycle
<1>16. CASE CancelInitialization(m)
  BY <1>16 DEF CancelInitialization, PostBootstrap, InCycle, Failed, RemoveInitialize, EndCycle, Mishap
<1>17. CASE MoveDataDirectory(m)
  BY <1>17 DEF MoveDataDirectory, EndJob
<1>18. CASE Initialize(m)
  BY <1>18 DEF Initialize, PostBootstrap, InCycle, Failed, WriteInitialize
<1>19. CASE TakeLeader(m)
  BY <1>19 DEF TakeLeader, EndCycle
<1>20. CASE RunBootstrap(m)
  BY <1>20 DEF RunBootstrap, EndJob, Mishap
<1>21. CASE RunPostBootstrap(m)
  BY <1>21 DEF RunPostBootstrap, EndJob, Mishap
<1>22. CASE RunClone(m)
  BY <1>22 DEF RunClone, EndJob, Cloned, NotCloned, Mishap, CloneMembers
<1>23. CASE RunBootstrapStandbyLeader(m)
  BY <1>23 DEF RunBootstrapStandbyLeader, EndJob, Cloned, NotCloned, Mishap
<1>24. CASE EndOfRecovery(m)
  BY <1>24 DEF EndOfRecovery
<1>25. CASE CrashMember(m)
  BY <1>25 DEF CrashMember, EndJob, EndCycle, Mishap
<1>26. CASE StartPatroni(m)
  BY <1>26 DEF StartPatroni
<1>. QED
  BY <1>1, <1>2, <1>3, <1>4, <1>5, <1>6, <1>7, <1>8, <1>9, <1>10, <1>11, <1>12, <1>13,
     <1>14, <1>15, <1>16, <1>17, <1>18, <1>19, <1>20, <1>21, <1>22, <1>23, <1>24, <1>25, <1>26
  DEF MemberStep, BootstrapCycle, Task

(* It comes from a bootstrap, or is a copy of lasting data. *)
LEMMA NewLasting ==
    ASSUME BootstrapTypeOK, ClustersInv, ~CancelIsSlow, NEW m \in Members, MemberStep(m),
           \A n \in Members : JobInv(n),
           Lasting(m)', ~Lasting(m)
    PROVE  /\ initialize' = initialize
           /\ \/ Bootstraps(m)
              \/ /\ memberJob[m] = "clone"
                 /\ \E s \in Members \ {m} : Lasting(s) /\ dataDir'[m] = dataDir[s]
<1>. USE DEF BootstrapTypeOK, JobInv, NotRead, Valid, Empty, Unusable, Remote, ClustersInv, Lasting, Settled, Bootstraps,
          cluster, node, processes
<1>1. CASE LoadCluster(m)
  BY <1>1 DEF LoadCluster
<1>2. CASE RestoreInitialize(m)
  BY <1>2 DEF RestoreInitialize, WriteInitialize, EndCycle
<1>3. CASE TaskInProgress(m)
  BY <1>3 DEF TaskInProgress, EndCycle
<1>4. CASE BootstrapFromLeader(m)
  BY <1>4 DEF BootstrapFromLeader, InCycle, EndCycle
<1>5. CASE WinInitialize(m)
  BY <1>5 DEF WinInitialize, RaceForInitialize, InCycle, CanInitialize, EndCycle
<1>6. CASE LoseInitialize(m)
  BY <1>6 DEF LoseInitialize, RaceForInitialize, InCycle, CanInitialize, EndCycle, Mishap
<1>7. CASE WaitForLeader(m)
  BY <1>7 DEF WaitForLeader, InCycle, EndCycle
<1>8. CASE SysidMismatch(m)
  BY <1>8 DEF SysidMismatch, WithData, InCycle, Exit, EndCycle
<1>9. CASE AbortStart(m)
  BY <1>9 DEF AbortStart, WithData, InCycle, Exit, EndCycle
<1>10. CASE ClaimInitialize(m)
  BY <1>10 DEF ClaimInitialize, WithData, InCycle, WriteInitialize
<1>11. CASE RecoverData(m)
  BY <1>11 DEF RecoverData, MayJoin, WithData, InCycle, EndCycle
<1>12. CASE Acquire(m)
  BY <1>12 DEF Acquire, MayJoin, WithData, InCycle, EndCycle
<1>13. CASE Follow(m)
  BY <1>13 DEF Follow, MayJoin, WithData, InCycle, EndCycle
<1>14. CASE WaitForRecovery(m)
  BY <1>14 DEF WaitForRecovery, PostBootstrap, InCycle, EndCycle
<1>15. CASE StartPostBootstrap(m)
  BY <1>15 DEF StartPostBootstrap, PostBootstrap, Failed, InCycle, EndCycle
<1>16. CASE CancelInitialization(m)
  BY <1>16 DEF CancelInitialization, PostBootstrap, InCycle, Failed, RemoveInitialize, EndCycle, Mishap
<1>17. CASE MoveDataDirectory(m)
  BY <1>17 DEF MoveDataDirectory, EndJob
<1>18. CASE Initialize(m)
  BY <1>18 DEF Initialize, PostBootstrap, InCycle, Failed, WriteInitialize
<1>19. CASE TakeLeader(m)
  BY <1>19 DEF TakeLeader, EndCycle
<1>20. CASE RunBootstrap(m)
  BY <1>20 DEF RunBootstrap, EndJob, Mishap
<1>21. CASE RunPostBootstrap(m)
  BY <1>21 DEF RunPostBootstrap, EndJob, Mishap
<1>22. CASE RunClone(m)
  BY <1>22 DEF RunClone, EndJob, Cloned, NotCloned, Mishap, CloneMembers
<1>23. CASE RunBootstrapStandbyLeader(m)
  BY <1>23 DEF RunBootstrapStandbyLeader, EndJob, Cloned, NotCloned, Mishap
<1>24. CASE EndOfRecovery(m)
  BY <1>24 DEF EndOfRecovery
<1>25. CASE CrashMember(m)
  BY <1>25 DEF CrashMember, EndJob, EndCycle, Mishap
<1>26. CASE StartPatroni(m)
  BY <1>26 DEF StartPatroni
<1>. QED
  BY <1>1, <1>2, <1>3, <1>4, <1>5, <1>6, <1>7, <1>8, <1>9, <1>10, <1>11, <1>12, <1>13,
     <1>14, <1>15, <1>16, <1>17, <1>18, <1>19, <1>20, <1>21, <1>22, <1>23, <1>24, <1>25, <1>26
  DEF MemberStep, BootstrapCycle, Task

(* A bootstrap begins with the race. *)
LEMMA NewBootstrap ==
    ASSUME BootstrapTypeOK, ClustersInv, ~CancelIsSlow, NEW m \in Members, MemberStep(m),
           \A n \in Members : JobInv(n),
           Bootstraps(m)', ~Bootstraps(m)
    PROVE  initialize = Empty /\ initialize' = Unusable /\ ~Lasting(m)'
<1>. USE DEF BootstrapTypeOK, JobInv, NotRead, Valid, Empty, Unusable, Remote, ClustersInv, Lasting, Settled, Bootstraps,
          cluster, node, processes
<1>1. CASE LoadCluster(m)
  BY <1>1 DEF LoadCluster
<1>2. CASE RestoreInitialize(m)
  BY <1>2 DEF RestoreInitialize, WriteInitialize, EndCycle
<1>3. CASE TaskInProgress(m)
  BY <1>3 DEF TaskInProgress, EndCycle
<1>4. CASE BootstrapFromLeader(m)
  BY <1>4 DEF BootstrapFromLeader, InCycle, EndCycle
<1>5. CASE WinInitialize(m)
  BY <1>5 DEF WinInitialize, RaceForInitialize, InCycle, CanInitialize, EndCycle
<1>6. CASE LoseInitialize(m)
  BY <1>6 DEF LoseInitialize, RaceForInitialize, InCycle, CanInitialize, EndCycle, Mishap
<1>7. CASE WaitForLeader(m)
  BY <1>7 DEF WaitForLeader, InCycle, EndCycle
<1>8. CASE SysidMismatch(m)
  BY <1>8 DEF SysidMismatch, WithData, InCycle, Exit, EndCycle
<1>9. CASE AbortStart(m)
  BY <1>9 DEF AbortStart, WithData, InCycle, Exit, EndCycle
<1>10. CASE ClaimInitialize(m)
  BY <1>10 DEF ClaimInitialize, WithData, InCycle, WriteInitialize
<1>11. CASE RecoverData(m)
  BY <1>11 DEF RecoverData, MayJoin, WithData, InCycle, EndCycle
<1>12. CASE Acquire(m)
  BY <1>12 DEF Acquire, MayJoin, WithData, InCycle, EndCycle
<1>13. CASE Follow(m)
  BY <1>13 DEF Follow, MayJoin, WithData, InCycle, EndCycle
<1>14. CASE WaitForRecovery(m)
  BY <1>14 DEF WaitForRecovery, PostBootstrap, InCycle, EndCycle
<1>15. CASE StartPostBootstrap(m)
  BY <1>15 DEF StartPostBootstrap, PostBootstrap, Failed, InCycle, EndCycle
<1>16. CASE CancelInitialization(m)
  BY <1>16 DEF CancelInitialization, PostBootstrap, InCycle, Failed, RemoveInitialize, EndCycle, Mishap
<1>17. CASE MoveDataDirectory(m)
  BY <1>17 DEF MoveDataDirectory, EndJob
<1>18. CASE Initialize(m)
  BY <1>18 DEF Initialize, PostBootstrap, InCycle, Failed, WriteInitialize
<1>19. CASE TakeLeader(m)
  BY <1>19 DEF TakeLeader, EndCycle
<1>20. CASE RunBootstrap(m)
  BY <1>20 DEF RunBootstrap, EndJob, Mishap
<1>21. CASE RunPostBootstrap(m)
  BY <1>21 DEF RunPostBootstrap, EndJob, Mishap
<1>22. CASE RunClone(m)
  BY <1>22 DEF RunClone, EndJob, Cloned, NotCloned, Mishap, CloneMembers
<1>23. CASE RunBootstrapStandbyLeader(m)
  BY <1>23 DEF RunBootstrapStandbyLeader, EndJob, Cloned, NotCloned, Mishap
<1>24. CASE EndOfRecovery(m)
  BY <1>24 DEF EndOfRecovery
<1>25. CASE CrashMember(m)
  BY <1>25 DEF CrashMember, EndJob, EndCycle, Mishap
<1>26. CASE StartPatroni(m)
  BY <1>26 DEF StartPatroni
<1>. QED
  BY <1>1, <1>2, <1>3, <1>4, <1>5, <1>6, <1>7, <1>8, <1>9, <1>10, <1>11, <1>12, <1>13,
     <1>14, <1>15, <1>16, <1>17, <1>18, <1>19, <1>20, <1>21, <1>22, <1>23, <1>24, <1>25, <1>26
  DEF MemberStep, BootstrapCycle, Task

(* The leader key is taken by a member whose data is settled. *)
LEMMA NewLeaderKnown ==
    ASSUME BootstrapTypeOK, ClustersInv, ~CancelIsSlow, NEW m \in Members, MemberStep(m),
           \A n \in Members : JobInv(n),
           leaderKey' # NoMember \/ KnowsALeader(m)'
    PROVE  leaderKey # NoMember \/ KnowsALeader(m) \/ Settled(m)'
<1>. USE DEF KnowsALeader, BootstrapTypeOK, JobInv, NotRead, Valid, Empty, Unusable, Remote, ClustersInv, Lasting, Settled, Bootstraps,
          cluster, node, processes
<1>1. CASE LoadCluster(m)
  BY <1>1 DEF LoadCluster
<1>2. CASE RestoreInitialize(m)
  BY <1>2 DEF RestoreInitialize, WriteInitialize, EndCycle
<1>3. CASE TaskInProgress(m)
  BY <1>3 DEF TaskInProgress, EndCycle
<1>4. CASE BootstrapFromLeader(m)
  BY <1>4 DEF BootstrapFromLeader, InCycle, EndCycle
<1>5. CASE WinInitialize(m)
  BY <1>5 DEF WinInitialize, RaceForInitialize, InCycle, CanInitialize, EndCycle
<1>6. CASE LoseInitialize(m)
  BY <1>6 DEF LoseInitialize, RaceForInitialize, InCycle, CanInitialize, EndCycle, Mishap
<1>7. CASE WaitForLeader(m)
  BY <1>7 DEF WaitForLeader, InCycle, EndCycle
<1>8. CASE SysidMismatch(m)
  BY <1>8 DEF SysidMismatch, WithData, InCycle, Exit, EndCycle
<1>9. CASE AbortStart(m)
  BY <1>9 DEF AbortStart, WithData, InCycle, Exit, EndCycle
<1>10. CASE ClaimInitialize(m)
  BY <1>10 DEF ClaimInitialize, WithData, InCycle, WriteInitialize
<1>11. CASE RecoverData(m)
  BY <1>11 DEF RecoverData, MayJoin, WithData, InCycle, EndCycle
<1>12. CASE Acquire(m)
  BY <1>12 DEF Acquire, MayJoin, WithData, InCycle, EndCycle
<1>13. CASE Follow(m)
  BY <1>13 DEF Follow, MayJoin, WithData, InCycle, EndCycle
<1>14. CASE WaitForRecovery(m)
  BY <1>14 DEF WaitForRecovery, PostBootstrap, InCycle, EndCycle
<1>15. CASE StartPostBootstrap(m)
  BY <1>15 DEF StartPostBootstrap, PostBootstrap, Failed, InCycle, EndCycle
<1>16. CASE CancelInitialization(m)
  BY <1>16 DEF CancelInitialization, PostBootstrap, InCycle, Failed, RemoveInitialize, EndCycle, Mishap
<1>17. CASE MoveDataDirectory(m)
  BY <1>17 DEF MoveDataDirectory, EndJob
<1>18. CASE Initialize(m)
  BY <1>18 DEF Initialize, PostBootstrap, InCycle, Failed, WriteInitialize
<1>19. CASE TakeLeader(m)
  BY <1>19 DEF TakeLeader, EndCycle
<1>20. CASE RunBootstrap(m)
  BY <1>20 DEF RunBootstrap, EndJob, Mishap
<1>21. CASE RunPostBootstrap(m)
  BY <1>21 DEF RunPostBootstrap, EndJob, Mishap
<1>22. CASE RunClone(m)
  BY <1>22 DEF RunClone, EndJob, Cloned, NotCloned, Mishap, CloneMembers
<1>23. CASE RunBootstrapStandbyLeader(m)
  BY <1>23 DEF RunBootstrapStandbyLeader, EndJob, Cloned, NotCloned, Mishap
<1>24. CASE EndOfRecovery(m)
  BY <1>24 DEF EndOfRecovery
<1>25. CASE CrashMember(m)
  BY <1>25 DEF CrashMember, EndJob, EndCycle, Mishap
<1>26. CASE StartPatroni(m)
  BY <1>26 DEF StartPatroni
<1>. QED
  BY <1>1, <1>2, <1>3, <1>4, <1>5, <1>6, <1>7, <1>8, <1>9, <1>10, <1>11, <1>12, <1>13,
     <1>14, <1>15, <1>16, <1>17, <1>18, <1>19, <1>20, <1>21, <1>22, <1>23, <1>24, <1>25, <1>26
  DEF MemberStep, BootstrapCycle, Task

(* The key is created by the race, removed by a bootstrap that has failed, or set
   to the identifier of lasting data. *)
LEMMA KeyMoves ==
    ASSUME BootstrapTypeOK, ClustersInv, ~CancelIsSlow, NEW m \in Members, MemberStep(m),
           \A n \in Members : JobInv(n),
           initialize' # initialize
    PROVE  \/ initialize = Empty /\ initialize' = Unusable /\ dataDir[m] = Empty
           \/ initialize' = Empty /\ Bootstraps(m) /\ ~Lasting(m)' /\ ~Bootstraps(m)'
           \/ /\ initialize' = dataDir[m] /\ dataDir'[m] = dataDir[m]
              /\ Lasting(m) /\ Settled(m)'
<1>. USE DEF BootstrapTypeOK, JobInv, NotRead, Valid, Empty, Unusable, Remote, ClustersInv, Lasting, Settled, Bootstraps,
          cluster, node, processes, CanInitialize
<1>1. CASE LoadCluster(m)
  BY <1>1 DEF LoadCluster
<1>2. CASE RestoreInitialize(m)
  BY <1>2 DEF RestoreInitialize, WriteInitialize, EndCycle
<1>3. CASE TaskInProgress(m)
  BY <1>3 DEF TaskInProgress, EndCycle
<1>4. CASE BootstrapFromLeader(m)
  BY <1>4 DEF BootstrapFromLeader, InCycle, EndCycle
<1>5. CASE WinInitialize(m)
  BY <1>5 DEF WinInitialize, RaceForInitialize, InCycle, CanInitialize, EndCycle
<1>6. CASE LoseInitialize(m)
  BY <1>6 DEF LoseInitialize, RaceForInitialize, InCycle, CanInitialize, EndCycle, Mishap
<1>7. CASE WaitForLeader(m)
  BY <1>7 DEF WaitForLeader, InCycle, EndCycle
<1>8. CASE SysidMismatch(m)
  BY <1>8 DEF SysidMismatch, WithData, InCycle, Exit, EndCycle
<1>9. CASE AbortStart(m)
  BY <1>9 DEF AbortStart, WithData, InCycle, Exit, EndCycle
<1>10. CASE ClaimInitialize(m)
  BY <1>10 DEF ClaimInitialize, WithData, InCycle, WriteInitialize
<1>11. CASE RecoverData(m)
  BY <1>11 DEF RecoverData, MayJoin, WithData, InCycle, EndCycle
<1>12. CASE Acquire(m)
  BY <1>12 DEF Acquire, MayJoin, WithData, InCycle, EndCycle
<1>13. CASE Follow(m)
  BY <1>13 DEF Follow, MayJoin, WithData, InCycle, EndCycle
<1>14. CASE WaitForRecovery(m)
  BY <1>14 DEF WaitForRecovery, PostBootstrap, InCycle, EndCycle
<1>15. CASE StartPostBootstrap(m)
  BY <1>15 DEF StartPostBootstrap, PostBootstrap, Failed, InCycle, EndCycle
<1>16. CASE CancelInitialization(m)
  BY <1>16 DEF CancelInitialization, PostBootstrap, InCycle, Failed, RemoveInitialize, EndCycle, Mishap
<1>17. CASE MoveDataDirectory(m)
  BY <1>17 DEF MoveDataDirectory, EndJob
<1>18. CASE Initialize(m)
  BY <1>18 DEF Initialize, PostBootstrap, InCycle, Failed, WriteInitialize
<1>19. CASE TakeLeader(m)
  BY <1>19 DEF TakeLeader, EndCycle
<1>20. CASE RunBootstrap(m)
  BY <1>20 DEF RunBootstrap, EndJob, Mishap
<1>21. CASE RunPostBootstrap(m)
  BY <1>21 DEF RunPostBootstrap, EndJob, Mishap
<1>22. CASE RunClone(m)
  BY <1>22 DEF RunClone, EndJob, Cloned, NotCloned, Mishap, CloneMembers
<1>23. CASE RunBootstrapStandbyLeader(m)
  BY <1>23 DEF RunBootstrapStandbyLeader, EndJob, Cloned, NotCloned, Mishap
<1>24. CASE EndOfRecovery(m)
  BY <1>24 DEF EndOfRecovery
<1>25. CASE CrashMember(m)
  BY <1>25 DEF CrashMember, EndJob, EndCycle, Mishap
<1>26. CASE StartPatroni(m)
  BY <1>26 DEF StartPatroni
<1>. QED
  BY <1>1, <1>2, <1>3, <1>4, <1>5, <1>6, <1>7, <1>8, <1>9, <1>10, <1>11, <1>12, <1>13,
     <1>14, <1>15, <1>16, <1>17, <1>18, <1>19, <1>20, <1>21, <1>22, <1>23, <1>24, <1>25, <1>26
  DEF MemberStep, BootstrapCycle, Task

LEMMA CoherentStep ==
    ASSUME BootstrapInv, Coherent, ~CancelIsSlow, NEW m \in Members, MemberStep(m)
    PROVE  Coherent' /\ (Valid(initialize) => initialize' = initialize)
<1>. USE DEF BootstrapInv
<1>1. \A n \in Members \ {m} :
         /\ Lasting(n)' <=> Lasting(n)
         /\ Settled(n)' <=> Settled(n)
         /\ Bootstraps(n)' <=> Bootstraps(n)
         /\ KnowsALeader(n)' <=> KnowsALeader(n)
         /\ dataDir'[n] = dataDir[n]
  BY OthersStay DEF Stays, Lasting, Settled, Bootstraps, KnowsALeader
<1>2. Settled(m) => Settled(m)'
  BY SettledStays
<1>3. Lasting(m) /\ Lasting(m)' => dataDir'[m] = dataDir[m]
  BY LastingStays
<1>4. Settled(m)' /\ ~Settled(m) => Bootstraps(m) \/ memberJob[m] = "clone"
  BY NewSettled
<1>5. Lasting(m)' /\ ~Lasting(m) =>
         /\ initialize' = initialize
         /\ \/ Bootstraps(m)
            \/ /\ memberJob[m] = "clone"
               /\ \E s \in Members \ {m} : Lasting(s) /\ dataDir'[m] = dataDir[s]
  BY NewLasting
<1>6. Bootstraps(m)' /\ ~Bootstraps(m) =>
         initialize = Empty /\ initialize' = Unusable /\ ~Lasting(m)'
  BY NewBootstrap
<1>7. leaderKey' # NoMember \/ KnowsALeader(m)'
         => leaderKey # NoMember \/ KnowsALeader(m) \/ Settled(m)'
  BY NewLeaderKnown
<1>8. initialize' # initialize =>
         \/ initialize = Empty /\ initialize' = Unusable /\ dataDir[m] = Empty
         \/ initialize' = Empty /\ Bootstraps(m) /\ ~Lasting(m)' /\ ~Bootstraps(m)'
         \/ /\ initialize' = dataDir[m] /\ dataDir'[m] = dataDir[m]
            /\ Lasting(m) /\ Settled(m)'
  BY KeyMoves
<1>9. \A n \in Members :
         /\ Settled(n) => Lasting(n) /\ ~Bootstraps(n)
         /\ Lasting(n) /\ ~Settled(n) => Bootstraps(n)
         /\ Settled(n)' => Lasting(n)' /\ ~Bootstraps(n)'
         /\ Lasting(n) => Valid(dataDir[n])
         /\ Lasting(n)' => Valid(dataDir'[n])
  BY DEF Lasting, Settled, Bootstraps
<1>10. \A n \in Members : Bootstraps(n) /\ Bootstraps(m) => n = m
  BY DEF RaceInv, HasTheRace, Bootstraps
<1>11. memberJob[m] = "clone" => KnowsALeader(m)
  BY DEF KnowsALeader
(* Alone in the race, and nothing has been settled: no other data lasts. *)
<1>12. Bootstraps(m) => initialize = Unusable /\ \A n \in Members \ {m} : ~Lasting(n)
  BY <1>9, <1>10 DEF Coherent
<1>13. \A i \in {Empty, Unusable} : ~Valid(i)
  BY DEF Valid, Empty, Unusable
<1>14. Empty # Unusable
  BY DEF Empty, Unusable
<1>. HIDE DEF BootstrapInv
<1>20. initialize' = Empty => \A n \in Members : ~Lasting(n)'
  BY <1>1, <1>3, <1>5, <1>8, <1>9, <1>12, <1>13, <1>14 DEF Coherent
<1>21. \A k, n \in Members : Lasting(k)' /\ Lasting(n)' => dataDir'[k] = dataDir'[n]
  <2>1. CASE Lasting(m)' /\ ~Lasting(m)
    BY <2>1, <1>1, <1>5, <1>12 DEF Coherent
  <2>2. CASE ~(Lasting(m)' /\ ~Lasting(m))
    BY <2>2, <1>1, <1>3 DEF Coherent
  <2>. QED
    BY <2>1, <2>2
<1>22. Valid(initialize)' => \A n \in Members : Lasting(n)' => dataDir'[n] = initialize'
  <2>. SUFFICES ASSUME Valid(initialize'), NEW n \in Members, Lasting(n)'
                PROVE  dataDir'[n] = initialize'
    BY DEF Valid
  <2>1. CASE initialize' = initialize
    <3>1. ~Bootstraps(m)
      BY <2>1, <1>12, <1>13
    <3>. QED
      BY <2>1, <3>1, <1>1, <1>3, <1>5 DEF Coherent
  <2>2. CASE initialize' # initialize
    <3>1. initialize' = dataDir[m] /\ dataDir'[m] = dataDir[m] /\ Lasting(m) /\ Settled(m)'
      BY <2>2, <1>8, <1>13
    <3>. QED
      BY <3>1, <1>9, <1>21
  <2>. QED
    BY <2>1, <2>2
<1>23. ASSUME NEW n \in Members, Bootstraps(n)'
       PROVE  initialize' = Unusable /\ \A k \in Members : ~Settled(k)'
  <2>1. CASE Bootstraps(n)
    <3>1. initialize = Unusable /\ \A k \in Members : ~Settled(k)
      BY <2>1 DEF Coherent
    <3>2. ~KnowsALeader(m)
      BY <3>1 DEF Coherent
    <3>3. Bootstraps(m) => n = m
      BY <2>1, <1>10
    <3>4. ~Settled(m)'
      BY <1>23, <3>1, <3>2, <3>3, <1>4, <1>9, <1>11
    <3>5. initialize' = initialize
      BY <1>8, <1>23, <3>1, <3>3, <3>4, <1>14
    <3>. QED
      BY <3>1, <3>4, <3>5, <1>1
  <2>2. CASE ~Bootstraps(n)
    <3>1. n = m /\ initialize = Empty /\ initialize' = Unusable /\ ~Lasting(m)'
      BY <2>2, <1>23, <1>1, <1>6
    <3>. QED
      BY <3>1, <1>1, <1>9 DEF Coherent
  <2>. QED
    BY <2>1, <2>2
<1>24. (leaderKey' # NoMember \/ \E n \in Members : KnowsALeader(n)')
         => \E s \in Members : Settled(s)'
  <2>1. (\E s \in Members : Settled(s)) => \E s \in Members : Settled(s)'
    BY <1>1, <1>2
  <2>2. (leaderKey' # NoMember \/ \E n \in Members : KnowsALeader(n)')
           => leaderKey # NoMember \/ (\E n \in Members : KnowsALeader(n)) \/ Settled(m)'
    BY <1>1, <1>7
  <2>. QED
    BY <2>1, <2>2 DEF Coherent
<1>25. Valid(initialize) => initialize' = initialize
  BY <1>8, <1>12, <1>13 DEF Coherent
<1>. QED
  BY <1>20, <1>21, <1>22, <1>23, <1>24, <1>25 DEF Coherent

LEMMA OldStep ==
    ASSUME BootstrapInv, Old, NEW m \in Members, MemberStep(m)
    PROVE  Old'
<1>. USE NoMemberAssumption DEF BootstrapInv, BootstrapTypeOK, JobInv, Old, NotRead, Valid, Empty, Unusable, OldCluster, cluster, node, processes
<1>1. CASE LoadCluster(m)
  BY <1>1 DEF LoadCluster
<1>2. CASE RestoreInitialize(m)
  BY <1>2 DEF RestoreInitialize, WriteInitialize, EndCycle
<1>3. CASE TaskInProgress(m)
  BY <1>3 DEF TaskInProgress, EndCycle
<1>4. CASE BootstrapFromLeader(m)
  BY <1>4 DEF BootstrapFromLeader, InCycle, EndCycle
<1>5. CASE WinInitialize(m)
  BY <1>5 DEF WinInitialize, RaceForInitialize, InCycle, CanInitialize, EndCycle
<1>6. CASE LoseInitialize(m)
  BY <1>6 DEF LoseInitialize, RaceForInitialize, InCycle, CanInitialize, EndCycle, Mishap
<1>7. CASE WaitForLeader(m)
  BY <1>7 DEF WaitForLeader, InCycle, EndCycle
<1>8. CASE SysidMismatch(m)
  BY <1>8 DEF SysidMismatch, WithData, InCycle, Exit, EndCycle
<1>9. CASE AbortStart(m)
  BY <1>9 DEF AbortStart, WithData, InCycle, Exit, EndCycle
<1>10. CASE ClaimInitialize(m)
  BY <1>10 DEF ClaimInitialize, WithData, InCycle, WriteInitialize
<1>11. CASE RecoverData(m)
  BY <1>11 DEF RecoverData, MayJoin, WithData, InCycle, EndCycle
<1>12. CASE Acquire(m)
  BY <1>12 DEF Acquire, MayJoin, WithData, InCycle, EndCycle
<1>13. CASE Follow(m)
  BY <1>13 DEF Follow, MayJoin, WithData, InCycle, EndCycle
<1>14. CASE WaitForRecovery(m)
  BY <1>14 DEF WaitForRecovery, PostBootstrap, InCycle, EndCycle
<1>15. CASE StartPostBootstrap(m)
  BY <1>15 DEF StartPostBootstrap, PostBootstrap, Failed, InCycle, EndCycle
<1>16. CASE CancelInitialization(m)
  BY <1>16 DEF CancelInitialization, PostBootstrap, InCycle, Failed, RemoveInitialize, EndCycle, Mishap
<1>17. CASE MoveDataDirectory(m)
  BY <1>17 DEF MoveDataDirectory, EndJob
<1>18. CASE Initialize(m)
  BY <1>18 DEF Initialize, PostBootstrap, InCycle, Failed, WriteInitialize
<1>19. CASE TakeLeader(m)
  BY <1>19 DEF TakeLeader, EndCycle
<1>20. CASE RunBootstrap(m)
  BY <1>20 DEF RunBootstrap, EndJob, Mishap
<1>21. CASE RunPostBootstrap(m)
  BY <1>21 DEF RunPostBootstrap, EndJob, Mishap
<1>22. CASE RunClone(m)
  BY <1>22 DEF RunClone, EndJob, Cloned, NotCloned, Mishap, CloneMembers
<1>23. CASE RunBootstrapStandbyLeader(m)
  BY <1>23 DEF RunBootstrapStandbyLeader, EndJob, Cloned, NotCloned, Mishap
<1>24. CASE EndOfRecovery(m)
  BY <1>24 DEF EndOfRecovery
<1>25. CASE CrashMember(m)
  BY <1>25 DEF CrashMember, EndJob, EndCycle, Mishap
<1>26. CASE StartPatroni(m)
  BY <1>26 DEF StartPatroni
<1>. QED
  BY <1>1, <1>2, <1>3, <1>4, <1>5, <1>6, <1>7, <1>8, <1>9, <1>10, <1>11, <1>12, <1>13,
     <1>14, <1>15, <1>16, <1>17, <1>18, <1>19, <1>20, <1>21, <1>22, <1>23, <1>24, <1>25, <1>26
  DEF MemberStep, BootstrapCycle, Task

(* There is one cluster, or the one of the beginning. *)
OneCluster == Coherent \/ Old

LEMMA OneClusterStep ==
    ASSUME BootstrapInv, OneCluster, KeysAreKept, BootstrapNext
    PROVE  OneCluster' /\ (Valid(initialize) => initialize' = initialize)
<1>. USE DEF KeysAreKept
<1>1. ASSUME NEW m \in Members, MemberStep(m)
      PROVE  OneCluster' /\ (Valid(initialize) => initialize' = initialize)
  <2>1. CASE Coherent
    BY <1>1, <2>1, CoherentStep DEF OneCluster
  <2>2. CASE Old
    BY <1>1, <2>2, OldStep DEF OneCluster, Old
  <2>. QED
    BY <2>1, <2>2 DEF OneCluster
<1>2. CASE LeaderKeyExpires
  <2>1. Coherent => Coherent'
    BY <1>2 DEF LeaderKeyExpires, Coherent, Lasting, Settled, Bootstraps, KnowsALeader,
                node, processes
  <2>2. Old => Old'
    BY <1>2 DEF LeaderKeyExpires, Old, node, processes
  <2>. QED
    BY <1>2, <2>1, <2>2 DEF OneCluster, LeaderKeyExpires
<1>. QED
  BY <1>1, <1>2 DEF BootstrapNext, MemberStep

LEMMA OneClusterInductive ==
    ASSUME KeysAreKept
    PROVE  BootstrapSpec => [](BootstrapInv /\ OneCluster)
<1>1. BootstrapInit => OneCluster
  <2>1. BootstrapInit /\ initialize = Empty => Coherent
    BY DEF KeysAreKept, BootstrapInit, Coherent, Lasting, Settled, Bootstraps, KnowsALeader,
           NotRead, Valid, Empty, OldCluster
  <2>2. BootstrapInit /\ initialize = OldCluster => Old
    BY DEF BootstrapInit, Old, NotRead
  <2>. QED
    BY <2>1, <2>2 DEF KeysAreKept, BootstrapInit, OneCluster
<1>2. BootstrapInv /\ OneCluster /\ [BootstrapNext]_bootstrapVars => OneCluster'
  <2>1. BootstrapInv /\ OneCluster /\ BootstrapNext => OneCluster'
    BY OneClusterStep
  <2>2. OneCluster /\ UNCHANGED bootstrapVars => OneCluster'
    BY DEF OneCluster, Coherent, Old, Lasting, Settled, Bootstraps, KnowsALeader, bootstrapVars
  <2>. QED
    BY <2>1, <2>2
<1>. QED
  BY <1>1, <1>2, BootstrapInductive, PTL DEF BootstrapSpec

(* The leader has the data of the cluster that is in the initialize key. *)
THEOREM LeaderHasTheClustersData ==
    ASSUME KeysAreKept
    PROVE  BootstrapSpec => []LeaderHasTheData
<1>1. BootstrapInv /\ OneCluster => LeaderHasTheData
  <2>. SUFFICES ASSUME BootstrapInv, OneCluster, leaderKey # NoMember, Valid(initialize)
                PROVE  dataDir[leaderKey] = initialize
    BY DEF LeaderHasTheData
  <2>1. leaderKey \in Members /\ JobInv(leaderKey)
    BY DEF BootstrapInv, BootstrapTypeOK
  <2>2. Lasting(leaderKey)
    BY <2>1 DEF JobInv, Lasting
  <2>. QED
    BY <2>1, <2>2 DEF OneCluster, Coherent, Old
<1>. QED
  BY <1>1, OneClusterInductive, PTL

(* The system identifier in the initialize key is never removed or replaced:
   not by a member that restores the key, claims it for its data, races for
   it, or gives it back after a failed bootstrap. *)
THEOREM ClusterStays ==
    ASSUME KeysAreKept
    PROVE  BootstrapSpec => ClusterIsNotReplaced
<1>1. BootstrapInv /\ OneCluster /\ [BootstrapNext]_bootstrapVars
         => [Valid(initialize) => initialize' = initialize]_bootstrapVars
  BY OneClusterStep
<1>. QED
  BY <1>1, OneClusterInductive, PTL DEF BootstrapSpec, ClusterIsNotReplaced
=============================================================================
