----------------------------- MODULE Bootstrap -----------------------------
(***************************************************************************)
(* How a cluster comes into being: members with empty data directories race *)
(* for the initialize key, the winner bootstraps Postgres in a background   *)
(* task, completes it, writes the system identifier and the leader key, and *)
(* the others copy its data. A member that fails gives the key back, and    *)
(* stops; the key of a member that crashes stays.                           *)
(*                                                                          *)
(* The HA loop reads the cluster and acts on it later (read); what it       *)
(* writes in one cycle are separate steps.                                  *)
(***************************************************************************)
EXTENDS Members, Integers, FiniteSets

CONSTANTS
    CanBootstrap,  \* members with a 'bootstrap' section and without nofailover
    Standby,       \* is it a standby cluster: the possible answers
    Overwrites,    \* does take_leader overwrite the key: the possible answers
    Origins,       \* how it begins: "new" (nothing is there), "existing" (the
                   \* members have data and the cluster is initialized), or
                   \* "wiped" (the same, but the keys are gone)
    CancelIsSlow,  \* a crash may come while a failed bootstrap is cleaned up, or
                   \* another member may copy its data
    MaxMishaps     \* lost answers, failed scripts and crashes

ASSUME BootstrapAssumption ==
    /\ CanBootstrap \subseteq Members
    /\ Standby \subseteq BOOLEAN /\ Overwrites \subseteq BOOLEAN
    /\ Origins \subseteq {"new", "existing", "wiped"}
    /\ CancelIsSlow \in BOOLEAN
    /\ MaxMishaps \in Nat

(* A cluster is known by its system identifier. *)
Empty == 0      \* no data, no initialize key
Unusable == -1  \* data without a system identifier, the key with the value ""
OldCluster == 1
Remote == 2     \* another one, which a standby cluster may follow
Valid(sysid) == sysid > 0

VARIABLES
    initialize,    \* the initialize key
    leaderKey,     \* the leader key
    dataDir,       \* the data directory of a member
    postgres,      \* Postgres: stopped, replica, recovering, master
    called,        \* cb_called: this Patroni has started Postgres
    alive,         \* Patroni runs
    read,          \* the cluster as the HA loop has read it, and what comes next
    memberJob,     \* the task of the executor, or the cleaning up
    bootstrapping, \* state_handler.bootstrapping
    result,        \* _async_response
    clusters,      \* how many clusters there have been
    mishaps,
    kind           \* the variant: [standby, overwrites]

bootstrapVars == <<initialize, leaderKey, dataDir, postgres, called, alive, read,
                   memberJob, bootstrapping, result, clusters, mishaps, kind>>
cluster == <<initialize, leaderKey>>
node == <<dataDir, postgres, called>>
processes == <<alive, memberJob, bootstrapping, result>>

Steps == {"none", "cycle", "claimed", "initialized"}
NotRead == [leader |-> NoMember, init |-> Empty, next |-> "none"]
MemberJobs == {"none", "bootstrap", "post_bootstrap", "standby", "clone", "cancel"}

BootstrapTypeOK ==
    /\ initialize \in Unusable..clusters
    /\ leaderKey \in Members \cup {NoMember}
    /\ dataDir \in [Members -> Unusable..clusters]
    /\ postgres \in [Members -> {"stopped", "replica", "recovering", "master"}]
    /\ called \in [Members -> BOOLEAN]
    /\ alive \in [Members -> BOOLEAN]
    /\ read \in [Members -> [leader : Members \cup {NoMember},
                             init : Unusable..clusters, next : Steps]]
    /\ memberJob \in [Members -> MemberJobs]
    /\ bootstrapping \in [Members -> BOOLEAN]
    /\ result \in [Members -> {"None", "True", "False"}]
    /\ clusters \in Nat
    /\ mishaps \in 0..MaxMishaps
    /\ kind \in [standby : Standby, overwrites : Overwrites]

(* Data that is there at the beginning, perhaps with Postgres running. *)
WithOldData ==
    /\ dataDir \in [Members -> {Empty, OldCluster, Remote}]
    /\ \E m \in Members : dataDir[m] = OldCluster
    /\ postgres \in [Members -> {"stopped", "replica", "master"}]
    /\ \A m \in Members : dataDir[m] = Empty => postgres[m] = "stopped"
    /\ \A m, n \in Members : postgres[m] = "master" /\ postgres[n] = "master" => m = n

BootstrapInit ==
    /\ \/ /\ "new" \in Origins
          /\ initialize = Empty
          /\ dataDir = [m \in Members |-> Empty]
          /\ postgres = [m \in Members |-> "stopped"]
       \/ "existing" \in Origins /\ initialize = OldCluster /\ WithOldData
       \/ "wiped" \in Origins /\ initialize = Empty /\ WithOldData
    /\ leaderKey = NoMember
    /\ called = [m \in Members |-> FALSE]
    /\ alive = [m \in Members |-> TRUE]
    /\ read = [m \in Members |-> NotRead]
    /\ memberJob = [m \in Members |-> "none"]
    /\ bootstrapping = [m \in Members |-> FALSE]
    /\ result = [m \in Members |-> "None"]
    /\ clusters = Remote
    /\ mishaps = 0
    /\ kind \in [standby : Standby, overwrites : Overwrites]

Mishap == mishaps < MaxMishaps /\ mishaps' = mishaps + 1

-----------------------------------------------------------------------------
(* The initialize key. *)

(* AbstractDCS.initialize: the key is created, or its value is set. *)
CanInitialize(createNew) == createNew <=> initialize = Empty

(* The system identifier is written, or the request fails: whether it does is
   not looked at. *)
WriteInitialize(m) ==
    \/ /\ initialize' = IF CanInitialize(read[m].init = Empty) THEN dataDir[m]
                        ELSE initialize
       /\ UNCHANGED mishaps
    \/ UNCHANGED initialize /\ Mishap

(* cancel_initialization: the key is removed, whoever has written it. *)
RemoveInitialize == initialize' = Empty

-----------------------------------------------------------------------------
(* The HA loop. *)

LoadCluster(m) ==
    /\ alive[m] /\ read[m].next = "none" /\ memberJob[m] # "cancel"
    /\ read' = [read EXCEPT ![m] =
                  [leader |-> leaderKey, init |-> initialize, next |-> "cycle"]]
    /\ UNCHANGED <<cluster, node, processes, clusters, mishaps, kind>>

EndCycle(m) == read' = [read EXCEPT ![m] = NotRead]

(* The leader restores the initialize key if it is missing. *)
RestoreInitialize(m) ==
    /\ alive[m] /\ read[m].next = "cycle"
    /\ read[m].leader = m /\ ~Valid(read[m].init)
    /\ WriteInitialize(m)
    /\ EndCycle(m)
    /\ UNCHANGED <<leaderKey, node, processes, clusters, kind>>

(* Nothing is done about the data while a task runs. *)
TaskInProgress(m) ==
    /\ memberJob[m] # "none" /\ read[m].next = "cycle"
    /\ EndCycle(m)
    /\ UNCHANGED <<cluster, node, processes, clusters, mishaps, kind>>

(* A cycle of a member whose executor is free. *)
InCycle(m) ==
    /\ alive[m] /\ memberJob[m] = "none" /\ read[m].next = "cycle"
    /\ ~(read[m].leader = m /\ ~Valid(read[m].init))

(* Ha.bootstrap with an empty data directory: copy the leader, *)
BootstrapFromLeader(m) ==
    /\ InCycle(m) /\ ~bootstrapping[m] /\ dataDir[m] = Empty
    /\ read[m].leader # NoMember
    /\ memberJob' = [memberJob EXCEPT ![m] = "clone"]
    /\ EndCycle(m)
    /\ UNCHANGED <<cluster, node, alive, bootstrapping, result, clusters,
                   mishaps, kind>>

(* race for the initialize key, *)
RaceForInitialize(m) ==
    /\ InCycle(m) /\ ~bootstrapping[m] /\ dataDir[m] = Empty
    /\ read[m].leader = NoMember /\ read[m].init = Empty /\ m \in CanBootstrap

(* Mutant: the key is written as if it were there already. *)
WinWithoutRace(m) ==
    /\ RaceForInitialize(m)
    /\ initialize' = Unusable
    /\ bootstrapping' = [bootstrapping EXCEPT ![m] = TRUE]
    /\ result' = [result EXCEPT ![m] = "None"]
    /\ memberJob' = [memberJob EXCEPT ![m] = IF kind.standby THEN "standby" ELSE "bootstrap"]
    /\ EndCycle(m)
    /\ UNCHANGED <<leaderKey, node, alive, clusters, mishaps, kind>>

WinInitialize(m) ==
    /\ RaceForInitialize(m)
    /\ CanInitialize(TRUE)
    /\ initialize' = Unusable
    /\ bootstrapping' = [bootstrapping EXCEPT ![m] = TRUE]
    /\ result' = [result EXCEPT ![m] = "None"]
    /\ memberJob' = [memberJob EXCEPT ![m] = IF kind.standby THEN "standby" ELSE "bootstrap"]
    /\ EndCycle(m)
    /\ UNCHANGED <<leaderKey, node, alive, clusters, mishaps, kind>>

(* but the answer may be lost, and the retry is told that the key exists, *)
LoseInitialize(m) ==
    /\ RaceForInitialize(m)
    /\ IF CanInitialize(TRUE) THEN Mishap /\ initialize' = Unusable
       ELSE UNCHANGED <<mishaps, initialize>>
    /\ EndCycle(m)
    /\ UNCHANGED <<leaderKey, node, processes, clusters, kind>>

(* or wait for the leader. *)
WaitForLeader(m) ==
    /\ InCycle(m) /\ ~bootstrapping[m] /\ ~Valid(dataDir[m])
    /\ ~(dataDir[m] = Empty /\ read[m].leader # NoMember)
    /\ ~RaceForInitialize(m)
    /\ EndCycle(m)
    /\ UNCHANGED <<cluster, node, processes, clusters, mishaps, kind>>

(* sys.exit: Patroni shuts down, with Postgres, and gives the leader key back. *)
Exit(m) ==
    /\ alive' = [alive EXCEPT ![m] = FALSE]
    /\ postgres' = [postgres EXCEPT ![m] = "stopped"]
    /\ called' = [called EXCEPT ![m] = FALSE]
    /\ leaderKey' = IF leaderKey = m THEN NoMember ELSE leaderKey
    /\ EndCycle(m)
    /\ UNCHANGED <<initialize, dataDir, memberJob, bootstrapping, result, clusters,
                   mishaps, kind>>

WithData(m) == InCycle(m) /\ ~bootstrapping[m] /\ Valid(dataDir[m])

(* The data is that of another cluster. *)
SysidMismatch(m) ==
    /\ WithData(m)
    /\ Valid(read[m].init) /\ read[m].init # dataDir[m]
    /\ Exit(m)

(* There is no initialize key, and the primary may be elsewhere. *)
AbortStart(m) ==
    /\ WithData(m)
    /\ ~Valid(read[m].init) /\ read[m].leader = NoMember
    /\ ~called[m] /\ postgres[m] \in {"replica", "recovering"}
    /\ Exit(m)

(* "bootstrap", but the data directory is not empty. *)
ClaimInitialize(m) ==
    /\ WithData(m)
    /\ ~Valid(read[m].init) /\ read[m].leader = NoMember
    /\ called[m] \/ postgres[m] \notin {"replica", "recovering"}
    /\ WriteInitialize(m)
    /\ read' = [read EXCEPT ![m].next = "claimed"]
    /\ UNCHANGED <<leaderKey, node, processes, clusters, kind>>

(* Mutant: the system identifiers are not compared. *)
JoinAnyCluster(m) ==
    \/ alive[m] /\ read[m].next = "claimed"
    \/ WithData(m) /\ Valid(read[m].init)

(* The rest of the cycle: Postgres is started if it does not run, and a member
   that sees no leader takes the key. *)
MayJoin(m) ==
    \/ alive[m] /\ read[m].next = "claimed"
    \/ /\ WithData(m)
       /\ \/ read[m].init = dataDir[m]
          \/ ~Valid(read[m].init) /\ read[m].leader # NoMember

RecoverData(m) ==
    /\ MayJoin(m) /\ postgres[m] = "stopped"
    /\ postgres' = [postgres EXCEPT ![m] = "replica"]
    /\ called' = [called EXCEPT ![m] = TRUE]
    /\ EndCycle(m)
    /\ UNCHANGED <<cluster, dataDir, processes, clusters, mishaps, kind>>

Acquire(m) ==
    /\ MayJoin(m) /\ postgres[m] # "stopped" /\ read[m].leader = NoMember
    /\ IF leaderKey = NoMember
       THEN /\ leaderKey' = m
            /\ postgres' = [postgres EXCEPT ![m] =
                              IF kind.standby THEN "replica" ELSE "master"]
       ELSE /\ postgres' = [postgres EXCEPT ![m] = "replica"]
            /\ UNCHANGED leaderKey
    /\ called' = [called EXCEPT ![m] = TRUE]
    /\ EndCycle(m)
    /\ UNCHANGED <<initialize, dataDir, processes, clusters, mishaps, kind>>

(* A member that sees a leader follows it, or is it. *)
Follow(m) ==
    /\ MayJoin(m)
    /\ postgres[m] # "stopped" /\ read[m].leader # NoMember
    /\ postgres' = [postgres EXCEPT ![m] =
                      IF read[m].leader = m /\ ~kind.standby THEN "master" ELSE "replica"]
    /\ called' = [called EXCEPT ![m] = TRUE]
    /\ EndCycle(m)
    /\ UNCHANGED <<cluster, dataDir, processes, clusters, mishaps, kind>>

-----------------------------------------------------------------------------
(* The tasks of the executor. *)

EndJob(m) == memberJob' = [memberJob EXCEPT ![m] = "none"]

(* Bootstrap.bootstrap: initdb or a script, then Postgres is started; after a
   script it may recover to the end of an archive first. *)
RunBootstrap(m) ==
    /\ memberJob[m] = "bootstrap"
    /\ EndJob(m)
    /\ \/ /\ clusters' = clusters + 1
          /\ dataDir' = [dataDir EXCEPT ![m] = clusters + 1]
          /\ postgres' = [postgres EXCEPT ![m] = "recovering"]
          /\ called' = [called EXCEPT ![m] = TRUE]
          /\ UNCHANGED mishaps
       \/ /\ Mishap
          /\ \E left \in {Empty, Unusable} : dataDir' = [dataDir EXCEPT ![m] = left]
          /\ UNCHANGED <<clusters, postgres, called>>
    /\ UNCHANGED <<cluster, read, alive, bootstrapping, result, kind>>

EndOfRecovery(m) ==
    /\ postgres[m] = "recovering"
    /\ postgres' = [postgres EXCEPT ![m] = "master"]
    /\ UNCHANGED <<cluster, dataDir, called, processes, read, clusters, mishaps, kind>>

(* Bootstrap.post_bootstrap: the roles and the script. *)
RunPostBootstrap(m) ==
    /\ memberJob[m] = "post_bootstrap"
    /\ EndJob(m)
    /\ \/ result' = [result EXCEPT ![m] = "True"] /\ UNCHANGED mishaps
       \/ result' = [result EXCEPT ![m] = "False"] /\ Mishap
    /\ UNCHANGED <<cluster, node, read, alive, bootstrapping, clusters, kind>>

(* Ha.clone: a failed copy is removed. *)
Cloned(m, sysid) ==
    /\ dataDir' = [dataDir EXCEPT ![m] = sysid]
    /\ postgres' = [postgres EXCEPT ![m] = "replica"]
    /\ called' = [called EXCEPT ![m] = TRUE]

NotCloned(m) ==
    /\ dataDir' = [dataDir EXCEPT ![m] = Empty]
    /\ UNCHANGED <<postgres, called>>

(* get_clone_member: any member that runs. The Postgres of a failed bootstrap is about to
   be stopped. *)
CloneMembers(m) ==
    {source \in Members \ {m} :
        /\ postgres[source] \in {"master", "replica"}
        /\ memberJob[source] = "cancel" => CancelIsSlow}

RunClone(m) ==
    /\ memberJob[m] = "clone"
    /\ EndJob(m)
    /\ \/ /\ \E source \in CloneMembers(m) : Cloned(m, dataDir[source])
          /\ UNCHANGED mishaps
       \/ /\ CloneMembers(m) = {}
          /\ NotCloned(m)
          /\ UNCHANGED mishaps
       \/ NotCloned(m) /\ Mishap
    /\ UNCHANGED <<cluster, read, alive, bootstrapping, result, clusters, kind>>

(* bootstrap_standby_leader: nothing is left to do after the copy. *)
RunBootstrapStandbyLeader(m) ==
    /\ memberJob[m] = "standby"
    /\ EndJob(m)
    /\ \/ /\ Cloned(m, Remote)
          /\ result' = [result EXCEPT ![m] = "True"]
          /\ UNCHANGED mishaps
       \/ /\ NotCloned(m)
          /\ result' = [result EXCEPT ![m] = "False"]
          /\ Mishap
    /\ UNCHANGED <<cluster, read, alive, bootstrapping, clusters, kind>>

-----------------------------------------------------------------------------
(* Ha.post_bootstrap, in the cycles after the task. *)

PostBootstrap(m) == InCycle(m) /\ bootstrapping[m]


Failed(m) == postgres[m] = "stopped" \/ result[m] = "False"

WaitForRecovery(m) ==
    /\ PostBootstrap(m) /\ ~Failed(m) /\ result[m] = "None"
    /\ postgres[m] # "master"
    /\ EndCycle(m)
    /\ UNCHANGED <<cluster, node, processes, clusters, mishaps, kind>>

StartPostBootstrap(m) ==
    /\ PostBootstrap(m) /\ ~Failed(m) /\ result[m] = "None"
    /\ postgres[m] = "master"
    /\ memberJob' = [memberJob EXCEPT ![m] = "post_bootstrap"]
    /\ EndCycle(m)
    /\ UNCHANGED <<cluster, node, alive, bootstrapping, result, clusters, mishaps, kind>>

(* cancel_initialization, after a failed task or because the watchdog cannot
   be activated: the key is removed (or the request fails) before Postgres is
   stopped and the data directory moved away. *)
CancelInitialization(m) ==
    /\ PostBootstrap(m)
    /\ \/ Failed(m) /\ RemoveInitialize /\ UNCHANGED mishaps
       \/ Failed(m) /\ Mishap /\ UNCHANGED initialize
       \/ result[m] = "True" /\ ~Failed(m) /\ Mishap /\ RemoveInitialize
    /\ memberJob' = [memberJob EXCEPT ![m] = "cancel"]
    /\ EndCycle(m)
    /\ UNCHANGED <<leaderKey, node, alive, bootstrapping, result, clusters, kind>>

(* Mutant: the data directory is left where it is. *)
LeaveDataDirectory(m) ==
    /\ memberJob[m] = "cancel"
    /\ EndJob(m)
    /\ postgres' = [postgres EXCEPT ![m] = "stopped"]
    /\ called' = [called EXCEPT ![m] = FALSE]
    /\ alive' = [alive EXCEPT ![m] = FALSE]
    /\ bootstrapping' = [bootstrapping EXCEPT ![m] = FALSE]
    /\ UNCHANGED <<cluster, dataDir, read, result, clusters, mishaps, kind>>

MoveDataDirectory(m) ==
    /\ memberJob[m] = "cancel"
    /\ EndJob(m)
    /\ postgres' = [postgres EXCEPT ![m] = "stopped"]
    /\ dataDir' = [dataDir EXCEPT ![m] = Empty]
    /\ called' = [called EXCEPT ![m] = FALSE]
    /\ alive' = [alive EXCEPT ![m] = FALSE]
    /\ bootstrapping' = [bootstrapping EXCEPT ![m] = FALSE]
    /\ UNCHANGED <<cluster, read, result, clusters, mishaps, kind>>

(* The cluster is there: the system identifier is written, *)
Initialize(m) ==
    /\ PostBootstrap(m) /\ ~Failed(m) /\ result[m] = "True"
    /\ bootstrapping' = [bootstrapping EXCEPT ![m] = FALSE]
    /\ WriteInitialize(m)
    /\ read' = [read EXCEPT ![m].next = "initialized"]
    /\ UNCHANGED <<leaderKey, node, alive, memberJob, result, clusters, kind>>

(* and then the leader key, which some back ends overwrite; the answer is
   ignored. *)
TakeLeader(m) ==
    /\ alive[m] /\ read[m].next = "initialized"
    /\ leaderKey' = IF leaderKey = NoMember \/ kind.overwrites THEN m ELSE leaderKey
    /\ EndCycle(m)
    /\ UNCHANGED <<initialize, node, processes, clusters, mishaps, kind>>

-----------------------------------------------------------------------------
(* Crashes. *)

(* Patroni dies, and Postgres with it or not. A copy or an initdb is left
   unfinished. *)
CrashMember(m) ==
    /\ alive[m] /\ (memberJob[m] = "cancel" => CancelIsSlow)
    /\ Mishap
    /\ alive' = [alive EXCEPT ![m] = FALSE]
    /\ \/ UNCHANGED postgres
       \/ postgres[m] # "stopped" /\ postgres' = [postgres EXCEPT ![m] = "stopped"]
    /\ IF memberJob[m] \in {"bootstrap", "standby", "clone"}
       THEN \E left \in {Empty, Unusable} : dataDir' = [dataDir EXCEPT ![m] = left]
       ELSE UNCHANGED dataDir
    /\ called' = [called EXCEPT ![m] = FALSE]
    /\ EndJob(m)
    /\ bootstrapping' = [bootstrapping EXCEPT ![m] = FALSE]
    /\ EndCycle(m)
    /\ UNCHANGED <<cluster, result, clusters, kind>>

(* The supervisor starts Patroni again. *)
StartPatroni(m) ==
    /\ ~alive[m]
    /\ alive' = [alive EXCEPT ![m] = TRUE]
    /\ UNCHANGED <<cluster, node, memberJob, bootstrapping, result, read, clusters,
                   mishaps, kind>>

LeaderKeyExpires ==
    /\ leaderKey # NoMember /\ ~alive[leaderKey]
    /\ leaderKey' = NoMember
    /\ UNCHANGED <<initialize, node, processes, read, clusters, mishaps, kind>>

-----------------------------------------------------------------------------
BootstrapCycle(m) ==
    \/ LoadCluster(m) \/ RestoreInitialize(m) \/ TaskInProgress(m)
    \/ BootstrapFromLeader(m)
    \/ WinInitialize(m) \/ LoseInitialize(m) \/ WaitForLeader(m)
    \/ SysidMismatch(m) \/ AbortStart(m) \/ ClaimInitialize(m) \/ RecoverData(m)
    \/ Acquire(m) \/ Follow(m) \/ WaitForRecovery(m) \/ StartPostBootstrap(m)
    \/ CancelInitialization(m) \/ MoveDataDirectory(m) \/ Initialize(m)
    \/ TakeLeader(m)

Task(m) ==
    \/ RunBootstrap(m) \/ RunPostBootstrap(m) \/ RunClone(m)
    \/ RunBootstrapStandbyLeader(m)

BootstrapNext ==
    \/ \E m \in Members :
          BootstrapCycle(m) \/ Task(m) \/ EndOfRecovery(m) \/ CrashMember(m) \/ StartPatroni(m)
    \/ LeaderKeyExpires

BootstrapSpec == BootstrapInit /\ [][BootstrapNext]_bootstrapVars

(* The loop, the tasks and Postgres go on, and Patroni is supervised. *)
BootstrapFairSpec ==
    /\ BootstrapSpec
    /\ \A m \in Members :
          /\ WF_bootstrapVars(BootstrapCycle(m))
          /\ WF_bootstrapVars(Task(m))
          /\ WF_bootstrapVars(EndOfRecovery(m))
          /\ WF_bootstrapVars(StartPatroni(m))
    /\ WF_bootstrapVars(LeaderKeyExpires)

-----------------------------------------------------------------------------
(* Properties. *)

HasTheRace(m) ==
    \/ bootstrapping[m] /\ memberJob[m] # "cancel"
    \/ read[m].next = "initialized"

(* Only one member at a time bootstraps a cluster: the key keeps the others
   away until the winner has finished or given up. *)
OneBootstrapper ==
    \A m, n \in Members : HasTheRace(m) /\ HasTheRace(n) => m = n

(* The leader's data is that of the initialized cluster. *)
LeaderHasTheData ==
    leaderKey # NoMember /\ Valid(initialize) => dataDir[leaderKey] = initialize

(* Once the initialize key holds a system identifier it keeps it: no other
   cluster takes the place of the one that is there. *)
ClusterIsNotReplaced ==
    [][Valid(initialize) => initialize' = initialize]_bootstrapVars

(* The cluster comes up, unless a member has left the initialize key behind
   by a crash, or by an answer that was lost, so that everybody waits for a
   leader. *)
Abandoned ==
    /\ initialize = Unusable
    /\ \A m \in Members : ~bootstrapping[m] /\ ~Valid(dataDir[m])

ClusterComesUp == <>[](leaderKey # NoMember \/ Abandoned)
=============================================================================
