--------------------------------- MODULE Ha ---------------------------------
(***************************************************************************)
(* The leader lock of Patroni and the Postgres role it protects: the HA    *)
(* loop (ha.py), the background task it or the REST API schedules          *)
(* (async_executor.py), the promote, restart, stop and follow operations   *)
(* of Postgres (postgresql/__init__.py), the watchdog device               *)
(* (watchdog/base.py, watchdog/linux.py) and the leader key with a TTL     *)
(* (dcs/etcd.py).                                                          *)
(*                                                                         *)
(* One node is a host with a Postgres data directory, a watchdog device    *)
(* and a Patroni process. The process has two threads here: the HA loop,   *)
(* whose position is pc, and at most one background task, whose position   *)
(* is task. A request to the DCS is processed in one step and answered in  *)
(* a later one, so that time can pass and other nodes can act in between;  *)
(* an answer may be lost.                                                  *)
(*                                                                         *)
(* Time is discrete and the same for all hosts; timers count down. A node  *)
(* that takes no step is a node that hangs: the only obligation is that    *)
(* the answer that renews the lock is handled within MaxDelay ticks of the *)
(* renewal, which is what safety_margin is there to cover.                 *)
(*                                                                         *)
(* The configuration modelled: not paused, no synchronous mode, no standby *)
(* cluster, a required watchdog that can be disabled, and an initialized   *)
(* cluster whose members all have data.                                    *)
(***************************************************************************)
EXTENDS Integers

CONSTANTS
    Nodes,         \* the members of the cluster
    NoNode,        \* no owner
    TTL,           \* the TTL of the leader key, in ticks
    SafetyMargin,  \* watchdog.safety_margin, in ticks
    MaxDelay,      \* from the renewal in the DCS to the handling of its answer
    Races          \* the unguarded overlaps of two threads that may happen

ASSUME NodesAssumption == NoNode \notin Nodes

ASSUME TimingAssumption ==
    /\ TTL \in Nat /\ SafetyMargin \in Nat /\ MaxDelay \in Nat
    /\ SafetyMargin < TTL
    /\ MaxDelay <= SafetyMargin

(* The overlaps that the code does not guard against. demote('offline') from
   the DCSError handler while a restart is under way (the FIXME in demote), a
   restart requested while Postgres is down, and a shutdown of Patroni while a
   restart is under way. *)
RaceNames == {"offlineDuringRestart", "restartWhileDown", "shutdownDuringRestart"}

ASSUME RacesAssumption == Races \subseteq RaceNames

VARIABLES
    leader,      \* the DCS: owner of the leader key, or NoNode
    ttl,         \* the DCS: ticks until the leader key expires
    pg,          \* Postgres of a host
    dataDir,     \* what Postgres would start as, by its data directory
    wd,          \* ticks until the watchdog device resets the host; 0 if disarmed
    pc,          \* the HA loop of a node
    mode,        \* the mode of the demotion in progress
    recovering,  \* self.recovering
    wdOpen,      \* the watchdog device is held open by this process
    role,        \* self.state_handler.role
    task,        \* the background task: what its thread does next
    prePromoteFailed  \* the last pre_promote script failed

dcs  == <<leader, ttl>>
host == <<pg, dataDir, wd>>
loop == <<pc, mode, recovering, wdOpen>>
job  == <<role, task, prePromoteFailed>>
vars == <<leader, ttl, pg, dataDir, wd, pc, mode, recovering, wdOpen,
          role, task, prePromoteFailed>>

(* Mutant: the watchdog ignores safety_margin. *)
NoMarginTimeout == TTL

(* WatchdogConfig.timeout. *)
WatchdogTimeout == TTL - SafetyMargin

PgStates == {"replica", "primary", "stopping", "stopped"}
Roles == {"replica", "master", "demoted"}
DemoteModes == {"offline", "immediate", "nolock"}
Views == {"unlocked", "hasLock", "otherLock"}
Pcs == Views \cup {"idle", "acquired", "follow", "renewed", "notRenewed",
                   "busyRenewed", "stop", "demoted",
                   "shutdown", "exiting", "down"}
RestartTasks == {"restartStop", "restartStart"}
Tasks == {"none", "promotePre", "promoteCommit", "promoteRole", "restartStop",
          "restartStart", "follow", "demoteStop", "demoteStopping",
          "demoteRelease", "finish"}

TypeOK ==
    /\ leader \in Nodes \cup {NoNode}
    /\ ttl \in 0..TTL
    /\ pg \in [Nodes -> PgStates]
    /\ dataDir \in [Nodes -> {"primary", "replica"}]
    /\ wd \in [Nodes -> 0..WatchdogTimeout]
    /\ pc \in [Nodes -> Pcs]
    /\ mode \in [Nodes -> DemoteModes]
    /\ recovering \in [Nodes -> BOOLEAN]
    /\ wdOpen \in [Nodes -> BOOLEAN]
    /\ role \in [Nodes -> Roles]
    /\ task \in [Nodes -> Tasks]
    /\ prePromoteFailed \in [Nodes -> BOOLEAN]

(* Postgres of n accepts writes: it runs as primary, or it was told to stop
   and has not reached the safepoint yet. *)
Writable(n) == pg[n] \in {"primary", "stopping"}

Busy(n) == task[n] # "none"

(* run_cycle holds the lock of the executor from load_cluster_from_dcs to its
   return, so another thread gets it only between two cycles. *)
ExecutorLockFree(n) == pc[n] \in {"idle", "shutdown", "exiting"}

Init ==
    /\ leader = NoNode
    /\ ttl = 0
    /\ pg = [n \in Nodes |-> "replica"]
    /\ dataDir = [n \in Nodes |-> "replica"]
    /\ wd = [n \in Nodes |-> 0]
    /\ pc = [n \in Nodes |-> "idle"]
    /\ mode = [n \in Nodes |-> "offline"]
    /\ recovering = [n \in Nodes |-> FALSE]
    /\ wdOpen = [n \in Nodes |-> FALSE]
    /\ role = [n \in Nodes |-> "replica"]
    /\ task = [n \in Nodes |-> "none"]
    /\ prePromoteFailed = [n \in Nodes |-> FALSE]

-----------------------------------------------------------------------------
(* The leader key: Etcd._update_leader, attempt_to_acquire_leader and
   _delete_leader. Each is one compare-and-swap in the DCS. *)

KeyCreated(n) ==
    /\ leader = NoNode
    /\ leader' = n
    /\ ttl' = TTL

KeyRefreshed(n) ==
    /\ leader = n
    /\ ttl' = TTL
    /\ UNCHANGED leader

KeyDeleted(n) ==
    /\ leader = n
    /\ leader' = NoNode
    /\ ttl' = 0

(* The request of n to delete its key: done, refused, or lost on the way. *)
DeleteLeader(n) == KeyDeleted(n) \/ UNCHANGED dcs

(* update_lock: renewed and answered, renewed but the answer was lost, or not
   renewed. *)
UpdateLeader(n, answered, failed) ==
    \/ KeyRefreshed(n) /\ pc' = [pc EXCEPT ![n] = answered]
    \/ KeyRefreshed(n) /\ pc' = [pc EXCEPT ![n] = failed]
    \/ UNCHANGED dcs /\ pc' = [pc EXCEPT ![n] = failed]

-----------------------------------------------------------------------------
(* Parts of the handlers. *)

(* Watchdog.keepalive: nothing happens unless the device is open. *)
Kept(n) == IF wdOpen[n] THEN WatchdogTimeout ELSE wd[n]

(* Watchdog.disable: the device is disarmed by the process that opened it. *)
DisableWatchdog(n) ==
    /\ wd' = [wd EXCEPT ![n] = IF wdOpen[n] THEN 0 ELSE @]
    /\ wdOpen' = [wdOpen EXCEPT ![n] = FALSE]

(* Postgres after the signal that stops it. *)
Signalled(n) == IF Writable(n) THEN "stopping" ELSE "stopped"

Stopped(n) == IF pg[n] = "stopping" THEN "stopped" ELSE pg[n]

Continue(n, p) == pc' = [pc EXCEPT ![n] = p]

(* demote(m) up to the signal of stop(); the loop waits for Postgres in StopDone. *)
BeginDemote(n, m) ==
    /\ pg' = [pg EXCEPT ![n] = Signalled(n)]
    /\ mode' = [mode EXCEPT ![n] = m]
    /\ Continue(n, "stop")

-----------------------------------------------------------------------------
(* The HA loop. *)

(* Mutant: the watchdog is kept alive in every cycle, whoever has the lock. *)
LoadClusterKeepsAlive(n) ==
    /\ pc[n] = "idle"
    /\ \/ leader = NoNode /\ Continue(n, "unlocked")
       \/ leader = n /\ Continue(n, "hasLock")
       \/ leader \notin {n, NoNode} /\ Continue(n, "otherLock")
    /\ wd' = [wd EXCEPT ![n] = Kept(n)]
    /\ UNCHANGED <<dcs, pg, dataDir, mode, recovering, wdOpen, job>>

(* load_cluster_from_dcs at the beginning of a cycle: what the cycle does depends
   on the leader it saw there, not on the key as it is later. *)
LoadCluster(n) ==
    /\ pc[n] = "idle"
    /\ \/ leader = NoNode /\ Continue(n, "unlocked")
       \/ leader = n /\ Continue(n, "hasLock")
       \/ leader \notin {n, NoNode} /\ Continue(n, "otherLock")
    /\ UNCHANGED <<dcs, host, mode, recovering, wdOpen, job>>

(* get_cluster raises DCSError: a running primary is demoted, unless the query
   in is_leader() fails too. *)
DcsError(n) ==
    /\ pc[n] \in {"idle", "acquired", "follow"}
    /\ \/ /\ pg[n] = "primary"
          /\ task[n] \in RestartTasks => "offlineDuringRestart" \in Races
          /\ BeginDemote(n, "offline")
          /\ UNCHANGED <<dcs, dataDir, wd, recovering, wdOpen, job>>
       \/ /\ pc[n] # "idle"
          /\ Continue(n, "idle")
          /\ UNCHANGED <<dcs, host, mode, recovering, wdOpen, job>>

(* The first part of a cycle that finds no background task. *)
CanAct(n) == pc[n] \in Views /\ ~Busy(n) /\ ~recovering[n]

(* post_recover. *)
PostRecover(n) ==
    /\ pc[n] \in Views /\ ~Busy(n) /\ recovering[n]
    /\ recovering' = [recovering EXCEPT ![n] = FALSE]
    /\ IF pg[n] = "stopped"
       THEN /\ DisableWatchdog(n)
            /\ IF pc[n] = "hasLock"
               THEN /\ role' = [role EXCEPT ![n] = IF @ = "master" THEN "demoted" ELSE @]
                    /\ DeleteLeader(n)
               ELSE UNCHANGED <<dcs, role>>
            /\ Continue(n, "idle")
       ELSE UNCHANGED <<dcs, role, wd, wdOpen, pc>>
    /\ UNCHANGED <<pg, dataDir, mode, task, prePromoteFailed>>

(* recover: Postgres is down. It is started as a replica in the background, or
   crash recovery runs there, or the key is given up (master_start_timeout is
   0), or the DCS fails after the watchdog has been disabled. *)
Recover(n) ==
    /\ CanAct(n)
    /\ pg[n] = "stopped"
    /\ DisableWatchdog(n)
    /\ (pc[n] = "hasLock" /\ KeyRefreshed(n)) \/ UNCHANGED dcs
    /\ \/ /\ task' = [task EXCEPT ![n] = "follow"]
          /\ recovering' = [recovering EXCEPT ![n] = TRUE]
          /\ Continue(n, "idle")
          /\ UNCHANGED mode
       \/ /\ task' = [task EXCEPT ![n] = "finish"]
          /\ Continue(n, "idle")
          /\ UNCHANGED <<mode, recovering>>
       \/ /\ pc[n] = "hasLock"
          /\ mode' = [mode EXCEPT ![n] = "immediate"]
          /\ Continue(n, "stop")
          /\ UNCHANGED <<recovering, task>>
       \/ /\ Continue(n, "idle")
          /\ UNCHANGED <<mode, recovering, task>>
    /\ UNCHANGED <<pg, dataDir, role, prePromoteFailed>>

(* Postgres runs and does not answer a query: the cycle ends. *)
QueryFails(n) ==
    /\ CanAct(n)
    /\ pg[n] # "stopped"
    /\ Continue(n, "idle")
    /\ UNCHANGED <<dcs, host, mode, recovering, wdOpen, job>>

(* process_unhealthy_cluster: nobody owns the key. A primary is always the
   healthiest node; a replica may be. *)
JoinLeaderRace(n) ==
    /\ CanAct(n)
    /\ pg[n] \in {"primary", "replica"}
    /\ pc[n] = "unlocked"
    /\ \/ KeyCreated(n) /\ Continue(n, "acquired")
       \/ KeyCreated(n) /\ Continue(n, "follow")
       \/ UNCHANGED dcs /\ Continue(n, "follow")
    /\ UNCHANGED <<host, mode, recovering, wdOpen, job>>

(* The rest of follow(): a primary is demoted, a replica may be restarted. *)
FollowLeader(n) ==
    \/ /\ pg[n] = "primary"
       /\ BeginDemote(n, "nolock")
       /\ UNCHANGED <<dcs, dataDir, wd, recovering, wdOpen, job>>
    \/ /\ pg[n] # "primary"
       /\ task' = [task EXCEPT ![n] = IF pg[n] = "replica" THEN "follow" ELSE @]
       /\ Continue(n, "idle")
       /\ UNCHANGED <<dcs, host, mode, recovering, wdOpen, role, prePromoteFailed>>
    \/ /\ pg[n] # "primary"
       /\ Continue(n, "idle")
       /\ UNCHANGED <<dcs, host, mode, recovering, wdOpen, job>>

(* follow() after a lost race. *)
FollowAfterRace(n) ==
    /\ pc[n] = "follow"
    /\ FollowLeader(n)

(* process_healthy_cluster without the lock. *)
FollowOther(n) ==
    /\ CanAct(n)
    /\ pg[n] \in {"primary", "replica"}
    /\ pc[n] = "otherLock"
    /\ FollowLeader(n)

(* process_healthy_cluster with the lock: update_lock. *)
UpdateLock(n) ==
    /\ CanAct(n)
    /\ pg[n] \in {"primary", "replica"}
    /\ pc[n] = "hasLock"
    /\ UpdateLeader(n, "renewed", "notRenewed")
    /\ UNCHANGED <<host, mode, recovering, wdOpen, job>>

(* A primary that could not renew the lock is demoted, and so is an instance that
   is still starting. *)
FailedToUpdateLock(n) ==
    /\ pc[n] = "notRenewed"
    /\ \/ BeginDemote(n, "nolock")
       \/ pg[n] # "primary" /\ Continue(n, "idle") /\ UNCHANGED <<pg, mode>>
    /\ UNCHANGED <<dcs, dataDir, wd, recovering, wdOpen, job>>

(* enforce_master_role; open is what the timer of an open device is set to. *)
EnforceMasterRole(n, open) ==
    \/ \* the watchdog cannot be activated
       /\ ~wdOpen[n]
       /\ IF pg[n] = "primary"
          THEN BeginDemote(n, "immediate") /\ UNCHANGED dcs
          ELSE DeleteLeader(n) /\ Continue(n, "idle") /\ UNCHANGED <<pg, mode>>
       /\ UNCHANGED <<wd, wdOpen, job>>
    \/ /\ wdOpen' = [wdOpen EXCEPT ![n] = TRUE]
       /\ wd' = [wd EXCEPT ![n] = IF wdOpen[n] THEN open ELSE WatchdogTimeout]
       /\ Continue(n, "idle")
       /\ UNCHANGED <<pg, mode>>
       /\ \/ \* pre_promote failed: give the key back
             /\ prePromoteFailed[n]
             /\ DeleteLeader(n)
             /\ prePromoteFailed' = [prePromoteFailed EXCEPT ![n] = FALSE]
             /\ UNCHANGED <<role, task>>
          \/ /\ ~prePromoteFailed[n]
             /\ pg[n] = "primary"
             /\ role' = [role EXCEPT ![n] = "master"]
             /\ UNCHANGED <<dcs, task, prePromoteFailed>>
          \/ /\ ~prePromoteFailed[n]
             /\ pg[n] # "primary" /\ role[n] = "master"
             /\ UNCHANGED <<dcs, job>>
          \/ /\ ~prePromoteFailed[n]
             /\ pg[n] # "primary" /\ role[n] # "master"
             /\ task' = [task EXCEPT ![n] = "promotePre"]
             /\ prePromoteFailed' = [prePromoteFailed EXCEPT ![n] = FALSE]
             /\ UNCHANGED <<dcs, role>>

(* The lock was acquired: read the cluster again and promote. *)
TakeOver(n) ==
    /\ pc[n] = "acquired"
    /\ EnforceMasterRole(n, wd[n])
    /\ UNCHANGED <<dataDir, recovering>>

(* The lock was renewed: keepalive, then the master role is enforced, or an
   instance that is still starting is waited for or given up, or a manual failover
   that was asked for demotes in the background. *)
KeepLock(n) ==
    /\ pc[n] = "renewed"
    /\ \/ EnforceMasterRole(n, WatchdogTimeout)
       \/ /\ wd' = [wd EXCEPT ![n] = Kept(n)]
          /\ \/ BeginDemote(n, "immediate")
             \/ Continue(n, "idle") /\ UNCHANGED <<pg, mode>>
          /\ UNCHANGED <<dcs, wdOpen, job>>
       \/ /\ task' = [task EXCEPT ![n] = "demoteStop"]
          /\ wd' = [wd EXCEPT ![n] = Kept(n)]
          /\ Continue(n, "idle")
          /\ UNCHANGED <<dcs, pg, mode, wdOpen, role, prePromoteFailed>>
    /\ UNCHANGED <<dataDir, recovering>>

(* handle_long_action_in_progress of a node that saw itself as the owner. A failed
   update counts as a lost lock. *)
UpdateLockWhileBusy(n) ==
    /\ pc[n] = "hasLock" /\ Busy(n)
    /\ UpdateLeader(n, "busyRenewed", "otherLock")
    /\ UNCHANGED <<host, mode, recovering, wdOpen, job>>

KeepLockWhileBusy(n) ==
    /\ pc[n] = "busyRenewed"
    /\ wd' = [wd EXCEPT ![n] = Kept(n)]
    /\ Continue(n, "idle")
    /\ UNCHANGED <<dcs, pg, dataDir, mode, recovering, wdOpen, job>>

(* Mutant: the restart in progress is not cancelled. *)
LostLockKeepsRestart(n) ==
    /\ pc[n] \in {"unlocked", "otherLock"} /\ Busy(n)
    /\ \/ role[n] = "master" /\ BeginDemote(n, "nolock")
       \/ role[n] # "master" /\ Continue(n, "idle") /\ UNCHANGED <<pg, mode>>
    /\ UNCHANGED <<dcs, dataDir, wd, recovering, wdOpen, job>>

(* handle_long_action_in_progress without the lock: a promotion whose
   pre_promote has not returned is cancelled; otherwise a master is demoted,
   and a restart that has not started Postgres yet is cancelled with it. A
   cancelled critical task does nothing more. *)
LostLockWhileBusy(n) ==
    /\ pc[n] \in {"unlocked", "otherLock"} /\ Busy(n)
    /\ \/ /\ task[n] = "promotePre"
          /\ task' = [task EXCEPT ![n] = "finish"]
          /\ Continue(n, "idle")
          /\ UNCHANGED <<pg, mode>>
       \/ /\ task[n] # "promotePre" /\ role[n] = "master"
          /\ task' = [task EXCEPT ![n] = IF @ \in RestartTasks THEN "finish" ELSE @]
          /\ BeginDemote(n, "nolock")
       \/ /\ task[n] # "promotePre" /\ role[n] # "master"
          /\ Continue(n, "idle")
          /\ UNCHANGED <<pg, mode, task>>
    /\ UNCHANGED <<dcs, dataDir, wd, recovering, wdOpen, role, prePromoteFailed>>

(* stop() returns: no backend can commit, so the watchdog is disabled. *)
StopDone(n) ==
    /\ pc[n] = "stop"
    /\ pg' = [pg EXCEPT ![n] = Stopped(n)]
    /\ DisableWatchdog(n)
    /\ role' = [role EXCEPT ![n] = "demoted"]
    /\ Continue(n, "demoted")
    /\ UNCHANGED <<dcs, dataDir, mode, recovering, task, prePromoteFailed>>

(* The rest of demote: release the key, then start Postgres as a replica, here
   (offline) or in the background, unless get_cluster raises. *)
DemoteDone(n) ==
    /\ pc[n] = "demoted"
    /\ IF mode[n] = "immediate" THEN DeleteLeader(n) ELSE UNCHANGED dcs
    /\ \/ /\ mode[n] = "offline"
          /\ pg' \in {[pg EXCEPT ![n] = p] : p \in {"replica", "stopped"}}
          /\ dataDir' = [dataDir EXCEPT ![n] = "replica"]
          /\ role' = [role EXCEPT ![n] = "replica"]
          /\ UNCHANGED task
       \/ /\ mode[n] # "offline"
          /\ task' = [task EXCEPT ![n] = IF Busy(n) THEN @ ELSE "follow"]
          /\ UNCHANGED <<pg, dataDir, role>>
       \/ /\ mode[n] # "offline"
          /\ UNCHANGED <<pg, dataDir, role, task>>
    /\ mode' = [mode EXCEPT ![n] = "offline"]
    /\ Continue(n, "idle")
    /\ UNCHANGED <<wd, recovering, wdOpen, prePromoteFailed>>

(* SIGTERM between two cycles: stop Postgres, then give the key back. The loop has
   ended; a background task goes on. *)
Shutdown(n) ==
    /\ pc[n] = "idle"
    /\ task[n] \in RestartTasks => "shutdownDuringRestart" \in Races
    /\ pg' = [pg EXCEPT ![n] = Signalled(n)]
    /\ Continue(n, "shutdown")
    /\ UNCHANGED <<dcs, dataDir, wd, mode, recovering, wdOpen, job>>

ShutdownDone(n) ==
    /\ pc[n] = "shutdown"
    /\ pg' = [pg EXCEPT ![n] = Stopped(n)]
    /\ DisableWatchdog(n)
    /\ IF pg'[n] = "stopped" THEN DeleteLeader(n) ELSE UNCHANGED dcs
    /\ recovering' = [recovering EXCEPT ![n] = FALSE]
    /\ Continue(n, "exiting")
    /\ UNCHANGED <<dataDir, mode, job>>

-----------------------------------------------------------------------------
(* The background task. *)

(* promote: the pre_promote script, whose end is the point after which the task can
   no longer be cancelled. *)
PrePromote(n) ==
    /\ task[n] = "promotePre"
    /\ \/ /\ task' = [task EXCEPT ![n] = "promoteCommit"]
          /\ UNCHANGED prePromoteFailed
       \/ /\ prePromoteFailed' = [prePromoteFailed EXCEPT ![n] = TRUE]
          /\ task' = [task EXCEPT ![n] = "finish"]
    /\ UNCHANGED <<dcs, host, loop, role>>

(* pg_ctl promote, which fails unless Postgres runs. Postgres counts as a primary
   from the request on, although it may take a while to become one. *)
Promote(n) ==
    /\ task[n] = "promoteCommit"
    /\ \/ /\ pg[n] = "replica"
          /\ pg' = [pg EXCEPT ![n] = "primary"]
          /\ dataDir' = [dataDir EXCEPT ![n] = "primary"]
          /\ task' = [task EXCEPT ![n] = "promoteRole"]
       \/ /\ task' = [task EXCEPT ![n] = "finish"]
          /\ UNCHANGED <<pg, dataDir>>
    /\ UNCHANGED <<dcs, wd, loop, role, prePromoteFailed>>

(* set_role('master') once pg_ctl has returned. *)
PromoteSetsRole(n) ==
    /\ task[n] = "promoteRole"
    /\ role' = [role EXCEPT ![n] = "master"]
    /\ task' = [task EXCEPT ![n] = "finish"]
    /\ UNCHANGED <<dcs, host, loop, prePromoteFailed>>

(* Ha.restart, for the REST API or the scheduled restart. *)
Restart(n) ==
    /\ pc[n] = "idle" /\ ~Busy(n)
    /\ pg[n] = "stopped" => "restartWhileDown" \in Races
    /\ recovering' = [recovering EXCEPT ![n] = TRUE]
    /\ task' = [task EXCEPT ![n] = "restartStop"]
    /\ UNCHANGED <<dcs, host, pc, mode, wdOpen, role, prePromoteFailed>>

RestartStop(n) ==
    /\ task[n] = "restartStop"
    /\ \/ /\ pg' = [pg EXCEPT ![n] = "stopped"]
          /\ task' = [task EXCEPT ![n] = "restartStart"]
       \/ /\ task' = [task EXCEPT ![n] = "finish"]
          /\ UNCHANGED pg
    /\ UNCHANGED <<dcs, dataDir, wd, loop, role, prePromoteFailed>>

(* start() with the critical task: Postgres is started as what its data
   directory says, unless it runs already. *)
RestartStart(n) ==
    /\ task[n] = "restartStart"
    /\ task' = [task EXCEPT ![n] = "finish"]
    /\ IF pg[n] # "stopped"
       THEN UNCHANGED <<pg, role>>
       ELSE /\ pg' \in {[pg EXCEPT ![n] = p] : p \in {dataDir[n], "stopped"}}
            /\ role' = [role EXCEPT ![n] = IF dataDir[n] = "primary" THEN "master" ELSE "replica"]
    /\ UNCHANGED <<dcs, dataDir, wd, loop, prePromoteFailed>>

(* Postgresql.follow in the background. *)
Follow(n) ==
    /\ task[n] = "follow"
    /\ pg' \in {[pg EXCEPT ![n] = p] : p \in {"replica", "stopped"}}
    /\ dataDir' = [dataDir EXCEPT ![n] = "replica"]
    /\ role' = [role EXCEPT ![n] = "replica"]
    /\ task' = [task EXCEPT ![n] = "finish"]
    /\ UNCHANGED <<dcs, wd, loop, prePromoteFailed>>

(* Mutant: the key is released before Postgres is stopped. *)
ReleaseBeforeStop(n) ==
    /\ task[n] = "demoteStop"
    /\ ExecutorLockFree(n)
    /\ DeleteLeader(n)
    /\ task' = [task EXCEPT ![n] = "demoteStopping"]
    /\ pg' = [pg EXCEPT ![n] = Signalled(n)]
    /\ UNCHANGED <<dataDir, wd, loop, role, prePromoteFailed>>

(* demote('graceful'): signal, wait, release the key under the lock of the
   executor, then follow, unless pg_rewind has to run first or get_cluster
   raises. *)
GracefulStop(n) ==
    /\ task[n] = "demoteStop"
    /\ pg' = [pg EXCEPT ![n] = Signalled(n)]
    /\ task' = [task EXCEPT ![n] = "demoteStopping"]
    /\ UNCHANGED <<dcs, dataDir, wd, loop, role, prePromoteFailed>>

GracefulStopped(n) ==
    /\ task[n] = "demoteStopping"
    /\ pg' = [pg EXCEPT ![n] = Stopped(n)]
    /\ DisableWatchdog(n)
    /\ role' = [role EXCEPT ![n] = "demoted"]
    /\ task' = [task EXCEPT ![n] = "demoteRelease"]
    /\ UNCHANGED <<dcs, dataDir, pc, mode, recovering, prePromoteFailed>>

GracefulRelease(n) ==
    /\ task[n] = "demoteRelease"
    /\ ExecutorLockFree(n)
    /\ DeleteLeader(n)
    /\ task' \in {[task EXCEPT ![n] = t] : t \in {"follow", "finish"}}
    /\ UNCHANGED <<host, loop, role, prePromoteFailed>>

(* The end of AsyncExecutor.run. *)
TaskFinished(n) ==
    /\ task[n] = "finish"
    /\ ExecutorLockFree(n)
    /\ task' = [task EXCEPT ![n] = "none"]
    /\ UNCHANGED <<dcs, host, loop, role, prePromoteFailed>>

-----------------------------------------------------------------------------
(* The environment. *)

(* Postgres dies, or completes a shutdown whose initiator is gone. *)
PostgresStops(n) ==
    /\ pg[n] # "stopped"
    /\ pg' = [pg EXCEPT ![n] = "stopped"]
    /\ UNCHANGED <<dcs, dataDir, wd, loop, job>>

(* What the end of the Patroni processes of the nodes in S leaves. *)
ProcessesGone(S) ==
    /\ pc' = [n \in Nodes |-> IF n \in S THEN "down" ELSE pc[n]]
    /\ mode' = [n \in Nodes |-> IF n \in S THEN "offline" ELSE mode[n]]
    /\ recovering' = [n \in Nodes |-> recovering[n] /\ n \notin S]
    /\ wdOpen' = [n \in Nodes |-> wdOpen[n] /\ n \notin S]
    /\ role' = [n \in Nodes |-> IF n \in S THEN "demoted" ELSE role[n]]
    /\ task' = [n \in Nodes |-> IF n \in S THEN "none" ELSE task[n]]
    /\ prePromoteFailed' = [n \in Nodes |-> prePromoteFailed[n] /\ n \notin S]

(* Patroni ends after a shutdown or is killed; Postgres and an armed watchdog
   device stay. *)
PatroniEnds(n) ==
    /\ pc[n] # "down"
    /\ ProcessesGone({n})
    /\ UNCHANGED <<dcs, host>>

(* Patroni starts, beside a running Postgres or not. *)
PatroniStart(n) ==
    /\ pc[n] = "down"
    /\ pg[n] # "stopping"
    /\ Continue(n, "idle")
    /\ role' = [role EXCEPT ![n] =
          IF pg[n] = "primary" THEN "master"
          ELSE IF pg[n] = "stopped" /\ dataDir[n] = "primary" THEN "demoted"
          ELSE "replica"]
    /\ UNCHANGED <<dcs, host, mode, recovering, wdOpen, task, prePromoteFailed>>

(* A renewal of the lock waits to be handled. *)
AwaitsRenewal(n) == pc[n] \in {"acquired", "renewed", "busyRenewed"}

(* One tick: the key may expire, and a host whose watchdog runs out is reset. *)
Tick ==
    /\ \A n \in Nodes : AwaitsRenewal(n) => ttl > TTL - MaxDelay
    /\ ttl' = IF ttl = 0 THEN 0 ELSE ttl - 1
    /\ leader' = IF ttl <= 1 THEN NoNode ELSE leader
    /\ wd' = [n \in Nodes |-> IF wd[n] = 0 THEN 0 ELSE wd[n] - 1]
    /\ LET reset == {n \in Nodes : wd[n] = 1}
       IN  /\ pg' = [n \in Nodes |-> IF n \in reset THEN "stopped" ELSE pg[n]]
           /\ ProcessesGone(reset)
    /\ UNCHANGED dataDir

-----------------------------------------------------------------------------
LoopStep(n) ==
    \/ LoadCluster(n) \/ DcsError(n) \/ PostRecover(n) \/ Recover(n)
    \/ QueryFails(n) \/ JoinLeaderRace(n) \/ FollowAfterRace(n) \/ FollowOther(n)
    \/ UpdateLock(n) \/ FailedToUpdateLock(n) \/ TakeOver(n) \/ KeepLock(n)
    \/ UpdateLockWhileBusy(n) \/ KeepLockWhileBusy(n) \/ LostLockWhileBusy(n)
    \/ StopDone(n) \/ DemoteDone(n) \/ Shutdown(n) \/ ShutdownDone(n)

TaskStep(n) ==
    \/ PrePromote(n) \/ Promote(n) \/ PromoteSetsRole(n)
    \/ Restart(n) \/ RestartStop(n) \/ RestartStart(n) \/ Follow(n)
    \/ GracefulStop(n) \/ GracefulStopped(n) \/ GracefulRelease(n) \/ TaskFinished(n)

EnvironmentStep(n) ==
    PostgresStops(n) \/ PatroniEnds(n) \/ PatroniStart(n)

Next ==
    \/ \E n \in Nodes : LoopStep(n) \/ TaskStep(n) \/ EnvironmentStep(n)
    \/ Tick

Spec == Init /\ [][Next]_vars

(* Time passes, and the answer to a renewal is handled. Nothing else is assumed:
   every other step of a node may be put off for ever. *)
Fairness ==
    /\ WF_vars(Tick)
    /\ \A n \in Nodes :
         WF_vars(TakeOver(n)) /\ WF_vars(KeepLock(n)) /\ WF_vars(KeepLockWhileBusy(n))

FairSpec == Spec /\ Fairness

-----------------------------------------------------------------------------
(* No two nodes accept writes at the same time, whatever hangs, crashes, is
   restarted, or loses its connection to the DCS. *)
SingleWriter ==
    \A m, n \in Nodes : Writable(m) /\ Writable(n) => m = n

(* The watchdog of a node that accepts writes is armed and fires no later than
   the leader key of that node expires: what enforce_master_role, keepalive and
   the callback on_safepoint of stop() achieve together. *)
WriterIsFenced ==
    \A n \in Nodes : Writable(n) => leader = n /\ 0 < wd[n] /\ wd[n] <= ttl

(* A node that accepts writes has an armed watchdog: stop() disables it once "no
   user backend can return a successful commit" (Postgresql.stop), and recover()
   because Postgres "will restart in standby mode". It does not hold when two
   threads overlap as Races says. *)
WriterHasWatchdog ==
    \A n \in Nodes : Writable(n) => 0 < wd[n]

(* The nodes that accept writes, as LeaderLease sees them. *)
writers == {n \in Nodes : Writable(n)}

(* The leader key and the roles of Postgres implement the lease: a node becomes a
   writer only as the owner, and no step moves the key from under a writer. *)
Lease == INSTANCE LeaderLease WITH owner <- leader
ImplementsLeaderLease == Lease!Spec

(* A node that accepts writes renews its lock again or stops accepting them, be its
   Patroni dead, hung or cut off from the DCS. *)
WriterRenewsOrStops ==
    \A n \in Nodes : Writable(n) ~> (~Writable(n) \/ AwaitsRenewal(n))
=============================================================================
