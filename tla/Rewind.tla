------------------------------- MODULE Rewind -------------------------------
(***************************************************************************)
(* Diverged timelines: how a member finds out that its WAL is not a part   *)
(* of the leader's, and what it does then (postgresql/rewind.py and the    *)
(* parts of the HA loop that use it).                                      *)
(*                                                                         *)
(* A WAL is the sequence of its records; a record is the timeline it is on *)
(* and the primary that wrote it.  A timeline has a record from the start, *)
(* that of the promotion.  One action is one cycle of a member's HA loop   *)
(* with its decisions; what it starts in the background is finished by     *)
(* actions of its own.  Who is allowed to lead is module Failover's matter, *)
(* that nobody writes without the key is module Ha's.  Left out: a standby *)
(* cluster, replicatefrom, pauses, a leader of Patroni 1.5.6 or older,     *)
(* master_start_timeout = 0.                                               *)
(***************************************************************************)
EXTENDS Members, Integers, Sequences, SequencesExt, FiniteSets

CONSTANTS
    Settings,     \* possible settings: [rewind, removeDiverged, removeFailed : BOOLEAN]
    Founder,      \* the primary at first
    Orphans,      \* a member that misses the newest timeline may be elected
    MissedTerms,  \* a member may not look at the cluster for a whole term
    LateTasks,    \* what was begun under one leader may end under the next
    StaleStatus,  \* the status of a leader may change between a look at it and its use
    MaxRecords,   \* bound of the records before a commit
    MaxFaults     \* bound of crashes, restarts, lost keys and failures

ASSUME RewindAssumption ==
    /\ Founder \in Members /\ MaxRecords \in Nat /\ MaxFaults \in Nat
    /\ Settings # {} /\ Settings \subseteq
         [rewind : BOOLEAN, removeDiverged : BOOLEAN, removeFailed : BOOLEAN]
    /\ Orphans \in BOOLEAN /\ MissedTerms \in BOOLEAN /\ LateTasks \in BOOLEAN /\ StaleStatus \in BOOLEAN

VARIABLES
    settings,      \* the configuration, the same on all members
    keyOwner,      \* the DCS: owner of the leader key
    status,        \* the DCS: what each member has published about itself
    wal,           \* the WAL of each member
    server,        \* its Postgres: what it runs as, or the state in pg_control
    checkpointed,  \* primaries whose pg_control has their timeline
    source,        \* where its Postgres streams from
    rewind,        \* Rewind._state
    newCheckpoint, \* Rewind._checkpoint_task
    job,           \* the background task of the HA loop
    recovering,    \* Ha.recovering
    crashRecovery, \* Ha._crash_recovery_executed
    started,       \* Postgresql.cb_called
    faults         \* number of faults so far

rewindVars == <<settings, keyOwner, status, wal, server, checkpointed, source, rewind,
                newCheckpoint, job, recovering, crashRecovery, started, faults>>

Stopped == {"production", "shutdown", "recovery", "archive", "empty"}
Running == {"primary", "replica"}

NoJob == [kind |-> "none", leader |-> NoMember, ready |-> FALSE]
Job(k, l, r) == [kind |-> k, leader |-> l, ready |-> r]
JobKinds == {"none", "promote", "promoted", "demoted", "start", "single user", "rewind",
             "copy", "reinitialize", "clone", "cloned"}

RewindTypeOK ==
    /\ settings \in Settings /\ keyOwner \in Members \cup {NoMember}
    /\ status \in [Members -> [master : BOOLEAN, ready : BOOLEAN]]
    /\ \A m \in Members : \A i \in DOMAIN wal[m] : wal[m][i] \in Nat \X Members
    /\ server \in [Members -> Running \cup Stopped] /\ checkpointed \subseteq Members
    /\ source \in [Members -> Members \cup {NoMember}]
    /\ rewind \in [Members -> {"INITIAL", "CHECKPOINT", "CHECK", "NEED", "NOT_NEED",
                               "SUCCESS", "FAILED"}]
    /\ newCheckpoint \in [Members -> {"none", "running", "done", "failed"}]
    /\ job \in [Members -> [kind : JobKinds, leader : Members \cup {NoMember},
                            ready : BOOLEAN]]
    /\ \A m \in Members : job[m].kind \in {"copy", "clone"} => server[m] \in Stopped
    /\ recovering \subseteq Members /\ crashRecovery \subseteq Members
    /\ started \subseteq Members /\ faults \in 0..MaxFaults

RewindInit ==
    /\ settings \in Settings /\ keyOwner = Founder
    /\ status = [m \in Members |-> [master |-> m = Founder, ready |-> m = Founder]]
    /\ wal = [m \in Members |-> <<<<1, Founder>>>>]
    /\ server = [m \in Members |-> IF m = Founder THEN "primary" ELSE "replica"]
    /\ checkpointed = {Founder}
    /\ source = [m \in Members |-> IF m = Founder THEN NoMember ELSE Founder]
    /\ rewind = [m \in Members |-> IF m = Founder THEN "CHECKPOINT" ELSE "NOT_NEED"]
    /\ newCheckpoint = [m \in Members |-> "none"]
    /\ job = [m \in Members |-> NoJob]
    /\ recovering = {} /\ crashRecovery = {} /\ started = Members /\ faults = 0

-----------------------------------------------------------------------------
(* The WAL. *)

Timeline(w) == Last(w)[1]
Append1(m) == Append(wal[m], <<Timeline(wal[m]), m>>)

(* Where timeline t ends in w, if w left it: the parent's line in the history file. *)
InHistory(t, w) == \E i \in DOMAIN w : w[i][1] = t
Switchpoint(t, w) == Cardinality({i \in DOMAIN w : w[i][1] <= t})

Diverged(m, l) == ~IsPrefix(wal[m], wal[l])

Commit(m) ==
    /\ server[m] = "primary" /\ keyOwner = m /\ Len(wal[m]) < MaxRecords
    /\ wal' = [wal EXCEPT ![m] = Append1(m)]
    /\ UNCHANGED <<settings, keyOwner, status, server, checkpointed, source, rewind,
                   newCheckpoint, job, recovering, crashRecovery, started, faults>>

Stream(m) ==
    /\ server[m] = "replica" /\ source[m] # NoMember /\ server[source[m]] \in Running
    /\ IsStrictPrefix(wal[m], wal[source[m]])
    /\ wal' = [wal EXCEPT ![m] = SubSeq(wal[source[m]], 1, Len(wal[m]) + 1)]
    /\ UNCHANGED <<settings, keyOwner, status, server, checkpointed, source, rewind,
                   newCheckpoint, job, recovering, crashRecovery, started, faults>>

(* A checkpoint of the server's own. *)
Checkpoint(m) ==
    /\ server[m] = "primary" /\ m \notin checkpointed
    /\ checkpointed' = checkpointed \cup {m}
    /\ UNCHANGED <<settings, keyOwner, status, wal, server, source, rewind,
                   newCheckpoint, job, recovering, crashRecovery, started, faults>>

-----------------------------------------------------------------------------
(* rewind.py: the decision. *)

(* can_rewind_or_reinitialize_allowed *)
CanAct == settings.rewind \/ settings.removeDiverged

(* Mutant: nothing asks for a check. *)
NeverTriggered(s) == s

(* trigger_check_diverged_lsn, for a state s. *)
Triggered(s) == IF CanAct /\ s # "NEED" THEN "CHECK" ELSE s

Executed(s) == s \in {"SUCCESS", "FAILED"}
IsNeeded(s) == s \in {"CHECK", "NEED"}

(* Mutant: the former primary is compared like a replica, so an end before the
   switchpoint is fine, and the end itself is taken for the start of the record. *)
AsReplica(m, l) ==
    LET t == Timeline(wal[m]) IN
    \/ t > Timeline(wal[l])
    \/ /\ t < Timeline(wal[l]) /\ InHistory(t, wal[l])
       /\ Len(wal[m]) - 1 > Switchpoint(t, wal[l])

(* _get_checkpoint_end: where the checkpoint record of a server that was shut down ends,
   which is the last one there is. *)
CheckpointEnd(m) == Len(wal[m])

(* The WAL of m, whose Postgres runs as s, against the leader l's timelines. *)
RewindNeeded(m, l) ==
    LET t == Timeline(wal[m]) IN
    \/ t > Timeline(wal[l])
    \/ /\ t < Timeline(wal[l]) /\ InHistory(t, wal[l])
       /\ IF server[m] = "shutdown" THEN CheckpointEnd(m) # Switchpoint(t, wal[l])
                                    ELSE Len(wal[m]) > Switchpoint(t, wal[l])

(* _get_local_timeline_lsn: timeline and position are known of a server that runs, from
   itself, and of one that was stopped in order, from pg_control. *)
PositionKnown(m) == server[m] \in Running \cup {"shutdown", "recovery"}

(* _check_timeline_and_lsn: the state after it, s before it. The leader must answer. *)
Checked(m, l, s) ==
    IF /\ PositionKnown(m)
       /\ status[l].master /\ server[l] \in Running
    THEN IF RewindNeeded(m, l) THEN "NEED" ELSE "NOT_NEED"
    ELSE s

(* rewind_or_reinitialize_needed_and_possible: the state after it. *)
Decided(m, l, s) ==
    IF l \notin {m, NoMember} /\ s = "CHECK" THEN Checked(m, l, s) ELSE s

(* _handle_rewind_or_reinitialize: what is started when it is needed. *)
Remedy(l) ==
    IF settings.rewind THEN Job("rewind", l, status[l].master /\ status[l].ready)
    ELSE Job("reinitialize", l, FALSE)

-----------------------------------------------------------------------------
(* The HA loop. *)

(* The role is master from the promotion until the server is started as a replica. *)
IsMaster(m) == server[m] \in {"primary", "production", "shutdown"}

(* A task of m; the server of m stops when it does, and with it what copies from it. *)
WithJob(m, j, stops) ==
    [o \in Members |->
        IF o = m THEN j
        ELSE IF stops /\ job[o].kind = "copy" /\ job[o].leader = m
        THEN [job[o] EXCEPT !.ready = FALSE] ELSE job[o]]

(* The end of a cycle: the state of Rewind, the task, and what touch_member publishes,
   for a member that is the leader or not. *)
EndCycle(m, s, j, leads) ==
    /\ rewind' = [rewind EXCEPT ![m] = s]
    /\ job' = WithJob(m, j, server[m] = "primary" /\ ~leads)
    /\ status' = [status EXCEPT ![m] =
         [master |-> leads /\ IsMaster(m),
          ready |-> leads /\ IsMaster(m) /\ s = "CHECKPOINT"]]

(* post_recover of a server that runs. *)
Recovered(m) ==
    IF m \in recovering /\ rewind[m] = "SUCCESS" THEN "INITIAL" ELSE rewind[m]

RecoveryEnds(m) ==
    IF m \in recovering /\ ~IsNeeded(rewind[m])
    THEN recovering' = recovering \ {m} /\ crashRecovery' = crashRecovery \ {m}
    ELSE UNCHANGED <<recovering, crashRecovery>>

(* Mutant: the leader is ready as soon as it is one. *)
ReadyAtOnce(m) == "CHECKPOINT"

(* The leader, which runs as a primary: ensure_checkpoint_after_promote. *)
AfterPromotion(m) ==
    CASE newCheckpoint[m] = "done" -> "CHECKPOINT"
      [] newCheckpoint[m] = "failed" /\ m \in checkpointed -> "CHECKPOINT"
      [] OTHER -> "INITIAL"

LeaderCycle(m) ==
    LET s == Recovered(m) IN
    /\ keyOwner = m /\ server[m] = "primary" /\ job[m] = NoJob
    /\ RecoveryEnds(m)
    /\ EndCycle(m, IF s = "INITIAL" THEN AfterPromotion(m) ELSE s, NoJob, TRUE)
    /\ newCheckpoint' = [newCheckpoint EXCEPT ![m] =
                           IF s = "INITIAL" /\ @ = "none" THEN "running" ELSE @]
    /\ started' = started \cup {m}
    /\ UNCHANGED <<settings, keyOwner, wal, server, checkpointed, source, faults>>

(* The checkpoint of the thread. When it fails it may yet have been done. *)
CheckpointEnds(m) ==
    /\ newCheckpoint[m] = "running"
    /\ \/ /\ server[m] = "primary"
          /\ newCheckpoint' = [newCheckpoint EXCEPT ![m] = "done"]
          /\ checkpointed' = checkpointed \cup {m} /\ UNCHANGED faults
       \/ /\ faults < MaxFaults \/ server[m] # "primary"
          /\ newCheckpoint' = [newCheckpoint EXCEPT ![m] = "failed"]
          /\ faults' = IF server[m] = "primary" THEN faults + 1 ELSE faults
          /\ UNCHANGED checkpointed
    /\ UNCHANGED <<settings, keyOwner, status, wal, server, source, rewind, job,
                   recovering, crashRecovery, started>>

(* Nobody takes m for the leader of an earlier term still; and, unless LateTasks, what
   was begun under the leader before has come to its end. *)
TermSeen(m) ==
    \A o \in Members \ {m} :
        /\ server[o] = "replica" => source[o] # m \/ MissedTerms
        /\ \/ LateTasks
           \/ /\ job[o].kind = "start" => job[o].leader # m
              /\ job[o].kind \notin {"reinitialize", "clone", "cloned"}
              /\ rewind[o] # "SUCCESS"

(* The winner of the race, or the leader that was started read-only: promotion. *)
ElectionCycle(m) ==
    /\ server[m] = "replica" /\ job[m] = NoJob
    /\ \/ keyOwner = m
       \/ /\ keyOwner = NoMember /\ TermSeen(m)
          /\ \A o \in Members : server[o] = "replica" => Len(wal[o]) <= Len(wal[m])
          /\ Orphans \/ \A o \in Members : Timeline(wal[o]) <= Timeline(wal[m])
    /\ keyOwner' = m
    /\ RecoveryEnds(m)
    /\ EndCycle(m, Recovered(m), Job("promote", NoMember, FALSE), TRUE)
    /\ started' = started \cup {m}
    /\ UNCHANGED <<settings, wal, server, checkpointed, source, newCheckpoint, faults>>

(* A replica: follow, and the first cycle after the start of Patroni. *)
FollowCycle(m) ==
    LET l == keyOwner
        s == Decided(m, l, Recovered(m)) IN
    /\ l # m /\ server[m] = "replica" /\ job[m] = NoJob
    /\ RecoveryEnds(m)
    /\ \/ /\ s = "NEED" /\ l # NoMember
          /\ EndCycle(m, s, Remedy(l), FALSE)
          /\ UNCHANGED <<source, started>>
       \/ /\ s # "NEED" \/ l = NoMember
          /\ source' = [source EXCEPT ![m] = l]
          /\ EndCycle(m, IF source[m] # l \/ m \notin started THEN Triggered(s) ELSE s,
                      NoJob, FALSE)
          /\ started' = started \cup {m}
    /\ UNCHANGED <<settings, keyOwner, wal, server, checkpointed, newCheckpoint, faults>>

(* A server that is down after it was to be started: post_recover. *)
GiveUpCycle(m) ==
    /\ server[m] \in Stopped \ {"empty"} /\ job[m] = NoJob
    /\ m \in recovering /\ ~IsNeeded(rewind[m])
    /\ recovering' = recovering \ {m}
    /\ keyOwner' = IF keyOwner = m THEN NoMember ELSE keyOwner
    /\ EndCycle(m, rewind[m], NoJob, FALSE)
    /\ UNCHANGED <<settings, wal, server, checkpointed, source, newCheckpoint,
                   crashRecovery, started, faults>>

(* recover *)
RecoverCycle(m) ==
    LET l == keyOwner
        trig == IF Executed(rewind[m]) THEN rewind[m] ELSE Triggered(rewind[m])
        s == Decided(m, l, trig)
        Ends(state, j) == EndCycle(m, state, j, keyOwner = m) IN
    /\ server[m] \in Stopped \ {"empty"} /\ job[m] = NoJob
    /\ m \notin recovering \/ IsNeeded(rewind[m])
    /\ \/ /\ server[m] = "production" /\ m \notin crashRecovery
          /\ l = NoMember \/ settings.rewind
          /\ crashRecovery' = crashRecovery \cup {m}
          /\ Ends(rewind[m], Job("single user", NoMember, FALSE))
          /\ UNCHANGED <<recovering, source>>
       \/ /\ server[m] # "production" \/ m \in crashRecovery
                \/ ~(l = NoMember \/ settings.rewind)
          /\ UNCHANGED crashRecovery
          /\ \/ /\ l = m
                /\ Ends(rewind[m], Job("start", NoMember, FALSE))
                /\ recovering' = recovering \cup {m}
                /\ UNCHANGED source
             \/ /\ l \notin {m, NoMember} /\ s = "NEED"
                /\ Ends(s, Remedy(l))
                /\ UNCHANGED <<recovering, source>>
             \/ /\ l # m /\ (s # "NEED" \/ l = NoMember)
                /\ Ends(s, Job("start", l, FALSE))
                /\ recovering' = recovering \cup {m}
                /\ UNCHANGED source
    /\ UNCHANGED <<settings, keyOwner, wal, server, checkpointed, newCheckpoint, started,
                   faults>>

(* An empty data directory: the member is cloned from the leader. *)
CloneCycle(m) ==
    /\ server[m] = "empty" /\ job[m] = NoJob /\ keyOwner # NoMember
    /\ keyOwner' = IF keyOwner = m THEN NoMember ELSE keyOwner
    /\ EndCycle(m, rewind[m],
                IF keyOwner = m THEN NoJob ELSE Job("clone", keyOwner, FALSE), FALSE)
    /\ UNCHANGED <<settings, wal, server, checkpointed, source, newCheckpoint, recovering,
                   crashRecovery, started, faults>>

(* A cycle while a task is under way only publishes the status. That the role is
   master already and the state not yet reset lasts for a moment. *)
BusyCycle(m) ==
    /\ job[m] # NoJob
    /\ job[m].kind = "promoted" => StaleStatus
    /\ EndCycle(m, rewind[m], job[m], keyOwner = m)
    /\ UNCHANGED <<settings, keyOwner, wal, server, checkpointed, source, newCheckpoint,
                   recovering, crashRecovery, started, faults>>

Cycle(m) ==
    \/ LeaderCycle(m) \/ ElectionCycle(m) \/ FollowCycle(m) \/ GiveUpCycle(m)
    \/ RecoverCycle(m) \/ CloneCycle(m)

-----------------------------------------------------------------------------
(* The background tasks. *)

Done(m) == job' = [job EXCEPT ![m] = NoJob]

Promote(m) ==
    /\ job[m].kind = "promote" /\ server[m] = "replica"
    /\ server' = [server EXCEPT ![m] = "primary"]
    /\ wal' = [wal EXCEPT ![m] = Append(@, <<Timeline(@) + 1, m>>)]
    /\ checkpointed' = checkpointed \ {m}
    /\ job' = [job EXCEPT ![m].kind = "promoted"]
    /\ UNCHANGED <<settings, keyOwner, status, source, rewind, newCheckpoint, recovering,
                   crashRecovery, started, faults>>

(* on_success: reset_state *)
Promoted(m) ==
    /\ job[m].kind = "promoted"
    /\ rewind' = [rewind EXCEPT ![m] = "INITIAL"]
    /\ newCheckpoint' = [newCheckpoint EXCEPT ![m] = "none"]
    /\ Done(m)
    /\ UNCHANGED <<settings, keyOwner, status, wal, server, checkpointed, source,
                   recovering, crashRecovery, started, faults>>

(* The server is down before it could be promoted. *)
PromoteFails(m) ==
    /\ job[m].kind = "promote" /\ server[m] # "replica"
    /\ Done(m)
    /\ UNCHANGED <<settings, keyOwner, status, wal, server, checkpointed, source, rewind,
                   newCheckpoint, recovering, crashRecovery, started, faults>>

(* Postgresql.follow: start as a replica, after a crash recovery if need be. *)
Start(m) ==
    /\ job[m].kind = "start" /\ Done(m)
    /\ \/ /\ server' = [server EXCEPT ![m] = "replica"]
          /\ source' = [source EXCEPT ![m] = job[m].leader]
          /\ checkpointed' = checkpointed \ {m} /\ UNCHANGED faults
       \/ /\ faults < MaxFaults /\ faults' = faults + 1
          /\ UNCHANGED <<server, source, checkpointed>>
    /\ UNCHANGED <<settings, keyOwner, status, wal, rewind, newCheckpoint, recovering,
                   crashRecovery, started>>

(* ensure_clean_shutdown: the recovery ends with a checkpoint. *)
SingleUser(m) ==
    /\ job[m].kind = "single user" /\ Done(m)
    /\ \/ /\ server' = [server EXCEPT ![m] = "shutdown"]
          /\ wal' = [wal EXCEPT ![m] = Append1(m)] /\ UNCHANGED faults
       \/ /\ faults < MaxFaults /\ faults' = faults + 1 /\ UNCHANGED <<server, wal>>
    /\ UNCHANGED <<settings, keyOwner, status, checkpointed, source, rewind, newCheckpoint,
                   recovering, crashRecovery, started>>

(* stop(checkpoint=False) *)
AfterStop(s) == IF s = "replica" THEN "recovery" ELSE s

(* execute: the server is stopped, and the leader is looked at: by its status as it was
   when the task was started, and by asking it. *)
PrepareRewind(m) ==
    LET l == job[m].leader
        ready == IF StaleStatus THEN job[m].ready ELSE status[l].master /\ status[l].ready
    IN
    /\ job[m].kind = "rewind"
    /\ server' = [server EXCEPT ![m] = AfterStop(@)]
    /\ job' = [job EXCEPT ![m] = IF ready /\ server[l] = "primary"
                                 THEN Job("copy", l, ready) ELSE NoJob]
    /\ UNCHANGED <<settings, keyOwner, status, wal, checkpointed, source, rewind,
                   newCheckpoint, recovering, crashRecovery, started, faults>>

(* pg_rewind takes the timeline of the leader from its pg_control: with the one from
   before the promotion it finds nothing to do. It wants a server that was stopped in
   order, and its connection to the leader to last. A WAL segment that is missing is
   fetched from the archive and pg_rewind run again. *)
CopyFromLeader(m) ==
    LET l == job[m].leader IN
    /\ job[m].kind = "copy" /\ job[m].ready /\ server[l] = "primary"
    /\ server[m] \in {"shutdown", "recovery"}
    /\ rewind' = [rewind EXCEPT ![m] = "SUCCESS"]
    /\ IF l \in checkpointed
       THEN /\ wal' = [wal EXCEPT ![m] = wal[l]]
            /\ server' = [server EXCEPT ![m] = "archive"]
       ELSE UNCHANGED <<wal, server>>
    /\ Done(m)
    /\ UNCHANGED <<settings, keyOwner, status, checkpointed, source, newCheckpoint,
                   recovering, crashRecovery, started, faults>>

(* pg_rewind has failed: with the leader gone it is tried again, otherwise the data
   directory is removed or the failure is remembered. *)
CopyFails(m) ==
    LET l == job[m].leader IN
    /\ job[m].kind = "copy" /\ Done(m)
    /\ \/ /\ server[l] # "primary" /\ UNCHANGED <<server, rewind, faults>>
       \/ /\ server[l] = "primary"
          /\ \/ /\ ~job[m].ready \/ server[m] \notin {"shutdown", "recovery"}
                /\ UNCHANGED faults
             \/ faults < MaxFaults /\ faults' = faults + 1
          /\ IF settings.removeFailed \/ settings.removeDiverged
             THEN /\ server' = [server EXCEPT ![m] = "empty"]
                  /\ rewind' = [rewind EXCEPT ![m] = "INITIAL"]
             ELSE /\ rewind' = [rewind EXCEPT ![m] = "FAILED"] /\ UNCHANGED server
    /\ UNCHANGED <<settings, keyOwner, status, wal, checkpointed, source, newCheckpoint,
                   recovering, crashRecovery, started>>

(* _do_reinitialize: stop the server and clone the leader it knew. *)
Reinitialize(m) ==
    /\ job[m].kind = "reinitialize"
    /\ job' = [job EXCEPT ![m].kind = "clone"]
    /\ server' = [server EXCEPT ![m] = AfterStop(@)]
    /\ UNCHANGED <<settings, keyOwner, status, wal, checkpointed, source, rewind,
                   newCheckpoint, recovering, crashRecovery, started, faults>>

(* clone: a base backup replaces what there is; without one the data directory is left
   empty. *)
Clone(m) ==
    LET l == job[m].leader IN
    /\ job[m].kind = "clone"
    /\ rewind' = [rewind EXCEPT ![m] = "INITIAL"]
    /\ newCheckpoint' = [newCheckpoint EXCEPT ![m] = "none"]
    /\ \/ /\ server[l] \in Running
          /\ wal' = [wal EXCEPT ![m] = wal[l]]
          /\ server' = [server EXCEPT ![m] = "archive"]
          /\ job' = [job EXCEPT ![m].kind = "cloned"] /\ UNCHANGED faults
       \/ /\ IF server[l] \in Running THEN faults < MaxFaults /\ faults' = faults + 1
                                       ELSE UNCHANGED faults
          /\ server' = [server EXCEPT ![m] = "empty"]
          /\ Done(m) /\ UNCHANGED wal
    /\ UNCHANGED <<settings, keyOwner, status, checkpointed, source, recovering,
                   crashRecovery, started>>

(* The copy is started to follow who leads by then. *)
StartCopy(m) ==
    /\ job[m].kind = "cloned"
    /\ job' = [job EXCEPT ![m] =
                  Job("start", IF keyOwner = m THEN NoMember ELSE keyOwner, FALSE)]
    /\ UNCHANGED <<settings, keyOwner, status, wal, server, checkpointed, source, rewind,
                   newCheckpoint, recovering, crashRecovery, started, faults>>

(* demote('graceful') after the key was given back: the leader may be another one now. *)
AfterDemotion(m) ==
    LET s == Decided(m, keyOwner, rewind[m]) IN
    /\ job[m].kind = "demoted"
    /\ rewind' = [rewind EXCEPT ![m] = s]
    /\ job' = [job EXCEPT ![m] =
                  IF s = "NEED" /\ keyOwner # NoMember THEN NoJob
                  ELSE Job("start", IF keyOwner = m THEN NoMember ELSE keyOwner, FALSE)]
    /\ UNCHANGED <<settings, keyOwner, status, wal, server, checkpointed, source,
                   newCheckpoint, recovering, crashRecovery, started, faults>>

Work(m) ==
    \/ Promote(m) \/ Promoted(m) \/ PromoteFails(m) \/ Start(m) \/ SingleUser(m)
    \/ PrepareRewind(m) \/ CopyFromLeader(m) \/ CopyFails(m) \/ Reinitialize(m)
    \/ Clone(m) \/ StartCopy(m) \/ AfterDemotion(m)

-----------------------------------------------------------------------------
(* What goes wrong. *)

Fault == faults < MaxFaults /\ faults' = faults + 1

ServerCrash(m) ==
    /\ Fault /\ server[m] \in Running
    /\ server' = [server EXCEPT ![m] = IF @ = "primary" THEN "production" ELSE "archive"]
    /\ job' = WithJob(m, job[m], TRUE)
    /\ UNCHANGED <<settings, keyOwner, status, wal, checkpointed, source, rewind,
                   newCheckpoint, recovering, crashRecovery, started>>

(* Patroni is started anew while Postgres goes on. *)
RestartPatroni(m) ==
    /\ Fault /\ job[m] = NoJob
    /\ rewind' = [rewind EXCEPT ![m] = "INITIAL"]
    /\ newCheckpoint' = [newCheckpoint EXCEPT ![m] = "none"]
    /\ recovering' = recovering \ {m} /\ crashRecovery' = crashRecovery \ {m}
    /\ started' = started \ {m}
    /\ UNCHANGED <<settings, keyOwner, status, wal, server, checkpointed, source, job>>

(* The key of a leader whose server is down expires. *)
LoseKey(m) ==
    /\ Fault /\ keyOwner = m /\ server[m] # "primary"
    /\ job[m].kind \notin {"promote", "promoted"}
    /\ keyOwner' = NoMember
    /\ UNCHANGED <<settings, status, wal, server, checkpointed, source, rewind,
                   newCheckpoint, job, recovering, crashRecovery, started>>

(* demote('immediate-nolock'): the server is stopped in time. *)
DemoteAtOnce(m) ==
    /\ Fault /\ keyOwner = m /\ server[m] = "primary" /\ job[m] = NoJob
    /\ keyOwner' = NoMember
    /\ server' = [server EXCEPT ![m] = "production"]
    /\ EndCycle(m, Triggered(rewind[m]), Job("start", NoMember, FALSE), FALSE)
    /\ UNCHANGED <<settings, wal, checkpointed, source, newCheckpoint, recovering,
                   crashRecovery, started>>

(* demote('graceful'): those of the replicas who are up to date get the last record. *)
DemoteGracefully(m) ==
    /\ Fault /\ keyOwner = m /\ server[m] = "primary" /\ job[m] = NoJob
    /\ keyOwner' = NoMember
    /\ server' = [server EXCEPT ![m] = "shutdown"]
    /\ \E R \in SUBSET {o \in Members : server[o] = "replica" /\ source[o] = m
                                           /\ wal[o] = wal[m]} :
         wal' = [o \in Members |-> IF o \in R \cup {m} THEN Append1(m) ELSE wal[o]]
    /\ EndCycle(m, Triggered(rewind[m]), Job("demoted", NoMember, FALSE), FALSE)
    /\ UNCHANGED <<settings, checkpointed, source, newCheckpoint, recovering,
                   crashRecovery, started>>

-----------------------------------------------------------------------------
RewindNext ==
    \E m \in Members :
        \/ Commit(m) \/ Stream(m) \/ Checkpoint(m) \/ CheckpointEnds(m)
        \/ Cycle(m) \/ BusyCycle(m) \/ Work(m)
        \/ ServerCrash(m) \/ RestartPatroni(m) \/ LoseKey(m) \/ DemoteAtOnce(m) \/ DemoteGracefully(m)

RewindSpec == RewindInit /\ [][RewindNext]_rewindVars

(* The HA loop goes on, tasks and the checkpoint end, replicas stream; Postgres makes a
   checkpoint every checkpoint_timeout. *)
RewindFairSpec ==
    /\ RewindSpec
    /\ \A m \in Members :
         /\ WF_rewindVars(Cycle(m)) /\ WF_rewindVars(Work(m))
         /\ WF_rewindVars(CheckpointEnds(m)) /\ WF_rewindVars(Stream(m))
         /\ WF_rewindVars(Checkpoint(m))

-----------------------------------------------------------------------------
(* pg_rewind copies only from a primary whose pg_control has its timeline: otherwise it
   does nothing and reports success (execute, the status checkpoint_after_promote). *)
RewindAfterCheckpoint ==
    \A m \in Members : job[m].kind = "copy" /\ job[m].ready => job[m].leader \in checkpointed

(* A replica that follows the leader, and about which nothing is left to be decided or
   done, has a WAL that the leader's continues: a diverged member never settles down
   silently (_check_timeline_and_lsn and every place that triggers it). *)
NobodySettlesDiverged ==
    \A m \in Members :
        /\ keyOwner \notin {m, NoMember} /\ server[keyOwner] = "primary" /\ CanAct
        /\ server[m] = "replica" /\ source[m] = keyOwner /\ job[m] = NoJob
        /\ m \in started /\ rewind[m] \in {"INITIAL", "NOT_NEED", "SUCCESS"}
        => ~Diverged(m, keyOwner)

(* If there is a leader in the end, it is a primary, and the WAL of every member is a
   part of its WAL, or the rewind of the member has failed for good: nobody waits for
   ever for a leader that is not ready, and a rewind that was interrupted is taken up
   again. *)
RewindComesToAnEnd ==
    <>[](CanAct => \A m \in Members :
            \/ rewind[m] = "FAILED" \/ keyOwner = NoMember
            \/ /\ server[keyOwner] = "primary" /\ server[m] \in Running
               /\ ~Diverged(m, keyOwner))
=============================================================================
