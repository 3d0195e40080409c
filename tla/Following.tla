----------------------------- MODULE Following ------------------------------
(* How a standby is made to follow another member (postgresql/config.py    *)
(* check_recovery_conf and what it calls, follow in postgresql/__init__.py *)
(* and ha.py): the connection to the upstream is written to recovery.conf  *)
(* or postgresql.conf with a password file beside it, taken over by a      *)
(* restart (up to version 12) or a reload (13), and compared in each cycle *)
(* with what is wanted.  The comparison trusts the wal receiver while it   *)
(* is alive and otherwise a copy of the settings that is read again only   *)
(* when the time stamp of a file or of the postmaster has changed.         *)
(*                                                                         *)
(* A connection is the member it leads to.  The slot name, the delay and   *)
(* the commands of recovery.conf are compared in the same way and left out.*)
EXTENDS Naturals

CONSTANTS
  Upstreams,         \* the members that can be followed
  Versions,          \* of Postgres: 11, 12, 13
  MaxMoves,          \* bound: changes of the member to follow
  MaxFollowMishaps   \* bound: crashes, restarts from outside, failing calls

None == "none"
Connections == Upstreams \union {None}

ASSUME NoneAssumption == None \notin Upstreams
ASSUME FollowAssumption ==
  /\ Versions \subseteq {11, 12, 13}
  /\ MaxMoves \in Nat /\ MaxFollowMishaps \in Nat

VARIABLES
  version,
  wanted,          \* the node to follow, by the cluster in the DCS
  up,              \* the upstreams that answer
  recoveryConf,    \* is there a recovery.conf or standby.signal
  fileConninfo,    \* primary_conninfo in the file
  recoveryParams,  \* ConfigHandler._recovery_params
  passfile,        \* whose line the password file holds
  running,         \* is Postgres up
  inForce,         \* the primary_conninfo of the postmaster
  hupPending,      \* a reload the postmaster has not processed
  receiver,        \* whom the wal receiver streams from
  current,         \* ConfigHandler._current_recovery_params
  fresh,           \* the remembered time stamps are those of file and postmaster
  passFresh,       \* ... and that of the password file (not before it is known)
  cyclePc, view,   \* the HA loop, and what it has read in this cycle
  followPc, target,\* the executor, and the node it was told to follow
  moves, followMishaps,
  blind            \* history: the copy was read while file and postmaster
                   \* differed (12 takes over nothing without a restart)

followVars == <<version, wanted, up, recoveryConf, fileConninfo, recoveryParams,
                passfile, running, inForce, hupPending, receiver, current, fresh,
                passFresh, cyclePc, view, followPc, target, moves, followMishaps,
                blind>>

surroundings == <<version, wanted, up, moves>>
files == <<recoveryConf, fileConninfo, recoveryParams, passfile>>
server == <<running, inForce, hupPending, receiver>>
cache == <<current, fresh, passFresh>>
cycleVars == <<cyclePc, view>>
worker == <<followPc, target>>

Views == [node : Connections, receiver : Connections, unchanged : BOOLEAN]

FollowTypeOK ==
  /\ version \in Versions
  /\ {wanted, fileConninfo, recoveryParams, passfile, inForce, receiver,
      current, target} \subseteq Connections
  /\ up \subseteq Upstreams
  /\ {recoveryConf, running, hupPending, fresh, passFresh, blind} \subseteq BOOLEAN
  /\ cyclePc \in {"cycle", "check"}
  /\ view \in Views
  /\ followPc \in {"idle", "write", "stop", "start"}
  /\ moves \in 0..MaxMoves
  /\ followMishaps \in 0..MaxFollowMishaps

\* Patroni has started beside a running standby, or with Postgres down.
FollowInit ==
  /\ version \in Versions
  /\ wanted \in Upstreams
  /\ up = Upstreams
  /\ running \in BOOLEAN
  /\ recoveryConf = running
  /\ fileConninfo = IF running /\ version = 11 THEN wanted ELSE None
  /\ recoveryParams = None
  /\ passfile = IF running THEN wanted ELSE None
  /\ inForce = IF running THEN wanted ELSE None
  /\ hupPending = FALSE
  /\ receiver = inForce
  /\ current = None
  /\ fresh = FALSE
  /\ passFresh = FALSE
  /\ cyclePc = "cycle"
  /\ view = [node |-> None, receiver |-> None, unchanged |-> FALSE]
  /\ followPc = "idle"
  /\ target = None
  /\ moves = MaxMoves
  /\ followMishaps = MaxFollowMishaps
  /\ blind = FALSE

FollowMishap == followMishaps > 0 /\ followMishaps' = followMishaps - 1

-----------------------------------------------------------------------------
(* The cluster and Postgres *)

\* The leader changes or is lost, upstreams go and come back.
Move ==
  /\ moves > 0
  /\ moves' = moves - 1
  /\ wanted' \in Connections
  /\ up' \in SUBSET Upstreams
  /\ receiver' = IF receiver \in up' THEN receiver ELSE None
  /\ UNCHANGED <<version, running, inForce, hupPending, files, cache, cycleVars,
                 worker, followMishaps, blind>>

\* The wal receiver connects, if the password file is the one for its upstream.
Connect ==
  /\ running
  /\ receiver = None
  /\ inForce \in up
  /\ passfile = inForce
  /\ receiver' = inForce
  /\ UNCHANGED <<running, inForce, hupPending, surroundings, files, cache, cycleVars,
                 worker, followMishaps, blind>>

\* SIGHUP is processed some time after pg_ctl reload has returned.
ProcessHup ==
  /\ hupPending
  /\ hupPending' = FALSE
  /\ IF version = 13 /\ inForce # fileConninfo
       THEN inForce' = fileConninfo /\ receiver' = None
       ELSE UNCHANGED <<inForce, receiver>>
  /\ UNCHANGED <<running, surroundings, files, cache, cycleVars, worker,
                 followMishaps, blind>>

PostgresDies ==
  /\ running
  /\ FollowMishap
  /\ running' = FALSE
  /\ receiver' = None
  /\ hupPending' = FALSE
  /\ UNCHANGED <<inForce, surroundings, files, cache, cycleVars, worker, blind>>

\* A restart through the REST API.
RestartOutside ==
  /\ running
  /\ followPc = "idle"
  /\ FollowMishap
  /\ followPc' = "stop"
  /\ target' = None
  /\ UNCHANGED <<surroundings, files, server, cache, cycleVars, blind>>

\* The password file is lost, or pg_rewind or a new copy writes it for another.
PassfileChanges ==
  /\ FollowMishap
  /\ passfile' \in (IF running THEN {None} ELSE Upstreams) \ {passfile}
  /\ passFresh' = FALSE
  /\ UNCHANGED <<recoveryConf, fileConninfo, recoveryParams, current, fresh,
                 surroundings, server, cycleVars, worker, blind>>

\* A new Patroni process joins the running Postgres and writes its
\* postgresql.conf, at that time without any recovery parameters.
PatroniRestarts ==
  /\ FollowMishap
  /\ recoveryParams' = None
  /\ fileConninfo' = IF version >= 12 /\ running THEN None ELSE fileConninfo
  /\ current' = None
  /\ fresh' = FALSE
  /\ passFresh' = FALSE
  /\ cyclePc' = "cycle"
  /\ followPc' = "idle"
  /\ UNCHANGED <<recoveryConf, passfile, view, target, surroundings, server, blind>>

\* reload_config writes postgresql.conf with the parameters at hand.
RewriteConf ==
  /\ version >= 12
  /\ running
  /\ fileConninfo # recoveryParams
  /\ fileConninfo' = recoveryParams
  /\ passfile' = IF recoveryParams = None THEN passfile ELSE recoveryParams
  /\ fresh' = FALSE
  /\ view' = [view EXCEPT !.unchanged = FALSE]
  /\ hupPending' = TRUE
  /\ UNCHANGED <<recoveryConf, recoveryParams, running, inForce, receiver, current,
                 passFresh, cyclePc, surroundings, worker, followMishaps, blind>>

\* SIGHUP or the REST API: a reload that need not write anything.
ReloadOutside ==
  /\ version >= 12
  /\ running
  /\ FollowMishap
  /\ hupPending' = TRUE
  /\ UNCHANGED <<running, inForce, receiver, surroundings, files, cache, cycleVars,
                 worker, blind>>

-----------------------------------------------------------------------------
(* The HA loop *)

\* A cycle reads the cluster and the state of the wal receiver, and takes the
\* time stamps before it reads what they belong to.
BeginCycle ==
  /\ cyclePc = "cycle"
  /\ followPc = "idle"
  /\ running
  /\ view' = [node |-> wanted, receiver |-> receiver, unchanged |-> TRUE]
  /\ cyclePc' = "check"
  /\ UNCHANGED <<surroundings, files, server, cache, worker, followMishaps, blind>>

\* Postgres is down: the cycle starts it as a standby of the node to follow.
RecoverByFollow ==
  /\ cyclePc = "cycle"
  /\ followPc = "idle"
  /\ ~running
  /\ followPc' = "write"
  /\ target' = wanted
  /\ UNCHANGED <<surroundings, files, server, cache, cycleVars, followMishaps, blind>>

\* The parameters are those of the copy, or are read again.
CacheHolds == fresh /\ passFresh

(* Mutant: a password file named in the settings is good enough. *)
NamedPassfile == TRUE

CheckPassfile == passfile = view.node

(* Mutant: the live connection has to have the wanted password file, too. *)
ConninfoMatchesBoth(conf) ==
  IF view.node = None
    THEN conf = None
    ELSE /\ view.receiver \in {None, view.node}
         /\ conf = view.node /\ view.receiver = view.node

\* _check_primary_conninfo with the parameter conf.
ConninfoMatches(conf) ==
  IF view.node = None
    THEN conf = None
    ELSE /\ conf # None
         /\ IF view.receiver # None
              THEN view.receiver = view.node
              ELSE CheckPassfile /\ conf = view.node

\* follow(do_reload=True): version 13 takes a new upstream without a restart.
FollowByReload ==
  /\ recoveryParams' = view.node
  /\ fileConninfo' = view.node
  /\ passfile' = IF view.node = None THEN passfile ELSE view.node
  /\ passFresh' = TRUE
  /\ hupPending' = TRUE
  /\ UNCHANGED <<recoveryConf, running, inForce, receiver, followPc, target>>

FollowByRestart ==
  /\ followPc' = "write"
  /\ target' = view.node
  /\ UNCHANGED <<files, server, passFresh>>

KeepFollowing ==
  /\ passFresh' = (passFresh \/ (view.node # None /\ view.receiver = None))
  /\ UNCHANGED <<files, server, worker>>

\* Decided with the parameters conf; the file is new afterwards if it was written.
Decide(conf, stamp) ==
  \/ /\ recoveryConf /\ ConninfoMatches(conf)
     /\ KeepFollowing
     /\ fresh' = stamp
  \/ /\ recoveryConf /\ ~ConninfoMatches(conf) /\ version = 13
     /\ FollowByReload
     /\ fresh' = FALSE
  \/ /\ ~recoveryConf \/ (~ConninfoMatches(conf) /\ version < 13)
     /\ FollowByRestart
     /\ fresh' = stamp

Read == IF version = 11 THEN fileConninfo ELSE inForce

\* check_recovery_conf and follow, unless the executor was given a task or
\* Postgres went down in the meantime.
CheckCached ==
  /\ cyclePc = "check"
  /\ running /\ followPc = "idle"
  /\ CacheHolds
  /\ Decide(current, TRUE)
  /\ cyclePc' = "cycle"
  /\ UNCHANGED <<surroundings, current, view, followMishaps, blind>>

CheckAnew ==
  /\ cyclePc = "check"
  /\ running /\ followPc = "idle"
  /\ ~CacheHolds
  /\ current' = Read
  /\ Decide(Read, view.unchanged)
  /\ blind' = (version # 12 /\ fileConninfo # inForce)
  /\ cyclePc' = "cycle"
  /\ UNCHANGED <<surroundings, view, followMishaps>>

\* The settings cannot be read: a restart is ordered.
CheckFails ==
  /\ cyclePc = "check"
  /\ running /\ followPc = "idle"
  /\ version >= 12
  /\ ~CacheHolds
  /\ FollowMishap
  /\ FollowByRestart
  /\ cyclePc' = "cycle"
  /\ UNCHANGED <<surroundings, current, fresh, view, blind>>

AbandonCycle ==
  /\ cyclePc = "check"
  /\ ~running \/ followPc # "idle"
  /\ cyclePc' = "cycle"
  /\ UNCHANGED <<view, surroundings, files, server, cache, worker, followMishaps, blind>>

-----------------------------------------------------------------------------
(* The executor: Postgresql.follow *)

WriteRecoveryConf ==
  /\ followPc = "write"
  /\ recoveryConf' = TRUE
  /\ recoveryParams' = target
  /\ view' = [view EXCEPT !.unchanged = FALSE]
  /\ IF version = 11
       THEN /\ fileConninfo' = target
            /\ passfile' = IF target = None THEN passfile ELSE target
            /\ fresh' = FALSE
            /\ passFresh' = TRUE
       ELSE UNCHANGED <<fileConninfo, passfile, fresh, passFresh>>
  /\ followPc' = "stop"
  /\ UNCHANGED <<target, current, cyclePc, surroundings, server, followMishaps, blind>>

\* The stop that fails leaves Postgres as it was, whatever was written.
FollowStop ==
  /\ followPc = "stop"
  /\ \/ /\ running' = FALSE
        /\ receiver' = None
        /\ hupPending' = FALSE
        /\ followPc' = "start"
        /\ UNCHANGED followMishaps
     \/ /\ running
        /\ FollowMishap
        /\ followPc' = "idle"
        /\ UNCHANGED <<running, receiver, hupPending>>
  /\ UNCHANGED <<inForce, target, surroundings, files, cache, cycleVars, blind>>

\* start writes postgresql.conf, which carries the parameters from 12 on.
FollowStart ==
  /\ followPc = "start"
  /\ IF version = 11
       THEN UNCHANGED <<fileConninfo, passfile, fresh, passFresh>>
       ELSE /\ fileConninfo' = recoveryParams
            /\ passfile' = IF recoveryParams = None THEN passfile ELSE recoveryParams
            /\ fresh' = FALSE
            /\ passFresh' = TRUE
  /\ running' = TRUE
  /\ inForce' = fileConninfo'
  /\ view' = [view EXCEPT !.unchanged = FALSE]
  /\ followPc' = "idle"
  /\ UNCHANGED <<recoveryConf, recoveryParams, hupPending, receiver, target,
                 current, cyclePc, surroundings, followMishaps, blind>>

FollowCycle == BeginCycle \/ RecoverByFollow \/ CheckCached \/ CheckAnew \/ AbandonCycle
FollowStep == WriteRecoveryConf \/ FollowStop \/ FollowStart
Postgres == Connect \/ ProcessHup

FollowNext ==
  \/ Move \/ PostgresDies \/ RestartOutside \/ PassfileChanges
  \/ PatroniRestarts \/ RewriteConf \/ ReloadOutside
  \/ FollowCycle \/ CheckFails \/ FollowStep \/ Postgres

FollowFairness == /\ WF_followVars(FollowCycle)
                  /\ WF_followVars(FollowStep)
                  /\ WF_followVars(Connect)
                  /\ WF_followVars(ProcessHup)

FollowSpec == FollowInit /\ [][FollowNext]_followVars /\ FollowFairness

-----------------------------------------------------------------------------
\* Once the node to follow stays and answers, the standby streams from it and
\* from nobody else, whatever was written, cached, restarted or refused
\* before: a mismatch is always noticed (check_recovery_conf, follow).
\* Excepted is a copy that was read while file and postmaster differed: nothing
\* tells the code when the postmaster takes over the file, or that it has not.
FollowsTheLeader ==
  <>[](wanted \in up /\ ~blind) => <>[](receiver = wanted)

\* check_recovery_conf says of its copy of the settings that it holds until the
\* next config change: then no change of what is in force goes unnoticed.
MismatchIsNoticed == <>[](wanted \in up) => <>[](receiver = wanted)

\* The comparison never restarts a standby that streams from the node it is
\* to follow, with settings and a password file that let it connect again
\* (_check_primary_conninfo), unless what the cycle has read of the wal
\* receiver is of another connection.  (CheckFails, a failed query, does.)
NoNeedlessRestart ==
  [][CheckCached \/ CheckAnew =>
       ~(/\ recoveryConf /\ ~blind'
         /\ view.node # None /\ view.receiver \in {None, receiver}
         /\ view.node = receiver /\ view.node = inForce /\ view.node = passfile
         /\ followPc' = "write")]_followVars

=============================================================================
