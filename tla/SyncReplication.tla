-------------------------- MODULE SyncReplication --------------------------
(***************************************************************************)
(* Synchronous mode: which standbys the primary waits for                  *)
(* (synchronous_standby_names) and which members the sync key in the DCS   *)
(* allows to promote (Ha.process_sync_replication, the claim of the sync   *)
(* key in enforce_master_role, Postgresql.pick_synchronous_standby).       *)
(*                                                                         *)
(* The leader key is taken as module Ha proves it: the key expires only    *)
(* when its owner accepts no writes any more, and a node becomes primary   *)
(* only as the owner. A commit is a number; Postgres acknowledges it when  *)
(* the standbys it waits for have received it. promised is what a client   *)
(* may rely on: the commits acknowledged in synchronous mode.              *)
(*                                                                         *)
(* A conditional write to the sync key is by modification index: seen says *)
(* whether the index a member read is still that of the key. Left out:     *)
(* maximum_lag_on_syncnode, Postgres before 9.6, members that come and go. *)
(***************************************************************************)
EXTENDS Members, Integers, FiniteSets, Sequences, SequencesExt

CONSTANTS
    Commits,    \* the transactions, numbered in the order they are made
    SyncCount,  \* synchronous_node_count
    Strict,     \* synchronous_mode_strict
    AnyStandby, \* '*' in synchronous_standby_names
    Exposed     \* the weaknesses of the protocol that may show

ASSUME SyncAssumption ==
    /\ Commits \subseteq Nat
    /\ SyncCount \in Nat \ {0}
    /\ Strict \in BOOLEAN
    /\ AnyStandby \notin Members

(* laggingSync: pg_stat_replication shows a standby as "sync" before it has received
   what was committed earlier. slowMember: a member sleeps for longer than the leader
   key lives between what it has read and what it does on the strength of it.
   deleteFails: the sync key cannot be deleted when synchronous mode is turned off. *)
ASSUME ExposedAssumption ==
    Exposed \subseteq {"laggingSync", "slowMember", "deleteFails"}

VARIABLES
    lock,       \* the DCS: owner of the leader key
    sync,       \* the DCS: the sync key, its leader and members
    mode,       \* the DCS: synchronous_mode in the dynamic configuration
    nosync,     \* the DCS: members whose nosync tag is set
    primary,    \* the Postgres that accepts writes
    streaming,  \* the standbys connected to it, in the order they connected
    wal,        \* the commits each Postgres has
    names,      \* synchronous_standby_names as last written by Patroni
    effective,  \* and as last read by Postgres
    promised,   \* commits acknowledged under the sync key
    seen,       \* the index of the sync key each member holds
    step,       \* the HA loop of each member
    known       \* what it has read and decided in this cycle

syncVars == <<lock, sync, mode, nosync, primary, streaming, wal, names, effective,
              promised, seen, step, known>>
syncDcs == <<lock, sync, mode, nosync>>
syncPostgres == <<primary, streaming, wal, names, effective, promised>>

SyncStates == [leader : Members \cup {NoMember}, members : SUBSET Members]
NoSync == [leader |-> NoMember, members |-> {}]
Nothing == [sync |-> NoSync, mode |-> FALSE, old |-> FALSE, picked |-> {}, allowed |-> {}]
Steps == {"idle", "race", "acquired", "claimed", "leader", "shrink", "names", "enable",
          "confirm", "publish", "disable"}

SyncTypeOK ==
    /\ lock \in Members \cup {NoMember} /\ primary \in Members \cup {NoMember}
    /\ sync \in SyncStates /\ mode \in BOOLEAN /\ nosync \subseteq Members
    /\ streaming \in Seq(Members)
    /\ wal \in [Members -> SUBSET Commits]
    /\ names \in [Members -> SUBSET (Members \cup {AnyStandby})]
    /\ effective \in [Members -> SUBSET (Members \cup {AnyStandby})]
    /\ promised \subseteq Commits
    /\ seen \in [Members -> {"absent", "current", "stale"}]
    /\ step \in [Members -> Steps]
    /\ known \in [Members -> [sync : SyncStates, mode : BOOLEAN, old : BOOLEAN,
                              picked : SUBSET (Members \cup {AnyStandby}),
                              allowed : SUBSET Members]]

SyncInit ==
    /\ lock = NoMember /\ primary = NoMember /\ sync = NoSync
    /\ mode = TRUE /\ nosync = {} /\ streaming = <<>> /\ promised = {}
    /\ wal = [m \in Members |-> {}]
    /\ names = [m \in Members |-> {}] /\ effective = [m \in Members |-> {}]
    /\ seen = [m \in Members |-> "absent"]
    /\ step = [m \in Members |-> "idle"]
    /\ known = [m \in Members |-> Nothing]

-----------------------------------------------------------------------------
(* The sync key. *)

(* Reading the key gives its index; there is none as long as the key does not exist. *)
Index == IF sync = NoSync THEN "absent" ELSE "current"

(* set_sync_state_value: compare-and-swap by index, or unconditional without one. *)
Matches(m) == seen[m] # "stale"

(* The key changed: the index that any member holds is old now. *)
Outdated == [m \in Members |-> IF seen[m] = "current" THEN "stale" ELSE seen[m]]

SyncWritten(m, standbys) ==
    /\ Matches(m)
    /\ sync' = [leader |-> m, members |-> standbys]
    /\ seen' = Outdated

(* write_sync_state and delete_sync_state may fail or lose their answer. *)
SyncRefused == UNCHANGED <<sync, seen>>

GoTo(m, s) == step' = [step EXCEPT ![m] = s]

(* A cycle ends and forgets what it has read. *)
EndCycle(m) ==
    /\ GoTo(m, "idle")
    /\ known' = [known EXCEPT ![m] = Nothing]

-----------------------------------------------------------------------------
(* pick_synchronous_standby *)

(* pg_stat_replication.sync_state = 'sync'. '*' makes the first standby synchronous. *)
ShownSync ==
    LET connected == Range(streaming)
    IN  IF AnyStandby \in effective[primary]
        THEN IF streaming = <<>> THEN {} ELSE {Head(streaming)}
        ELSE effective[primary] \cap connected

Eligible == Range(streaming) \ nosync

(* ORDER BY sync_state DESC, flush_lsn DESC *)
Precedes(a, b) ==
    \/ a \in ShownSync /\ b \notin ShownSync
    \/ (a \in ShownSync <=> b \in ShownSync) /\ Cardinality(wal[a]) > Cardinality(wal[b])

(* The candidates: the first SyncCount rows. *)
Picks == {C \in SUBSET Eligible :
            /\ \/ Cardinality(C) = SyncCount
               \/ C = Eligible /\ Cardinality(C) < SyncCount
            /\ \A a \in Eligible \ C, b \in C : ~Precedes(a, b)}

(* What the code takes for granted when it reads pg_stat_replication: Postgres has read
   the names written in the last cycle, or two seconds ago, and a standby shown as
   synchronous has received all that was committed before. *)
HaveRead(m) ==
    /\ effective[m] = names[m]
    /\ "laggingSync" \notin Exposed => \A s \in ShownSync : wal[s] = wal[m]

-----------------------------------------------------------------------------
(* The HA loop. *)

(* load_cluster_from_dcs: the leader, the sync key and the mode in one snapshot. *)
ReadCluster(m) ==
    /\ step[m] = "idle"
    /\ lock \in {m, NoMember}
    /\ seen' = [seen EXCEPT ![m] = Index]
    /\ known' = [known EXCEPT ![m] = [Nothing EXCEPT !.sync = sync, !.mode = mode]]
    /\ GoTo(m, IF lock = NoMember THEN "race"
               ELSE IF primary = m THEN "leader" ELSE "acquired")
    /\ UNCHANGED <<syncDcs, syncPostgres>>

(* Mutant: any member may take part in the race. *)
MayPromoteAnyone(m) == TRUE

(* is_healthiest_node in synchronous mode: only the members that the sync key names
   take part in the race. *)
MayPromote(m) ==
    known[m].mode /\ known[m].sync.leader # NoMember
        => m \in {known[m].sync.leader} \cup known[m].sync.members

(* process_unhealthy_cluster: take the leader key, then read the cluster again. *)
AcquireLock(m) ==
    /\ step[m] = "race"
    /\ IF MayPromote(m) /\ lock = NoMember
       THEN /\ lock' = m
            /\ seen' = [seen EXCEPT ![m] = Index]
            /\ known' = [known EXCEPT ![m] = [Nothing EXCEPT !.sync = sync, !.mode = mode]]
            /\ GoTo(m, "acquired")
       ELSE EndCycle(m) /\ UNCHANGED <<lock, seen>>
    /\ UNCHANGED <<sync, mode, nosync, syncPostgres>>

(* enforce_master_role before a promotion: become the authority of the sync key, with
   no standby. If that fails the promotion is postponed. *)
ClaimSync(m) ==
    /\ step[m] = "acquired"
    /\ IF ~known[m].mode
       THEN GoTo(m, "claimed") /\ UNCHANGED <<sync, seen, names, known>>
       ELSE \/ /\ SyncWritten(m, {})
               /\ names' = [names EXCEPT ![m] = IF Strict THEN {AnyStandby} ELSE {}]
               /\ GoTo(m, "claimed")
               /\ UNCHANGED known
            \/ /\ SyncWritten(m, {}) \/ SyncRefused
               /\ EndCycle(m)
               /\ UNCHANGED names
    /\ UNCHANGED <<lock, mode, nosync, primary, streaming, wal, effective, promised>>

(* Postgres is promoted while the key is held (module Ha); a standby that follows
   another one is not connected to it yet. *)
PromoteClaimed(m) ==
    /\ step[m] = "claimed"
    /\ IF lock = m /\ primary = NoMember
       THEN /\ primary' = m
            /\ streaming' = <<>>
            /\ effective' = [effective EXCEPT ![m] = names[m]]
       ELSE UNCHANGED <<primary, streaming, effective>>
    /\ EndCycle(m)
    /\ UNCHANGED <<syncDcs, wal, names, promised, seen>>

(* process_sync_replication: the pick, compared with the sync key. *)
PickStandbys(m) ==
    /\ step[m] = "leader"
    /\ primary = m
    /\ known[m].mode
    /\ HaveRead(m)
    /\ \E picked \in Picks :
         LET current == known[m].sync.members
             allowed == picked \cap ShownSync
         IN  IF picked = current
             THEN EndCycle(m)
             ELSE /\ known' = [known EXCEPT ![m] = [@ EXCEPT !.picked = picked, !.allowed = allowed]]
                  /\ GoTo(m, IF current \cap allowed = current THEN "names" ELSE "shrink")
    /\ UNCHANGED <<syncDcs, syncPostgres, seen>>

Common(m) == known[m].sync.members \cap known[m].allowed

(* Mutant: the names are changed without taking the old standby from the sync key. *)
KeepSync(m) ==
    /\ step[m] = "shrink"
    /\ GoTo(m, "names")
    /\ UNCHANGED <<syncDcs, syncPostgres, seen, known>>

(* Standbys that are given up lose their right to promote before Postgres stops
   waiting for them. *)
ShrinkSync(m) ==
    /\ step[m] = "shrink"
    /\ \/ SyncWritten(m, Common(m)) /\ GoTo(m, "names") /\ UNCHANGED known
       \/ (SyncWritten(m, Common(m)) \/ SyncRefused) /\ EndCycle(m)
    /\ UNCHANGED <<lock, mode, nosync, syncPostgres>>

(* set_synchronous_standby: written and reloaded; Postgres reads it later. *)
SetNames(m) ==
    /\ step[m] = "names"
    /\ LET picked == known[m].picked
           allowed == known[m].allowed
       IN  /\ names' = [names EXCEPT ![m] =
                          IF Strict /\ picked = {} THEN {AnyStandby} ELSE picked]
           /\ IF picked # {} /\ allowed = {}
              THEN GoTo(m, "enable") /\ UNCHANGED known
              ELSE IF allowed # {} /\ allowed # Common(m)
              THEN GoTo(m, "confirm") /\ UNCHANGED known
              ELSE EndCycle(m)
    /\ UNCHANGED <<syncDcs, primary, streaming, wal, effective, promised, seen>>

(* Two seconds later Postgres has read the new names: pick again. *)
PickAgain(m) ==
    /\ step[m] = "enable"
    /\ primary = m
    /\ HaveRead(m)
    /\ \E picked \in Picks :
         LET allowed == picked \cap ShownSync
         IN  IF allowed # {} /\ allowed # (known[m].sync.members \cap known[m].allowed)
             THEN /\ known' = [known EXCEPT ![m].allowed = allowed]
                  /\ GoTo(m, "confirm")
             ELSE EndCycle(m)
    /\ UNCHANGED <<syncDcs, syncPostgres, seen>>

(* get_cluster before the new standbys are published, unless it raises or another
   member has claimed the key. *)
ConfirmLeader(m) ==
    /\ step[m] = "confirm"
    /\ \/ /\ sync.leader \in {NoMember, m}
          /\ seen' = [seen EXCEPT ![m] = Index]
          /\ GoTo(m, "publish")
          /\ UNCHANGED known
       \/ EndCycle(m) /\ UNCHANGED seen
    /\ UNCHANGED <<syncDcs, syncPostgres>>

PublishSync(m) ==
    /\ step[m] = "publish"
    /\ SyncWritten(m, known[m].allowed) \/ SyncRefused
    /\ EndCycle(m)
    /\ UNCHANGED <<lock, mode, nosync, syncPostgres>>

(* Synchronous mode is off: the key is deleted, then Postgres waits for nobody, whether
   the key could be deleted or not. *)
DeleteSync(m) ==
    /\ step[m] = "leader"
    /\ primary = m
    /\ ~known[m].mode
    /\ \/ /\ known[m].sync.leader # NoMember /\ Matches(m)
          /\ sync' = NoSync
          /\ seen' = Outdated
       \/ /\ known[m].sync.leader # NoMember => "deleteFails" \in Exposed
          /\ SyncRefused
    /\ GoTo(m, "disable")
    /\ UNCHANGED <<lock, mode, nosync, syncPostgres, known>>

ClearNames(m) ==
    /\ step[m] = "disable"
    /\ names' = [names EXCEPT ![m] = {}]
    /\ EndCycle(m)
    /\ UNCHANGED <<syncDcs, primary, streaming, wal, effective, promised, seen>>

(* while_not_sync_standby: a member that will go away sets its nosync tag, and clears it
   when it is back. *)
ToggleNosync(m) ==
    /\ nosync' = IF m \in nosync THEN nosync \ {m} ELSE nosync \cup {m}
    /\ UNCHANGED <<lock, sync, mode, syncPostgres, seen, step, known>>

(* Patroni is restarted, or the cycle ends by an exception. *)
CycleAborted(m) ==
    /\ step[m] # "idle"
    /\ EndCycle(m)
    /\ UNCHANGED <<syncDcs, syncPostgres, seen>>

-----------------------------------------------------------------------------
(* The configuration, Postgres and the leader key. *)

(* A cycle that is under way goes on with the mode it has read. *)
Overtaken(m) == [known[m] EXCEPT !.old = step[m] # "idle"]

(* An administrator turns synchronous mode on or off. *)
SwitchMode ==
    /\ mode' = ~mode
    /\ promised' = IF mode THEN {} ELSE promised
    /\ known' = [m \in Members |-> Overtaken(m)]
    /\ UNCHANGED <<lock, sync, nosync, primary, streaming, wal, names, effective, seen, step>>

Write(c) ==
    /\ primary # NoMember
    /\ \A m \in Members : c \notin wal[m]
    /\ \A b \in Commits : b < c => \E m \in Members : b \in wal[m]
    /\ wal' = [wal EXCEPT ![primary] = @ \cup {c}]
    /\ UNCHANGED <<syncDcs, primary, streaming, names, effective, promised, seen, step, known>>

(* The standbys that a commit waits for have it. *)
Confirmed(c) ==
    IF AnyStandby \in effective[primary]
    THEN streaming # <<>> /\ c \in wal[Head(streaming)]
    ELSE \A s \in effective[primary] : c \in wal[s]

(* Synchronous mode is on, and no cycle that began before that is still going on. *)
ModeInForce == mode /\ \A m \in Members : ~known[m].old

(* Postgres reports success. It is a promise when the sync key is its own. *)
Acknowledge(c) ==
    /\ primary # NoMember
    /\ c \in wal[primary] \ promised
    /\ Confirmed(c)
    /\ ModeInForce /\ sync.leader = primary
    /\ promised' = promised \cup {c}
    /\ UNCHANGED <<syncDcs, primary, streaming, wal, names, effective, seen, step, known>>

(* A connected standby receives the next commit. *)
Receive(s) ==
    /\ s \in Range(streaming)
    /\ \E c \in wal[primary] \ wal[s] :
         /\ \A b \in wal[primary] \ wal[s] : c <= b
         /\ wal' = [wal EXCEPT ![s] = @ \cup {c}]
    /\ UNCHANGED <<syncDcs, primary, streaming, names, effective, promised, seen, step, known>>

(* A standby connects; what it has beyond the primary is rewound first. *)
Connect(s) ==
    /\ primary \notin {NoMember, s}
    /\ s \notin Range(streaming)
    /\ streaming' = Append(streaming, s)
    /\ wal' = [wal EXCEPT ![s] = @ \cap wal[primary]]
    /\ UNCHANGED <<syncDcs, primary, names, effective, promised, seen, step, known>>

Disconnect(s) ==
    /\ \E i \in 1..Len(streaming) : streaming[i] = s /\ streaming' = RemoveAt(streaming, i)
    /\ UNCHANGED <<syncDcs, primary, wal, names, effective, promised, seen, step, known>>

(* Postgres reads the new synchronous_standby_names. *)
Reload(m) ==
    /\ effective[m] # names[m]
    /\ effective' = [effective EXCEPT ![m] = names[m]]
    /\ UNCHANGED <<syncDcs, primary, streaming, wal, names, promised, seen, step, known>>

(* The primary crashes or is demoted; its standbys lose their connection. *)
PrimaryStops ==
    /\ primary # NoMember
    /\ primary' = NoMember
    /\ streaming' = <<>>
    /\ UNCHANGED <<syncDcs, wal, names, effective, promised, seen, step, known>>

(* What a member may not sleep over: a check of the sync key before the leader key is
   taken, what follows until the promotion, and a cycle whose write to the sync key has
   no index to go by. *)
Urgent(m) ==
    \/ step[m] \in {"race", "acquired", "claimed"}
    \/ step[m] # "idle" /\ seen[m] = "absent"

(* The leader key expires, after its owner has stopped accepting writes. *)
LockExpires ==
    /\ lock # NoMember
    /\ primary # lock
    /\ "slowMember" \notin Exposed => \A m \in Members : ~Urgent(m)
    /\ lock' = NoMember
    /\ UNCHANGED <<sync, mode, nosync, syncPostgres, seen, step, known>>

-----------------------------------------------------------------------------
SyncLoop(m) ==
    \/ ReadCluster(m) \/ AcquireLock(m) \/ ClaimSync(m) \/ PromoteClaimed(m)
    \/ PickStandbys(m) \/ ShrinkSync(m) \/ SetNames(m) \/ PickAgain(m)
    \/ ConfirmLeader(m) \/ PublishSync(m) \/ DeleteSync(m) \/ ClearNames(m)
    \/ ToggleNosync(m) \/ CycleAborted(m)

SyncNext ==
    \/ \E m \in Members : SyncLoop(m) \/ Receive(m) \/ Connect(m) \/ Disconnect(m) \/ Reload(m)
    \/ \E c \in Commits : Write(c) \/ Acknowledge(c)
    \/ SwitchMode \/ PrimaryStops \/ LockExpires

SyncSpec == SyncInit /\ [][SyncNext]_syncVars

-----------------------------------------------------------------------------
(* What process_sync_replication is for: whoever the sync key allows to promote has
   every commit that was promised, at every moment, whatever is changed, read late or
   lost between the two places that name the standbys. *)
AllowedHavePromised ==
    mode /\ sync.leader # NoMember
        => \A m \in {sync.leader} \cup sync.members : promised \subseteq wal[m]

(* A promised commit survives: the Postgres that accepts writes has it, so a failover in
   synchronous mode loses nothing. *)
PromisedSurvives ==
    primary # NoMember => promised \subseteq wal[primary]

(* The docstring of process_sync_replication: a standby in the sync key of the primary
   is one of its synchronous_standby_names. *)
SyncKeyIsConfigured ==
    primary # NoMember /\ sync.leader = primary => sync.members \subseteq names[primary]
=============================================================================
