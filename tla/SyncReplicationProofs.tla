----------------------- MODULE SyncReplicationProofs -----------------------
(***************************************************************************)
(* Proofs about SyncReplication: a commit acknowledged in synchronous mode *)
(* is in every member that the sync key allows to promote, and in the      *)
(* Postgres that accepts writes, for any number of members and commits.    *)
(***************************************************************************)
EXTENDS SyncReplication, TLAPS

-----------------------------------------------------------------------------
(* Types. *)

LEMMA RemoveAtType ==
    ASSUME NEW S, NEW s \in Seq(S), NEW i \in 1..Len(s)
    PROVE  RemoveAt(s, i) \in Seq(S)
BY DEF RemoveAt

LEMMA RangeType ==
    ASSUME NEW S, NEW s \in Seq(S)
    PROVE  Range(s) \subseteq S
BY DEF Range

LEMMA PicksType ==
    ASSUME SyncTypeOK, NEW C \in Picks
    PROVE  C \subseteq Members
BY RangeType DEF SyncTypeOK, Picks, Eligible

(* Only a primary has standbys connected. *)
StreamInv == primary = NoMember => streaming = <<>>

KnownStates == [sync : SyncStates, mode : BOOLEAN, old : BOOLEAN,
                picked : SUBSET (Members \cup {AnyStandby}), allowed : SUBSET Members]

LEMMA PickedType ==
    ASSUME NEW k \in KnownStates, NEW p \in SUBSET (Members \cup {AnyStandby}),
           NEW a \in SUBSET Members
    PROVE  [k EXCEPT !.picked = p, !.allowed = a] \in KnownStates
BY DEF KnownStates

LEMMA OvertakenType ==
    ASSUME NEW m \in Members, known[m] \in KnownStates
    PROVE  /\ Overtaken(m) \in KnownStates
           /\ Overtaken(m).old = (step[m] # "idle")
           /\ Overtaken(m).sync = known[m].sync
           /\ Overtaken(m).mode = known[m].mode
           /\ Overtaken(m).picked = known[m].picked
           /\ Overtaken(m).allowed = known[m].allowed
BY DEF KnownStates, Overtaken

LEMMA GoToType ==
    ASSUME SyncTypeOK, NEW m \in Members, NEW s \in Steps, GoTo(m, s)
    PROVE  step' \in [Members -> Steps]
BY DEF SyncTypeOK, GoTo

LEMMA EndCycleType ==
    ASSUME SyncTypeOK, NEW m \in Members, EndCycle(m)
    PROVE  step' \in [Members -> Steps] /\ known' \in [Members -> KnownStates]
<1>1. Nothing \in KnownStates
  BY DEF Nothing, KnownStates, NoSync, SyncStates
<1>2. step' \in [Members -> Steps]
  BY GoToType DEF EndCycle, Steps
<1>. QED
  BY <1>1, <1>2 DEF EndCycle, SyncTypeOK, KnownStates

LEMMA SyncWrittenType ==
    ASSUME SyncTypeOK, NEW m \in Members, NEW standbys \in SUBSET Members,
           SyncWritten(m, standbys)
    PROVE  sync' \in SyncStates /\ seen' \in [Members -> {"absent", "current", "stale"}]
BY DEF SyncTypeOK, SyncWritten, SyncStates, Outdated

LEMMA ReadType ==
    ASSUME SyncTypeOK, NEW m \in Members, seen' = [seen EXCEPT ![m] = Index],
           known' = [known EXCEPT ![m] = [Nothing EXCEPT !.sync = sync, !.mode = mode]]
    PROVE  /\ seen' \in [Members -> {"absent", "current", "stale"}]
           /\ known' \in [Members -> KnownStates]
<1>1. [Nothing EXCEPT !.sync = sync, !.mode = mode] \in KnownStates
  BY DEF Nothing, KnownStates, SyncTypeOK
<1>. QED
  BY <1>1 DEF SyncTypeOK, Index, KnownStates

(* The steps of the HA loop. *)
LEMMA LoopTypes ==
    ASSUME SyncTypeOK, NEW m \in Members, SyncLoop(m)
    PROVE  SyncTypeOK'
<1>. USE DEF syncDcs, syncPostgres
<1>a. known \in [Members -> KnownStates]
  BY DEF SyncTypeOK, KnownStates
<1>s. \A s \in {"idle", "race", "acquired", "claimed", "leader", "shrink", "names", "enable",
                "confirm", "publish", "disable"} : s \in Steps
  BY DEF Steps
<1>1. CASE ReadCluster(m)
  <2>1. step' \in [Members -> Steps]
    BY <1>1, <1>s, GoToType DEF ReadCluster
  <2>. QED
    BY <1>1, <2>1, ReadType DEF ReadCluster, SyncTypeOK, KnownStates
<1>2. CASE AcquireLock(m)
  <2>1. CASE MayPromote(m) /\ lock = NoMember
    BY <1>2, <1>s, <2>1, ReadType, GoToType DEF AcquireLock, SyncTypeOK, KnownStates
  <2>2. CASE ~(MayPromote(m) /\ lock = NoMember)
    BY <1>2, <2>2, EndCycleType DEF AcquireLock, SyncTypeOK, KnownStates
  <2>. QED
    BY <2>1, <2>2
<1>3. CASE ClaimSync(m)
  <2>1. step' \in [Members -> Steps] /\ known' \in [Members -> KnownStates]
    BY <1>3, <1>a, <1>s, GoToType, EndCycleType DEF ClaimSync
  <2>2. sync' \in SyncStates /\ seen' \in [Members -> {"absent", "current", "stale"}]
    BY <1>3, SyncWrittenType DEF ClaimSync, SyncRefused, SyncTypeOK
  <2>3. names' \in [Members -> SUBSET (Members \cup {AnyStandby})]
    BY <1>3 DEF ClaimSync, SyncTypeOK
  <2>. QED
    BY <1>3, <2>1, <2>2, <2>3 DEF ClaimSync, SyncTypeOK, KnownStates
<1>4. CASE PromoteClaimed(m)
  <2>1. /\ primary' \in Members \cup {NoMember} /\ streaming' \in Seq(Members)
        /\ effective' \in [Members -> SUBSET (Members \cup {AnyStandby})]
    <3>1. CASE lock = m /\ primary = NoMember
      <4>1. primary' = m /\ streaming' = <<>> /\ effective' = [effective EXCEPT ![m] = names[m]]
        BY <1>4, <3>1 DEF PromoteClaimed
      <4>. QED
        BY <4>1 DEF SyncTypeOK
    <3>2. CASE ~(lock = m /\ primary = NoMember)
      BY <1>4, <3>2 DEF PromoteClaimed, SyncTypeOK
    <3>. QED
      BY <3>1, <3>2
  <2>. QED
    BY <1>4, <2>1, EndCycleType DEF PromoteClaimed, SyncTypeOK, KnownStates
<1>5. CASE PickStandbys(m)
  <2>1. PICK picked \in Picks :
          \/ EndCycle(m)
          \/ /\ known' = [known EXCEPT ![m] =
                        [@ EXCEPT !.picked = picked, !.allowed = picked \cap ShownSync]]
             /\ GoTo(m, "names") \/ GoTo(m, "shrink")
    BY <1>5 DEF PickStandbys
  <2>2. picked \subseteq Members
    BY PicksType
  <2>3. step' \in [Members -> Steps] /\ known' \in [Members -> KnownStates]
    <3>1. CASE EndCycle(m)
      BY <3>1, EndCycleType
    <3>2. CASE /\ known' = [known EXCEPT ![m] =
                            [@ EXCEPT !.picked = picked, !.allowed = picked \cap ShownSync]]
               /\ GoTo(m, "names") \/ GoTo(m, "shrink")
      <4>1. [known[m] EXCEPT !.picked = picked, !.allowed = picked \cap ShownSync] \in KnownStates
        <5>1. /\ picked \in SUBSET (Members \cup {AnyStandby})
              /\ picked \cap ShownSync \in SUBSET Members
          BY <2>2
        <5>. QED
          BY <1>a, <5>1, PickedType
      <4>2. known' = [known EXCEPT ![m] =
                        [known[m] EXCEPT !.picked = picked, !.allowed = picked \cap ShownSync]]
        BY <3>2
      <4>3. step' \in [Members -> Steps]
        BY <1>s, <3>2, GoToType
      <4>. QED
        BY <1>a, <4>1, <4>2, <4>3
    <3>. QED
      BY <2>1, <3>1, <3>2
  <2>. QED
    BY <1>5, <2>3 DEF PickStandbys, SyncTypeOK, KnownStates
<1>6. CASE ShrinkSync(m)
  <2>1. step' \in [Members -> Steps] /\ known' \in [Members -> KnownStates]
    BY <1>6, <1>a, <1>s, GoToType, EndCycleType DEF ShrinkSync
  <2>2. Common(m) \subseteq Members
    BY <1>a DEF Common, KnownStates
  <2>3. sync' \in SyncStates /\ seen' \in [Members -> {"absent", "current", "stale"}]
    BY <1>6, <2>2, SyncWrittenType DEF ShrinkSync, SyncRefused, SyncTypeOK
  <2>. QED
    BY <1>6, <2>1, <2>3 DEF ShrinkSync, SyncTypeOK, KnownStates
<1>7. CASE SetNames(m)
  <2>1. step' \in [Members -> Steps] /\ known' \in [Members -> KnownStates]
    BY <1>7, <1>a, <1>s, GoToType, EndCycleType DEF SetNames
  <2>2. names' \in [Members -> SUBSET (Members \cup {AnyStandby})]
    BY <1>7, <1>a DEF SetNames, SyncTypeOK, KnownStates
  <2>. QED
    BY <1>7, <2>1, <2>2 DEF SetNames, SyncTypeOK, KnownStates
<1>8. CASE PickAgain(m)
  <2>1. PICK picked \in Picks :
          \/ EndCycle(m)
          \/ /\ known' = [known EXCEPT ![m].allowed = picked \cap ShownSync]
             /\ GoTo(m, "confirm")
    BY <1>8 DEF PickAgain
  <2>2. picked \subseteq Members
    BY PicksType
  <2>3. step' \in [Members -> Steps] /\ known' \in [Members -> KnownStates]
    <3>1. CASE EndCycle(m)
      BY <3>1, EndCycleType
    <3>2. CASE /\ known' = [known EXCEPT ![m].allowed = picked \cap ShownSync]
               /\ GoTo(m, "confirm")
      BY <1>a, <1>s, <2>2, <3>2, GoToType DEF KnownStates
    <3>. QED
      BY <2>1, <3>1, <3>2
  <2>. QED
    BY <1>8, <2>3 DEF PickAgain, SyncTypeOK, KnownStates
<1>9. CASE ConfirmLeader(m)
  <2>1. step' \in [Members -> Steps] /\ known' \in [Members -> KnownStates]
    BY <1>9, <1>a, <1>s, GoToType, EndCycleType DEF ConfirmLeader
  <2>2. seen' \in [Members -> {"absent", "current", "stale"}]
    BY <1>9 DEF ConfirmLeader, SyncTypeOK, Index
  <2>. QED
    BY <1>9, <2>1, <2>2 DEF ConfirmLeader, SyncTypeOK, KnownStates
<1>10. CASE PublishSync(m)
  <2>1. known[m].allowed \subseteq Members
    BY <1>a DEF KnownStates
  <2>2. sync' \in SyncStates /\ seen' \in [Members -> {"absent", "current", "stale"}]
    BY <1>10, <2>1, SyncWrittenType DEF PublishSync, SyncRefused, SyncTypeOK
  <2>. QED
    BY <1>10, <2>2, EndCycleType DEF PublishSync, SyncTypeOK, KnownStates
<1>11. CASE DeleteSync(m)
  <2>1. step' \in [Members -> Steps]
    BY <1>11, <1>s, GoToType DEF DeleteSync
  <2>2. sync' \in SyncStates /\ seen' \in [Members -> {"absent", "current", "stale"}]
    BY <1>11 DEF DeleteSync, SyncRefused, SyncTypeOK, SyncStates, NoSync, Outdated
  <2>. QED
    BY <1>11, <2>1, <2>2 DEF DeleteSync, SyncTypeOK
<1>12. CASE ClearNames(m)
  BY <1>12, EndCycleType DEF ClearNames, SyncTypeOK, KnownStates
<1>13. CASE ToggleNosync(m)
  BY <1>13 DEF ToggleNosync, SyncTypeOK
<1>14. CASE CycleAborted(m)
  BY <1>14, EndCycleType DEF CycleAborted, SyncTypeOK, KnownStates
<1>. QED
  BY <1>1, <1>2, <1>3, <1>4, <1>5, <1>6, <1>7, <1>8, <1>9, <1>10, <1>11, <1>12, <1>13,
     <1>14 DEF SyncLoop

LEMMA OtherTypes ==
    ASSUME SyncTypeOK, StreamInv,
           \/ \E m \in Members : Receive(m) \/ Connect(m) \/ Disconnect(m) \/ Reload(m)
           \/ \E c \in Commits : Write(c) \/ Acknowledge(c)
           \/ SwitchMode \/ PrimaryStops \/ LockExpires
    PROVE  SyncTypeOK'
<1>. USE NoMemberAssumption DEF SyncTypeOK, syncDcs, syncPostgres
<1>1. ASSUME NEW m \in Members, Receive(m) PROVE SyncTypeOK'
  <2>1. primary \in Members
    BY <1>1 DEF Receive, StreamInv, Range
  <2>. QED
    BY <1>1, <2>1 DEF Receive
<1>2. ASSUME NEW m \in Members, Connect(m) PROVE SyncTypeOK'
  BY <1>2 DEF Connect
<1>3. ASSUME NEW m \in Members, Disconnect(m) PROVE SyncTypeOK'
  BY <1>3, RemoveAtType DEF Disconnect
<1>4. ASSUME NEW m \in Members, Reload(m) PROVE SyncTypeOK'
  BY <1>4 DEF Reload
<1>5. ASSUME NEW c \in Commits, Write(c) PROVE SyncTypeOK'
  BY <1>5 DEF Write
<1>6. ASSUME NEW c \in Commits, Acknowledge(c) PROVE SyncTypeOK'
  BY <1>6 DEF Acknowledge
<1>7. CASE SwitchMode
  <2>0. known \in [Members -> KnownStates]
    BY DEF KnownStates
  <2>3. known' \in [Members -> KnownStates]
    BY <1>7, <2>0, OvertakenType DEF SwitchMode
  <2>4. mode' \in BOOLEAN
    BY <1>7 DEF SwitchMode
  <2>6. promised' \subseteq Commits
    BY <1>7 DEF SwitchMode
  <2>5. UNCHANGED <<lock, sync, nosync, primary, streaming, wal, names, effective, seen, step>>
    BY <1>7 DEF SwitchMode
  <2>. QED
    BY <2>3, <2>4, <2>5, <2>6 DEF KnownStates
<1>8. CASE PrimaryStops
  BY <1>8 DEF PrimaryStops
<1>9. CASE LockExpires
  BY <1>9 DEF LockExpires
<1>. QED
  BY <1>1, <1>2, <1>3, <1>4, <1>5, <1>6, <1>7, <1>8, <1>9

-----------------------------------------------------------------------------
(* The inductive invariant. *)

(* The steps of a cycle of the primary, after it has read the cluster. *)
Late == {"leader", "shrink", "names", "enable", "confirm", "publish"}

(* Such a cycle, which goes by the mode that is in force. *)
InForce(n) == step[n] \in Late /\ ~known[n].old /\ known[n].mode

(* Who accepts writes, or is about to, owns the leader key. *)
LockInv ==
    /\ primary \in {NoMember, lock}
    /\ \A m \in Members : step[m] \in {"acquired", "claimed"} => lock = m

(* The mode that a cycle has read is the one in force, or the cycle is old. *)
CycleInv ==
    \A m \in Members :
      /\ step[m] = "idle" => ~known[m].old
      /\ step[m] # "idle" /\ ~known[m].old => known[m].mode = mode

(* The order of the two places: who stands in the sync key beside n is named in n's
   synchronous_standby_names, as written and as read by Postgres; and before each write
   to one of the two, the members that remain in the other. *)
KeyOf(n) ==
    /\ AnyStandby \notin names[n] \cup effective[n] \cup known[n].picked
    /\ sync.leader = n => sync.members \subseteq names[n] \cap effective[n]
    /\ step[n] \in {"leader", "shrink"} /\ sync.leader = n => sync = known[n].sync
    /\ step[n] \in {"names", "enable"} /\ sync.leader = n
          => sync.members \subseteq known[n].allowed
    /\ step[n] = "enable" => known[n].allowed = {}
    /\ step[n] = "disable" => sync.leader # n
    /\ step[n] \in {"shrink", "names"} => known[n].allowed \subseteq known[n].picked
    /\ step[n] \in {"shrink", "names", "confirm", "publish"}
          => known[n].allowed \subseteq names[n] \cap effective[n]

KeyInv ==
    /\ sync.leader = NoMember => sync = NoSync
    /\ \A n \in Members : KeyOf(n)

(* A cycle in force began when its member was the primary: whoever became the owner of
   the key later has read the mode later, and nobody has deleted the sync key since. *)
AgeOf(n) ==
    /\ \A k \in Members : step[k] \in {"acquired", "claimed"} => ~known[k].old
    /\ \A k \in Members \ {n} : step[k] = "leader" /\ known[k].old => primary # k
    /\ sync = NoSync => seen[n] = "absent"
    /\ seen[n] = "absent" => lock = n

AgeInv == \A n \in Members : InForce(n) => AgeOf(n)

(* What is left of the cycle may still write to the sync key. *)
Reach(n) ==
    \/ step[n] \in {"leader", "shrink", "publish"} /\ Matches(n)
    \/ step[n] \in {"leader", "names", "enable", "confirm"} /\ sync.leader \in {NoMember, n}

(* As long as it may, nobody else has been promoted, and n and the standbys that it is
   about to publish have all that was promised. *)
ReachOf(n) ==
    /\ primary \in {NoMember, n}
    /\ \A k \in Members \ {n} : step[k] # "claimed"
    /\ promised \subseteq wal[n]
    /\ step[n] # "leader" => \A a \in known[n].allowed : promised \subseteq wal[a]

ReachInv == \A n \in Members : InForce(n) /\ Reach(n) => ReachOf(n)

(* Who may become the primary has what was promised: the members that the sync key
   allows, the owner of the leader key, and who is about to take it. *)
PromiseInv ==
    /\ promised # {} => ModeInForce /\ sync.leader # NoMember
    /\ sync.leader # NoMember
          => \A m \in {sync.leader} \cup sync.members : promised \subseteq wal[m]
    /\ lock # NoMember => promised \subseteq wal[lock]
    /\ \A m \in Members :
          step[m] = "race" /\ lock = NoMember /\ MayPromote(m) => promised \subseteq wal[m]

SyncInv == LockInv /\ CycleInv /\ KeyInv /\ AgeInv /\ ReachInv /\ PromiseInv

(* None of the weaknesses shows, and no commit waits for whichever standby is there:
   with synchronous_mode_strict Postgres may still wait for '*' when Patroni publishes
   the standby that it has chosen (MCSyncStrict.cfg). *)
Sheltered == Exposed = {} /\ ~Strict

-----------------------------------------------------------------------------
(* What the steps of the loop do to the cycle of their member, and that they leave the
   cycles of the others alone. *)

OthersKeep(m) ==
    \A n \in Members \ {m} : step'[n] = step[n] /\ known'[n] = known[n]

(* The cycle of m goes on at s with what it knows. *)
GoesTo(m, s) == OthersKeep(m) /\ step'[m] = s /\ known'[m] = known[m]

Ends(m) == OthersKeep(m) /\ step'[m] = "idle" /\ known'[m] = Nothing

(* It has read the cluster anew. *)
Reads(m, s) ==
    /\ OthersKeep(m)
    /\ step'[m] = s
    /\ known'[m].sync = sync /\ known'[m].mode = mode /\ ~known'[m].old
    /\ known'[m].picked = {} /\ known'[m].allowed = {}
    /\ seen'[m] = Index /\ \A n \in Members \ {m} : seen'[n] = seen[n]

(* It has picked standbys, of which those that are allowed are synchronous. *)
Picked(m, s, allowed) ==
    /\ OthersKeep(m)
    /\ step'[m] = s
    /\ known'[m].sync = known[m].sync /\ known'[m].mode = known[m].mode
    /\ known'[m].old = known[m].old
    /\ AnyStandby \notin known[m].picked => AnyStandby \notin known'[m].picked
    /\ known'[m].allowed = allowed

LEMMA EndCycleDoes ==
    ASSUME SyncTypeOK, NEW m \in Members, EndCycle(m)
    PROVE  Ends(m)
BY DEF SyncTypeOK, EndCycle, GoTo, Ends, OthersKeep

LEMMA GoToDoes ==
    ASSUME SyncTypeOK, NEW m \in Members, NEW s, GoTo(m, s), UNCHANGED known
    PROVE  GoesTo(m, s)
BY DEF SyncTypeOK, GoTo, GoesTo, OthersKeep

LEMMA ReadDoes ==
    ASSUME SyncTypeOK, NEW m \in Members, NEW s, GoTo(m, s), seen' = [seen EXCEPT ![m] = Index],
           known' = [known EXCEPT ![m] = [Nothing EXCEPT !.sync = sync, !.mode = mode]]
    PROVE  Reads(m, s)
BY DEF SyncTypeOK, GoTo, Reads, OthersKeep, Nothing

LEMMA ReadClusterDoes ==
    ASSUME SyncTypeOK, NEW m \in Members, ReadCluster(m)
    PROVE  /\ UNCHANGED <<lock, sync, mode, primary, streaming, wal, names, effective, promised>>
           /\ step[m] = "idle" /\ lock \in {m, NoMember}
           /\ Reads(m, IF lock = NoMember THEN "race"
                       ELSE IF primary = m THEN "leader" ELSE "acquired")
BY ReadDoes DEF ReadCluster, syncDcs, syncPostgres

LEMMA AcquireLockDoes ==
    ASSUME SyncTypeOK, NEW m \in Members, AcquireLock(m)
    PROVE  /\ UNCHANGED <<sync, mode, primary, streaming, wal, names, effective, promised>>
           /\ step[m] = "race"
           /\ \/ /\ MayPromote(m) /\ lock = NoMember
                 /\ lock' = m
                 /\ Reads(m, "acquired")
              \/ Ends(m) /\ UNCHANGED <<lock, seen>>
BY ReadDoes, EndCycleDoes DEF AcquireLock, syncPostgres

LEMMA ClaimSyncDoes ==
    ASSUME SyncTypeOK, NEW m \in Members, ClaimSync(m), ~Strict
    PROVE  /\ UNCHANGED <<lock, mode, primary, streaming, wal, effective, promised>>
           /\ step[m] = "acquired"
           /\ \/ /\ ~known[m].mode
                 /\ GoesTo(m, "claimed")
                 /\ UNCHANGED <<sync, seen, names>>
              \/ /\ SyncWritten(m, {})
                 /\ names' = [names EXCEPT ![m] = {}]
                 /\ GoesTo(m, "claimed")
              \/ /\ SyncWritten(m, {}) \/ SyncRefused
                 /\ Ends(m)
                 /\ UNCHANGED names
BY GoToDoes, EndCycleDoes DEF ClaimSync

LEMMA PickStandbysDoes ==
    ASSUME SyncTypeOK, NEW m \in Members, PickStandbys(m)
    PROVE  /\ UNCHANGED <<lock, sync, mode, primary, streaming, wal, names, effective, promised,
                          seen>>
           /\ step[m] = "leader" /\ primary = m /\ known[m].mode /\ HaveRead(m)
           /\ \/ Ends(m)
              \/ \E allowed \in SUBSET ShownSync, s \in {"names", "shrink"} :
                   /\ s = "names" => known[m].sync.members \subseteq allowed
                   /\ Picked(m, s, allowed)
                   /\ allowed \subseteq known'[m].picked
<1>1. PICK picked \in Picks :
        IF picked = known[m].sync.members
        THEN EndCycle(m)
        ELSE /\ known' = [known EXCEPT ![m] =
                            [@ EXCEPT !.picked = picked, !.allowed = picked \cap ShownSync]]
             /\ GoTo(m, IF known[m].sync.members \cap (picked \cap ShownSync)
                              = known[m].sync.members
                        THEN "names" ELSE "shrink")
  BY DEF PickStandbys
<1>2. CASE picked = known[m].sync.members
  BY <1>1, <1>2, EndCycleDoes DEF PickStandbys, syncDcs, syncPostgres
<1>3. CASE picked # known[m].sync.members
  <2>. DEFINE allowed == picked \cap ShownSync
              s == IF known[m].sync.members \cap allowed = known[m].sync.members
                   THEN "names" ELSE "shrink"
  <2>1. AnyStandby \notin picked
    BY PicksType, SyncAssumption
  <2>2. known[m] \in KnownStates
    BY DEF SyncTypeOK, KnownStates
  <2>3. known' = [known EXCEPT ![m] = [@ EXCEPT !.picked = picked, !.allowed = allowed]]
    BY <1>1, <1>3
  <2>4. GoTo(m, s)
    BY <1>1, <1>3
  <2>5. s = "names" => known[m].sync.members \subseteq allowed
    OBVIOUS
  <2>6. allowed \subseteq picked /\ allowed \in SUBSET ShownSync /\ s \in {"names", "shrink"}
    OBVIOUS
  <2>. HIDE DEF allowed, s
  <2>7. Picked(m, s, allowed) /\ known'[m].picked = picked
    BY <2>1, <2>2, <2>3, <2>4 DEF Picked, OthersKeep, GoTo, SyncTypeOK, KnownStates
  <2>. QED
    BY <2>5, <2>6, <2>7 DEF PickStandbys, syncDcs, syncPostgres
<1>. QED
  BY <1>2, <1>3

LEMMA ShrinkSyncDoes ==
    ASSUME SyncTypeOK, NEW m \in Members, ShrinkSync(m)
    PROVE  /\ UNCHANGED <<lock, mode, primary, streaming, wal, names, effective, promised>>
           /\ step[m] = "shrink"
           /\ \/ SyncWritten(m, Common(m)) /\ GoesTo(m, "names")
              \/ (SyncWritten(m, Common(m)) \/ SyncRefused) /\ Ends(m)
BY GoToDoes, EndCycleDoes DEF ShrinkSync, syncPostgres

LEMMA SetNamesDoes ==
    ASSUME SyncTypeOK, NEW m \in Members, SetNames(m), ~Strict
    PROVE  /\ UNCHANGED <<lock, sync, mode, primary, streaming, wal, effective, promised, seen>>
           /\ step[m] = "names"
           /\ names' = [names EXCEPT ![m] = known[m].picked]
           /\ \/ known[m].allowed = {} /\ GoesTo(m, "enable")
              \/ GoesTo(m, "confirm")
              \/ Ends(m)
BY GoToDoes, EndCycleDoes DEF SetNames, syncDcs

LEMMA PickAgainDoes ==
    ASSUME SyncTypeOK, NEW m \in Members, PickAgain(m)
    PROVE  /\ UNCHANGED <<lock, sync, mode, primary, streaming, wal, names, effective, promised,
                          seen>>
           /\ step[m] = "enable" /\ primary = m /\ HaveRead(m)
           /\ \/ Ends(m)
              \/ \E allowed \in SUBSET ShownSync : Picked(m, "confirm", allowed)
<1>1. PICK picked \in Picks :
        \/ EndCycle(m)
        \/ /\ known' = [known EXCEPT ![m].allowed = picked \cap ShownSync]
           /\ GoTo(m, "confirm")
  BY DEF PickAgain
<1>2. CASE EndCycle(m)
  BY <1>2, EndCycleDoes DEF PickAgain, syncDcs, syncPostgres
<1>3. CASE known' = [known EXCEPT ![m].allowed = picked \cap ShownSync] /\ GoTo(m, "confirm")
  <2>. DEFINE allowed == picked \cap ShownSync
  <2>1. known[m] \in KnownStates
    BY DEF SyncTypeOK, KnownStates
  <2>2. known' = [known EXCEPT ![m].allowed = allowed] /\ GoTo(m, "confirm")
    BY <1>3
  <2>3. allowed \in SUBSET ShownSync
    OBVIOUS
  <2>. HIDE DEF allowed
  <2>4. Picked(m, "confirm", allowed)
    BY <2>1, <2>2 DEF Picked, OthersKeep, GoTo, SyncTypeOK, KnownStates
  <2>. QED
    BY <2>3, <2>4 DEF PickAgain, syncDcs, syncPostgres
<1>. QED
  BY <1>1, <1>2, <1>3

LEMMA ConfirmLeaderDoes ==
    ASSUME SyncTypeOK, NEW m \in Members, ConfirmLeader(m)
    PROVE  /\ UNCHANGED <<lock, sync, mode, primary, streaming, wal, names, effective, promised>>
           /\ step[m] = "confirm"
           /\ \/ /\ sync.leader \in {NoMember, m}
                 /\ seen' = [seen EXCEPT ![m] = Index]
                 /\ GoesTo(m, "publish")
              \/ Ends(m) /\ UNCHANGED seen
BY GoToDoes, EndCycleDoes DEF ConfirmLeader, syncDcs, syncPostgres

LEMMA PublishSyncDoes ==
    ASSUME SyncTypeOK, NEW m \in Members, PublishSync(m)
    PROVE  /\ UNCHANGED <<lock, mode, primary, streaming, wal, names, effective, promised>>
           /\ step[m] = "publish"
           /\ SyncWritten(m, known[m].allowed) \/ SyncRefused
           /\ Ends(m)
BY EndCycleDoes DEF PublishSync, syncPostgres

LEMMA DeleteSyncDoes ==
    ASSUME SyncTypeOK, NEW m \in Members, DeleteSync(m), Exposed = {}
    PROVE  /\ UNCHANGED <<lock, mode, primary, streaming, wal, names, effective, promised>>
           /\ step[m] = "leader" /\ primary = m /\ ~known[m].mode
           /\ GoesTo(m, "disable")
           /\ \/ sync' = NoSync /\ seen' = Outdated
              \/ known[m].sync.leader = NoMember /\ SyncRefused
BY GoToDoes DEF DeleteSync, syncPostgres

(* The steps that end the cycle and touch the DCS and Postgres in little or nothing. *)
LEMMA LastStepDoes ==
    ASSUME SyncTypeOK, NEW m \in Members, PromoteClaimed(m) \/ ClearNames(m) \/ CycleAborted(m)
    PROVE  /\ UNCHANGED <<lock, sync, mode, wal, promised, seen>>
           /\ Ends(m)
BY EndCycleDoes DEF PromoteClaimed, ClearNames, CycleAborted, syncDcs, syncPostgres

-----------------------------------------------------------------------------
(* The owner of the leader key. *)

LEMMA LockKept ==
    ASSUME SyncTypeOK, LockInv, Sheltered, SyncNext
    PROVE  LockInv'
<1>. USE NoMemberAssumption DEF SyncTypeOK, LockInv, syncDcs, syncPostgres, GoTo, EndCycle, Sheltered
<1>1. ASSUME NEW m \in Members, SyncLoop(m)
      PROVE  LockInv'
  <2>1. CASE ReadCluster(m)
    BY <2>1 DEF ReadCluster
  <2>2. CASE AcquireLock(m)
    BY <2>2 DEF AcquireLock
  <2>3. CASE ClaimSync(m)
    BY <2>3 DEF ClaimSync
  <2>4. CASE PromoteClaimed(m)
    BY <2>4 DEF PromoteClaimed
  <2>5. CASE PickStandbys(m)
    BY <2>5 DEF PickStandbys
  <2>6. CASE ShrinkSync(m)
    BY <2>6 DEF ShrinkSync
  <2>7. CASE SetNames(m)
    BY <2>7 DEF SetNames
  <2>8. CASE PickAgain(m)
    BY <2>8 DEF PickAgain
  <2>9. CASE ConfirmLeader(m)
    BY <2>9 DEF ConfirmLeader
  <2>10. CASE PublishSync(m)
    BY <2>10 DEF PublishSync
  <2>11. CASE DeleteSync(m)
    BY <2>11 DEF DeleteSync
  <2>12. CASE ClearNames(m) \/ ToggleNosync(m) \/ CycleAborted(m)
    BY <2>12 DEF ClearNames, ToggleNosync, CycleAborted
  <2>. QED
    BY <1>1, <2>1, <2>2, <2>3, <2>4, <2>5, <2>6, <2>7, <2>8, <2>9, <2>10, <2>11, <2>12
    DEF SyncLoop
<1>2. ASSUME NEW m \in Members, Receive(m) \/ Connect(m) \/ Disconnect(m) \/ Reload(m)
      PROVE  LockInv'
  BY <1>2 DEF Receive, Connect, Disconnect, Reload
<1>3. ASSUME NEW c \in Commits, Write(c) \/ Acknowledge(c)
      PROVE  LockInv'
  BY <1>3 DEF Write, Acknowledge
<1>4. CASE SwitchMode \/ PrimaryStops
  BY <1>4 DEF SwitchMode, PrimaryStops
<1>5. CASE LockExpires
  BY <1>5 DEF LockExpires, Urgent
<1>. QED
  BY <1>1, <1>2, <1>3, <1>4, <1>5 DEF SyncNext

(* The mode of a cycle. *)
LEMMA CycleKept ==
    ASSUME SyncTypeOK, CycleInv, Sheltered, SyncNext
    PROVE  CycleInv'
<1>. USE DEF CycleInv, Sheltered, OthersKeep, GoesTo, Ends, Reads, Picked, Nothing
<1>1. ASSUME NEW m \in Members, SyncLoop(m)
      PROVE  CycleInv'
  <2>1. CASE ReadCluster(m)
    BY <2>1, ReadClusterDoes
  <2>2. CASE AcquireLock(m)
    BY <2>2, AcquireLockDoes
  <2>3. CASE ClaimSync(m)
    BY <2>3, ClaimSyncDoes
  <2>4. CASE PromoteClaimed(m)
    BY <2>4, LastStepDoes
  <2>5. CASE PickStandbys(m)
    BY <2>5, PickStandbysDoes
  <2>6. CASE ShrinkSync(m)
    BY <2>6, ShrinkSyncDoes
  <2>7. CASE SetNames(m)
    BY <2>7, SetNamesDoes
  <2>8. CASE PickAgain(m)
    BY <2>8, PickAgainDoes
  <2>9. CASE ConfirmLeader(m)
    BY <2>9, ConfirmLeaderDoes
  <2>10. CASE PublishSync(m)
    BY <2>10, PublishSyncDoes
  <2>11. CASE DeleteSync(m)
    BY <2>11, DeleteSyncDoes
  <2>12. CASE ClearNames(m)
    BY <2>12, LastStepDoes
  <2>13. CASE ToggleNosync(m)
    BY <2>13 DEF ToggleNosync
  <2>14. CASE CycleAborted(m)
    BY <2>14, LastStepDoes
  <2>. QED
    BY <1>1, <2>1, <2>2, <2>3, <2>4, <2>5, <2>6, <2>7, <2>8, <2>9,
       <2>10, <2>11, <2>12, <2>13, <2>14 DEF SyncLoop
<1>2. ASSUME NEW m \in Members, Receive(m)
      PROVE  CycleInv'
  BY <1>2 DEF Receive, syncDcs
<1>3. ASSUME NEW m \in Members, Connect(m)
      PROVE  CycleInv'
  BY <1>3 DEF Connect, syncDcs
<1>4. ASSUME NEW m \in Members, Disconnect(m)
      PROVE  CycleInv'
  BY <1>4 DEF Disconnect, syncDcs
<1>5. ASSUME NEW m \in Members, Reload(m)
      PROVE  CycleInv'
  BY <1>5 DEF Reload, syncDcs
<1>6. ASSUME NEW c \in Commits, Write(c)
      PROVE  CycleInv'
  BY <1>6 DEF Write, syncDcs
<1>7. ASSUME NEW c \in Commits, Acknowledge(c)
      PROVE  CycleInv'
  BY <1>7 DEF Acknowledge, syncDcs
<1>8. CASE SwitchMode
  BY <1>8, OvertakenType DEF SwitchMode, SyncTypeOK, KnownStates
<1>9. CASE PrimaryStops
  BY <1>9 DEF PrimaryStops, syncDcs
<1>10. CASE LockExpires
  BY <1>10 DEF LockExpires
<1>. QED
  BY <1>1, <1>2, <1>3, <1>4, <1>5, <1>6, <1>7, <1>8, <1>9, <1>10 DEF SyncNext

(* Who stands in the sync key is waited for: the cycle of a member only touches its own
   part, and others take the key over or delete it. *)
LEMMA KeyOfOthers ==
    ASSUME NEW m \in Members, NEW n \in Members \ {m}, KeyOf(n),
           step'[n] = step[n], known'[n] = known[n], names'[n] = names[n],
           effective'[n] = effective[n],
           sync' = sync \/ sync'.leader = m \/ sync' = NoSync
    PROVE  KeyOf(n)'
BY NoMemberAssumption DEF KeyOf, NoSync

LEMMA ShownSyncType ==
    ASSUME SyncTypeOK, KeyOf(primary), primary \in Members
    PROVE  ShownSync \subseteq effective[primary]
BY DEF KeyOf, ShownSync

LEMMA KeyKept ==
    ASSUME SyncTypeOK, KeyInv, Sheltered, SyncNext
    PROVE  KeyInv'
<1>. USE NoMemberAssumption DEF SyncTypeOK, KnownStates, KeyInv, Sheltered, OthersKeep, GoesTo, Ends, Nothing
<1>1. ASSUME NEW m \in Members, SyncLoop(m)
      PROVE  KeyInv'
  <2>1. CASE ReadCluster(m)
    <3>1. KeyOf(m)'
      BY <2>1, ReadClusterDoes DEF KeyOf, Reads
    <3>2. \A n \in Members \ {m} : KeyOf(n)'
      BY <2>1, ReadClusterDoes, KeyOfOthers DEF Reads
    <3>3. sync'.leader = NoMember => sync' = NoSync
      BY <2>1, ReadClusterDoes DEF Reads
    <3>. QED
      BY <3>1, <3>2, <3>3 DEF KeyInv
  <2>2. CASE AcquireLock(m)
    <3>1. KeyOf(m)'
      BY <2>2, AcquireLockDoes DEF KeyOf, Reads
    <3>2. \A n \in Members \ {m} : KeyOf(n)'
      BY <2>2, AcquireLockDoes, KeyOfOthers DEF Reads
    <3>3. sync'.leader = NoMember => sync' = NoSync
      BY <2>2, AcquireLockDoes DEF Reads
    <3>. QED
      BY <3>1, <3>2, <3>3 DEF KeyInv
  <2>3. CASE ClaimSync(m)
    <3>1. KeyOf(m)'
      BY <2>3, ClaimSyncDoes DEF KeyOf, SyncWritten, SyncRefused, NoSync
    <3>2. \A n \in Members \ {m} : KeyOf(n)'
      BY <2>3, ClaimSyncDoes, KeyOfOthers DEF SyncWritten, SyncRefused, NoSync
    <3>3. sync'.leader = NoMember => sync' = NoSync
      BY <2>3, ClaimSyncDoes DEF SyncWritten, SyncRefused, NoSync
    <3>. QED
      BY <3>1, <3>2, <3>3 DEF KeyInv
  <2>4. CASE PromoteClaimed(m)
    <3>1. KeyOf(m)'
      BY <2>4, LastStepDoes DEF KeyOf, PromoteClaimed, syncDcs, syncPostgres
    <3>2. \A n \in Members \ {m} : KeyOf(n)'
      BY <2>4, LastStepDoes, KeyOfOthers DEF PromoteClaimed, syncDcs, syncPostgres
    <3>3. sync'.leader = NoMember => sync' = NoSync
      BY <2>4, LastStepDoes DEF PromoteClaimed, syncDcs, syncPostgres
    <3>. QED
      BY <3>1, <3>2, <3>3 DEF KeyInv
  <2>5. CASE PickStandbys(m)
    <3>1. KeyOf(m)'
      BY <2>5, PickStandbysDoes, ShownSyncType DEF KeyOf, HaveRead, Picked
    <3>2. \A n \in Members \ {m} : KeyOf(n)'
      BY <2>5, PickStandbysDoes, ShownSyncType, KeyOfOthers DEF Picked
    <3>3. sync'.leader = NoMember => sync' = NoSync
      BY <2>5, PickStandbysDoes, ShownSyncType DEF Picked
    <3>. QED
      BY <3>1, <3>2, <3>3 DEF KeyInv
  <2>6. CASE ShrinkSync(m)
    <3>1. KeyOf(m)'
      BY <2>6, ShrinkSyncDoes DEF KeyOf, SyncWritten, SyncRefused, NoSync, Common
    <3>2. \A n \in Members \ {m} : KeyOf(n)'
      BY <2>6, ShrinkSyncDoes, KeyOfOthers DEF SyncWritten, SyncRefused, NoSync
    <3>3. sync'.leader = NoMember => sync' = NoSync
      BY <2>6, ShrinkSyncDoes DEF SyncWritten, SyncRefused, NoSync
    <3>. QED
      BY <3>1, <3>2, <3>3 DEF KeyInv
  <2>7. CASE SetNames(m)
    <3>1. KeyOf(m)'
      BY <2>7, SetNamesDoes DEF KeyOf
    <3>2. \A n \in Members \ {m} : KeyOf(n)'
      BY <2>7, SetNamesDoes, KeyOfOthers
    <3>3. sync'.leader = NoMember => sync' = NoSync
      BY <2>7, SetNamesDoes
    <3>. QED
      BY <3>1, <3>2, <3>3 DEF KeyInv
  <2>8. CASE PickAgain(m)
    <3>1. KeyOf(m)'
      BY <2>8, PickAgainDoes, ShownSyncType DEF KeyOf, HaveRead, Picked
    <3>2. \A n \in Members \ {m} : KeyOf(n)'
      BY <2>8, PickAgainDoes, ShownSyncType, KeyOfOthers DEF Picked
    <3>3. sync'.leader = NoMember => sync' = NoSync
      BY <2>8, PickAgainDoes, ShownSyncType DEF Picked
    <3>. QED
      BY <3>1, <3>2, <3>3 DEF KeyInv
  <2>9. CASE ConfirmLeader(m)
    <3>1. KeyOf(m)'
      BY <2>9, ConfirmLeaderDoes DEF KeyOf
    <3>2. \A n \in Members \ {m} : KeyOf(n)'
      BY <2>9, ConfirmLeaderDoes, KeyOfOthers
    <3>3. sync'.leader = NoMember => sync' = NoSync
      BY <2>9, ConfirmLeaderDoes
    <3>. QED
      BY <3>1, <3>2, <3>3 DEF KeyInv
  <2>10. CASE PublishSync(m)
    <3>1. KeyOf(m)'
      BY <2>10, PublishSyncDoes DEF KeyOf, SyncWritten, SyncRefused, NoSync
    <3>2. \A n \in Members \ {m} : KeyOf(n)'
      BY <2>10, PublishSyncDoes, KeyOfOthers DEF SyncWritten, SyncRefused, NoSync
    <3>3. sync'.leader = NoMember => sync' = NoSync
      BY <2>10, PublishSyncDoes DEF SyncWritten, SyncRefused, NoSync
    <3>. QED
      BY <3>1, <3>2, <3>3 DEF KeyInv
  <2>11. CASE DeleteSync(m)
    <3>1. KeyOf(m)'
      BY <2>11, DeleteSyncDoes DEF KeyOf, SyncWritten, SyncRefused, NoSync
    <3>2. \A n \in Members \ {m} : KeyOf(n)'
      BY <2>11, DeleteSyncDoes, KeyOfOthers DEF SyncWritten, SyncRefused, NoSync
    <3>3. sync'.leader = NoMember => sync' = NoSync
      BY <2>11, DeleteSyncDoes DEF SyncWritten, SyncRefused, NoSync
    <3>. QED
      BY <3>1, <3>2, <3>3 DEF KeyInv
  <2>12. CASE ClearNames(m)
    <3>1. KeyOf(m)'
      <4>1. step[m] = "disable" /\ names'[m] = {} /\ effective' = effective /\ sync' = sync
        BY <2>12 DEF ClearNames, syncDcs
      <4>2. step'[m] = "idle" /\ known'[m].picked = {}
        BY <2>12, LastStepDoes
      <4>. QED
        BY <4>1, <4>2 DEF KeyOf
    <3>2. \A n \in Members \ {m} : KeyOf(n)'
      BY <2>12, LastStepDoes, KeyOfOthers DEF ClearNames, syncDcs, syncPostgres
    <3>3. sync'.leader = NoMember => sync' = NoSync
      BY <2>12, LastStepDoes DEF ClearNames, syncDcs, syncPostgres
    <3>. QED
      BY <3>1, <3>2, <3>3 DEF KeyInv
  <2>13. CASE ToggleNosync(m)
    <3>1. KeyOf(m)'
      BY <2>13 DEF KeyOf, ToggleNosync, syncPostgres
    <3>2. \A n \in Members \ {m} : KeyOf(n)'
      BY <2>13, KeyOfOthers DEF ToggleNosync, syncPostgres
    <3>3. sync'.leader = NoMember => sync' = NoSync
      BY <2>13 DEF ToggleNosync, syncPostgres
    <3>. QED
      BY <3>1, <3>2, <3>3 DEF KeyInv
  <2>14. CASE CycleAborted(m)
    <3>1. KeyOf(m)'
      BY <2>14, LastStepDoes DEF KeyOf, CycleAborted, syncDcs, syncPostgres
    <3>2. \A n \in Members \ {m} : KeyOf(n)'
      BY <2>14, LastStepDoes, KeyOfOthers DEF CycleAborted, syncDcs, syncPostgres
    <3>3. sync'.leader = NoMember => sync' = NoSync
      BY <2>14, LastStepDoes DEF CycleAborted, syncDcs, syncPostgres
    <3>. QED
      BY <3>1, <3>2, <3>3 DEF KeyInv
  <2>. QED
    BY <1>1, <2>1, <2>2, <2>3, <2>4, <2>5, <2>6, <2>7, <2>8, <2>9,
       <2>10, <2>11, <2>12, <2>13, <2>14 DEF SyncLoop
<1>2. ASSUME NEW m \in Members, Receive(m)
      PROVE  KeyInv'
  BY <1>2 DEF Receive, KeyOf, syncDcs
<1>3. ASSUME NEW m \in Members, Connect(m)
      PROVE  KeyInv'
  BY <1>3 DEF Connect, KeyOf, syncDcs
<1>4. ASSUME NEW m \in Members, Disconnect(m)
      PROVE  KeyInv'
  BY <1>4 DEF Disconnect, KeyOf, syncDcs
<1>5. ASSUME NEW m \in Members, Reload(m)
      PROVE  KeyInv'
  BY <1>5 DEF Reload, KeyOf, syncDcs
<1>6. ASSUME NEW c \in Commits, Write(c)
      PROVE  KeyInv'
  BY <1>6 DEF Write, KeyOf, syncDcs
<1>7. ASSUME NEW c \in Commits, Acknowledge(c)
      PROVE  KeyInv'
  BY <1>7 DEF Acknowledge, KeyOf, syncDcs
<1>8. CASE SwitchMode
  BY <1>8, OvertakenType DEF SwitchMode, KeyOf
<1>9. CASE PrimaryStops
  BY <1>9 DEF PrimaryStops, KeyOf, syncDcs
<1>10. CASE LockExpires
  BY <1>10 DEF LockExpires, KeyOf, syncPostgres
<1>. QED
  BY <1>1, <1>2, <1>3, <1>4, <1>5, <1>6, <1>7, <1>8, <1>9, <1>10 DEF SyncNext

LEMMA SyncWrittenDoes ==
    ASSUME SyncTypeOK, NEW m \in Members, NEW standbys, SyncWritten(m, standbys)
    PROVE  /\ sync' # NoSync /\ sync'.leader = m /\ sync'.members = standbys
           /\ Matches(m)
           /\ \A n \in Members : seen'[n] = IF seen[n] = "current" THEN "stale" ELSE seen[n]
BY NoMemberAssumption DEF SyncTypeOK, SyncWritten, NoSync, Outdated

(* A step of m in the middle of its cycle leaves the key to its owner. *)
LEMMA AgeOfOthers ==
    ASSUME SyncTypeOK, NEW m \in Members, NEW n \in Members, AgeOf(n), OthersKeep(m),
           step'[m] \notin {"acquired", "claimed", "leader"},
           primary' = primary, lock' = lock,
           seen'[n] = "absent" => seen[n] = "absent",
           sync' = NoSync => sync = NoSync /\ seen'[n] = seen[n]
    PROVE  AgeOf(n)'
BY DEF AgeOf, OthersKeep

(* Nobody else becomes the owner of the leader key during a cycle in force, nor deletes
   the sync key. *)
LEMMA AgeKept ==
    ASSUME SyncTypeOK, LockInv, CycleInv, AgeInv, Sheltered, SyncNext
    PROVE  AgeInv'
<1>. USE NoMemberAssumption DEF SyncTypeOK, KnownStates, AgeInv, Sheltered, OthersKeep, GoesTo, Ends, Nothing
<1>1. ASSUME NEW m \in Members, SyncLoop(m)
      PROVE  AgeInv'
  <2>1. CASE ReadCluster(m)
    <3>1. ASSUME NEW n \in Members \ {m}, InForce(n)' PROVE AgeOf(n)'
      <4>1. InForce(n) /\ AgeOf(n)
        BY <2>1, <3>1, ReadClusterDoes DEF InForce, Reads
      <4>. QED
        BY <2>1, <3>1, <4>1, ReadClusterDoes DEF AgeOf, Reads
    <3>2. ASSUME InForce(m)' PROVE AgeOf(m)'
      <4>1. lock = m /\ primary = m
        BY <2>1, <3>2, ReadClusterDoes DEF Reads, InForce, Late
      <4>. QED
        BY <2>1, <4>1, ReadClusterDoes DEF AgeOf, Reads, Index, LockInv
    <3>. QED
      BY <3>1, <3>2 DEF AgeInv
  <2>2. CASE AcquireLock(m)
    <3>1. ASSUME NEW n \in Members \ {m}, InForce(n)' PROVE AgeOf(n)'
      <4>1. InForce(n) /\ AgeOf(n)
        BY <2>2, <3>1, AcquireLockDoes DEF InForce, Reads
      <4>. QED
        BY <2>2, <3>1, <4>1, AcquireLockDoes DEF AgeOf, Reads
    <3>2. ~InForce(m)'
      BY <2>2, AcquireLockDoes DEF InForce, Late, Reads
    <3>. QED
      BY <3>1, <3>2 DEF AgeInv
  <2>3. CASE ClaimSync(m)
    <3>1. ASSUME NEW n \in Members \ {m}, InForce(n)' PROVE AgeOf(n)'
      <4>1. InForce(n) /\ AgeOf(n)
        BY <2>3, <3>1, ClaimSyncDoes DEF InForce, SyncWritten, SyncRefused, NoSync, Outdated
      <4>. QED
        BY <2>3, <3>1, <4>1, ClaimSyncDoes, SMTT(30)
        DEF AgeOf, SyncWritten, SyncRefused, NoSync, Outdated
    <3>2. ~InForce(m)'
      BY <2>3, ClaimSyncDoes DEF InForce, Late, SyncWritten, SyncRefused, NoSync, Outdated
    <3>. QED
      BY <3>1, <3>2 DEF AgeInv
  <2>4. CASE PromoteClaimed(m)
    <3>1. ASSUME NEW n \in Members \ {m}, InForce(n)' PROVE AgeOf(n)'
      <4>1. InForce(n) /\ AgeOf(n)
        BY <2>4, <3>1, LastStepDoes DEF InForce, PromoteClaimed, syncDcs, syncPostgres
      <4>. QED
        <5>1. /\ OthersKeep(m) /\ step'[m] = "idle"
              /\ UNCHANGED <<lock, sync, seen>>
          BY <2>4, LastStepDoes
        <5>2. primary' \in {primary, m}
          BY <2>4 DEF PromoteClaimed
        <5>. QED
          BY <4>1, <5>1, <5>2 DEF AgeOf
    <3>2. ~InForce(m)'
      BY <2>4, LastStepDoes DEF InForce, Late, PromoteClaimed, syncDcs, syncPostgres
    <3>. QED
      BY <3>1, <3>2 DEF AgeInv
  <2>5. CASE PickStandbys(m)
    <3>1. ASSUME NEW n \in Members \ {m}, InForce(n)' PROVE AgeOf(n)'
      <4>1. InForce(n) /\ AgeOf(n)
        BY <2>5, <3>1, PickStandbysDoes DEF InForce, Picked
      <4>2. seen'[n] = "absent" => seen[n] = "absent"
        BY <2>5, PickStandbysDoes DEF Picked
      <4>3. sync' = NoSync => sync = NoSync /\ seen'[n] = seen[n]
        BY <2>5, PickStandbysDoes DEF Picked
      <4>. QED
        BY <2>5, <4>1, <4>2, <4>3, PickStandbysDoes, AgeOfOthers DEF Picked
    <3>2. ASSUME InForce(m)' PROVE AgeOf(m)'
      <4>1. InForce(m) /\ AgeOf(m)
        BY <2>5, <3>2, PickStandbysDoes DEF InForce, Late, Picked
      <4>2. seen'[m] = "absent" => seen[m] = "absent"
        BY <2>5, PickStandbysDoes DEF Picked
      <4>3. sync' = NoSync => sync = NoSync /\ seen'[m] = seen[m]
        BY <2>5, PickStandbysDoes DEF Picked
      <4>. QED
        BY <2>5, <4>1, <4>2, <4>3, PickStandbysDoes, AgeOfOthers DEF Picked
    <3>. QED
      BY <3>1, <3>2 DEF AgeInv
  <2>6. CASE ShrinkSync(m)
    <3>1. ASSUME NEW n \in Members \ {m}, InForce(n)' PROVE AgeOf(n)'
      <4>1. InForce(n) /\ AgeOf(n)
        BY <2>6, <3>1, ShrinkSyncDoes DEF InForce, SyncWritten, SyncRefused, NoSync, Outdated
      <4>2. seen'[n] = "absent" => seen[n] = "absent"
        BY <2>6, ShrinkSyncDoes DEF SyncWritten, SyncRefused, NoSync, Outdated
      <4>3. sync' = NoSync => sync = NoSync /\ seen'[n] = seen[n]
        BY <2>6, ShrinkSyncDoes, SyncWrittenDoes DEF SyncRefused
      <4>. QED
        BY <2>6, <4>1, <4>2, <4>3, ShrinkSyncDoes, AgeOfOthers
    <3>2. ASSUME InForce(m)' PROVE AgeOf(m)'
      <4>1. InForce(m) /\ AgeOf(m)
        BY <2>6, <3>2, ShrinkSyncDoes DEF InForce, Late, SyncWritten, SyncRefused, NoSync, Outdated
      <4>2. seen'[m] = "absent" => seen[m] = "absent"
        BY <2>6, ShrinkSyncDoes DEF SyncWritten, SyncRefused, NoSync, Outdated
      <4>3. sync' = NoSync => sync = NoSync /\ seen'[m] = seen[m]
        BY <2>6, ShrinkSyncDoes, SyncWrittenDoes DEF SyncRefused
      <4>. QED
        BY <2>6, <4>1, <4>2, <4>3, ShrinkSyncDoes, AgeOfOthers
    <3>. QED
      BY <3>1, <3>2 DEF AgeInv
  <2>7. CASE SetNames(m)
    <3>1. ASSUME NEW n \in Members \ {m}, InForce(n)' PROVE AgeOf(n)'
      <4>1. InForce(n) /\ AgeOf(n)
        BY <2>7, <3>1, SetNamesDoes DEF InForce
      <4>. QED
        <5>1. OthersKeep(m) /\ step'[m] \in {"enable", "confirm", "idle"}
          BY <2>7, SetNamesDoes
        <5>. QED
          BY <2>7, <4>1, <5>1, SetNamesDoes, AgeOfOthers
    <3>2. ASSUME InForce(m)' PROVE AgeOf(m)'
      <4>1. InForce(m) /\ AgeOf(m)
        BY <2>7, <3>2, SetNamesDoes DEF InForce, Late
      <4>. QED
        <5>1. OthersKeep(m) /\ step'[m] \in {"enable", "confirm", "idle"}
          BY <2>7, SetNamesDoes
        <5>. QED
          BY <2>7, <4>1, <5>1, SetNamesDoes, AgeOfOthers
    <3>. QED
      BY <3>1, <3>2 DEF AgeInv
  <2>8. CASE PickAgain(m)
    <3>1. ASSUME NEW n \in Members \ {m}, InForce(n)' PROVE AgeOf(n)'
      <4>1. InForce(n) /\ AgeOf(n)
        BY <2>8, <3>1, PickAgainDoes DEF InForce, Picked
      <4>2. seen'[n] = "absent" => seen[n] = "absent"
        BY <2>8, PickAgainDoes DEF Picked
      <4>3. sync' = NoSync => sync = NoSync /\ seen'[n] = seen[n]
        BY <2>8, PickAgainDoes DEF Picked
      <4>. QED
        BY <2>8, <4>1, <4>2, <4>3, PickAgainDoes, AgeOfOthers DEF Picked
    <3>2. ASSUME InForce(m)' PROVE AgeOf(m)'
      <4>1. InForce(m) /\ AgeOf(m)
        BY <2>8, <3>2, PickAgainDoes DEF InForce, Late, Picked
      <4>. QED
        BY <2>8, <3>2, <4>1, PickAgainDoes DEF AgeOf, Picked
    <3>. QED
      BY <3>1, <3>2 DEF AgeInv
  <2>9. CASE ConfirmLeader(m)
    <3>1. ASSUME NEW n \in Members \ {m}, InForce(n)' PROVE AgeOf(n)'
      <4>1. InForce(n) /\ AgeOf(n)
        BY <2>9, <3>1, ConfirmLeaderDoes DEF InForce, Index, NoSync
      <4>2. seen'[n] = "absent" => seen[n] = "absent"
        BY <2>9, ConfirmLeaderDoes DEF Index, NoSync
      <4>3. sync' = NoSync => sync = NoSync /\ seen'[n] = seen[n]
        BY <2>9, ConfirmLeaderDoes DEF Index, NoSync
      <4>. QED
        BY <2>9, <4>1, <4>2, <4>3, ConfirmLeaderDoes, AgeOfOthers
    <3>2. ASSUME InForce(m)' PROVE AgeOf(m)'
      <4>1. InForce(m) /\ AgeOf(m)
        BY <2>9, <3>2, ConfirmLeaderDoes DEF InForce, Late, Index, NoSync
      <4>. QED
        <5>1. /\ OthersKeep(m) /\ step'[m] \in {"publish", "idle"}
              /\ UNCHANGED <<lock, sync, primary>>
              /\ seen' = seen \/ seen' = [seen EXCEPT ![m] = Index]
          BY <2>9, ConfirmLeaderDoes
        <5>2. seen'[m] \in {seen[m], Index}
          BY <5>1
        <5>3. /\ seen'[m] = "absent" => seen[m] = "absent"
              /\ sync = NoSync => seen'[m] = seen[m]
          BY <4>1, <5>2 DEF AgeOf, Index
        <5>. QED
          BY <4>1, <5>1, <5>3, AgeOfOthers
    <3>. QED
      BY <3>1, <3>2 DEF AgeInv
  <2>10. CASE PublishSync(m)
    <3>1. ASSUME NEW n \in Members \ {m}, InForce(n)' PROVE AgeOf(n)'
      <4>1. InForce(n) /\ AgeOf(n)
        BY <2>10, <3>1, PublishSyncDoes, SMTT(30)
        DEF InForce, SyncWritten, SyncRefused, NoSync, Outdated
      <4>2. seen'[n] = "absent" => seen[n] = "absent"
        BY <2>10, PublishSyncDoes, SyncWrittenDoes DEF SyncRefused
      <4>3. sync' = NoSync => sync = NoSync /\ seen'[n] = seen[n]
        BY <2>10, PublishSyncDoes, SyncWrittenDoes DEF SyncRefused
      <4>. QED
        BY <2>10, <4>1, <4>2, <4>3, PublishSyncDoes, AgeOfOthers
    <3>2. ~InForce(m)'
      BY <2>10, PublishSyncDoes DEF InForce, Late, SyncWritten, SyncRefused, NoSync, Outdated
    <3>. QED
      BY <3>1, <3>2 DEF AgeInv
  <2>11. CASE DeleteSync(m)
    <3>1. ASSUME NEW n \in Members \ {m}, InForce(n)' PROVE AgeOf(n)'
      <4>1. InForce(n) /\ AgeOf(n)
        BY <2>11, <3>1, DeleteSyncDoes DEF InForce, SyncWritten, SyncRefused, NoSync, Outdated
      <4>2. FALSE
        BY <2>11, <4>1, DeleteSyncDoes DEF AgeOf, InForce, Late, CycleInv
      <4>. QED
        BY <4>2
    <3>2. ~InForce(m)'
      BY <2>11, DeleteSyncDoes DEF InForce, Late, SyncWritten, SyncRefused, NoSync, Outdated
    <3>. QED
      BY <3>1, <3>2 DEF AgeInv
  <2>12. CASE ClearNames(m)
    <3>1. ASSUME NEW n \in Members \ {m}, InForce(n)' PROVE AgeOf(n)'
      <4>1. InForce(n) /\ AgeOf(n)
        BY <2>12, <3>1, LastStepDoes DEF InForce, ClearNames, syncDcs, syncPostgres
      <4>. QED
        BY <2>12, <3>1, <4>1, LastStepDoes DEF AgeOf, ClearNames, syncDcs, syncPostgres
    <3>2. ~InForce(m)'
      BY <2>12, LastStepDoes DEF InForce, Late, ClearNames, syncDcs, syncPostgres
    <3>. QED
      BY <3>1, <3>2 DEF AgeInv
  <2>13. CASE ToggleNosync(m)
    BY <2>13 DEF ToggleNosync, syncPostgres, AgeOf, InForce
  <2>14. CASE CycleAborted(m)
    <3>1. ASSUME NEW n \in Members \ {m}, InForce(n)' PROVE AgeOf(n)'
      <4>1. InForce(n) /\ AgeOf(n)
        BY <2>14, <3>1, LastStepDoes DEF InForce, CycleAborted, syncDcs, syncPostgres
      <4>. QED
        BY <2>14, <3>1, <4>1, LastStepDoes DEF AgeOf, CycleAborted, syncDcs, syncPostgres
    <3>2. ~InForce(m)'
      BY <2>14, LastStepDoes DEF InForce, Late, CycleAborted, syncDcs, syncPostgres
    <3>. QED
      BY <3>1, <3>2 DEF AgeInv
  <2>. QED
    BY <1>1, <2>1, <2>2, <2>3, <2>4, <2>5, <2>6, <2>7, <2>8, <2>9,
       <2>10, <2>11, <2>12, <2>13, <2>14 DEF SyncLoop
<1>2. ASSUME NEW m \in Members, Receive(m)
      PROVE  AgeInv'
  BY <1>2 DEF Receive, AgeOf, InForce, syncDcs
<1>3. ASSUME NEW m \in Members, Connect(m)
      PROVE  AgeInv'
  BY <1>3 DEF Connect, AgeOf, InForce, syncDcs
<1>4. ASSUME NEW m \in Members, Disconnect(m)
      PROVE  AgeInv'
  BY <1>4 DEF Disconnect, AgeOf, InForce, syncDcs
<1>5. ASSUME NEW m \in Members, Reload(m)
      PROVE  AgeInv'
  BY <1>5 DEF Reload, AgeOf, InForce, syncDcs
<1>6. ASSUME NEW c \in Commits, Write(c)
      PROVE  AgeInv'
  BY <1>6 DEF Write, AgeOf, InForce, syncDcs
<1>7. ASSUME NEW c \in Commits, Acknowledge(c)
      PROVE  AgeInv'
  BY <1>7 DEF Acknowledge, AgeOf, InForce, syncDcs
<1>8. CASE SwitchMode
  BY <1>8, OvertakenType DEF SwitchMode, InForce, Late, CycleInv
<1>9. CASE PrimaryStops
  BY <1>9 DEF PrimaryStops, AgeOf, InForce, syncDcs
<1>10. CASE LockExpires
  <2>1. ASSUME NEW n \in Members, InForce(n)' PROVE AgeOf(n)'
    <3>1. InForce(n) /\ AgeOf(n)
      BY <1>10, <2>1 DEF LockExpires, InForce
    <3>2. seen[n] # "absent"
      BY <1>10, <3>1 DEF LockExpires, Urgent, InForce, Late
    <3>. QED
      BY <1>10, <3>1, <3>2 DEF LockExpires, AgeOf, syncPostgres
  <2>. QED
    BY <2>1 DEF AgeInv
<1>. QED
  BY <1>1, <1>2, <1>3, <1>4, <1>5, <1>6, <1>7, <1>8, <1>9, <1>10 DEF SyncNext

(* A cycle in force that may still write to the sync key could do so before the step of
   another member. *)
LEMMA ReachBefore ==
    ASSUME SyncTypeOK, NEW m \in Members, NEW n \in Members \ {m}, OthersKeep(m),
           InForce(n)', Reach(n)',
           seen'[n] # "stale" => seen[n] # "stale",
           sync' = sync \/ sync'.leader = m
    PROVE  InForce(n) /\ Reach(n)
BY NoMemberAssumption DEF InForce, Reach, Matches, OthersKeep

LEMMA ReachOfOthers ==
    ASSUME SyncTypeOK, NEW m \in Members, NEW n \in Members, ReachOf(n), OthersKeep(m),
           primary' = primary, promised' = promised, wal' = wal,
           n # m => step'[m] # "claimed",
           n = m => /\ step[m] # "leader"
                    /\ known'[m].allowed = known[m].allowed
    PROVE  ReachOf(n)'
BY DEF ReachOf, OthersKeep

(* A cycle in force keeps the sync key from being deleted. *)
LEMMA NotDeleted ==
    ASSUME SyncTypeOK, CycleInv, AgeInv, Sheltered, NEW m \in Members, DeleteSync(m),
           NEW n \in Members \ {m}
    PROVE  ~InForce(n)
<1>1. step[m] = "leader" /\ primary = m /\ ~known[m].mode
  BY DeleteSyncDoes DEF Sheltered
<1>. QED
  BY <1>1 DEF InForce, Late, AgeInv, AgeOf, CycleInv, SyncTypeOK

(* Whoever may still write to the sync key is the last primary, and what it may write is
   true. *)
LEMMA ReachKept ==
    ASSUME SyncTypeOK, SyncInv, Sheltered, SyncNext
    PROVE  ReachInv'
<1>. USE NoMemberAssumption DEF SyncTypeOK, KnownStates, ReachInv, AgeInv, Sheltered, OthersKeep, GoesTo, Ends, Nothing, SyncInv
<1>1. ASSUME NEW m \in Members, SyncLoop(m)
      PROVE  ReachInv'
  <2>1. CASE ReadCluster(m)
    <3>1. ASSUME NEW n \in Members \ {m}, InForce(n)', Reach(n)' PROVE ReachOf(n)'
      <4>1. /\ seen'[n] # "stale" => seen[n] # "stale"
            /\ sync' = sync \/ sync'.leader = m
        BY <2>1, ReadClusterDoes DEF Reads
      <4>2. ReachOf(n)
        BY <2>1, <3>1, <4>1, ReadClusterDoes, ReachBefore DEF Reads
      <4>. QED
        BY <2>1, <4>2, ReadClusterDoes, ReachOfOthers DEF Reads
    <3>2. ASSUME InForce(m)' PROVE ReachOf(m)'
      <4>1. step'[m] = "leader" /\ lock = m /\ primary = m
        BY <2>1, <3>2, ReadClusterDoes DEF Reads, InForce, Late
      <4>2. promised \subseteq wal[m] /\ \A k \in Members \ {m} : step[k] # "claimed"
        BY <4>1 DEF PromiseInv, LockInv
      <4>. QED
        BY <2>1, <4>1, <4>2, ReadClusterDoes DEF ReachOf, Reads
    <3>. QED
      BY <3>1, <3>2 DEF ReachInv
  <2>2. CASE AcquireLock(m)
    <3>1. ASSUME NEW n \in Members \ {m}, InForce(n)', Reach(n)' PROVE ReachOf(n)'
      <4>1. /\ seen'[n] # "stale" => seen[n] # "stale"
            /\ sync' = sync \/ sync'.leader = m
        BY <2>2, AcquireLockDoes DEF Reads
      <4>2. ReachOf(n)
        BY <2>2, <3>1, <4>1, AcquireLockDoes, ReachBefore DEF Reads
      <4>. QED
        BY <2>2, <4>2, AcquireLockDoes, ReachOfOthers DEF Reads
    <3>2. ~InForce(m)'
      BY <2>2, AcquireLockDoes DEF InForce, Late, Reads
    <3>. QED
      BY <3>1, <3>2 DEF ReachInv
  <2>3. CASE ClaimSync(m)
    <3>1. ASSUME NEW n \in Members \ {m}, InForce(n)', Reach(n)' PROVE ReachOf(n)'
      <4>1. /\ seen'[n] # "stale" => seen[n] # "stale"
            /\ sync' = sync \/ sync'.leader = m
        BY <2>3, ClaimSyncDoes, SyncWrittenDoes DEF SyncRefused
      <4>2. ReachOf(n) /\ InForce(n) /\ AgeOf(n)
        BY <2>3, <3>1, <4>1, ClaimSyncDoes, ReachBefore
      <4>3. step[m] = "acquired" /\ known[m].mode /\ lock = m
        BY <2>3, <4>2, ClaimSyncDoes DEF AgeOf, InForce, Late, CycleInv, LockInv
      <4>4. step'[m] = "claimed" => sync'.leader = m /\ seen'[n] = "stale"
        BY <2>3, <4>2, <4>3, ClaimSyncDoes, SyncWrittenDoes DEF AgeOf, SyncRefused
      <4>5. step'[m] # "claimed"
        BY <3>1, <4>4 DEF Reach, Matches
      <4>. QED
        BY <2>3, <4>2, <4>5, ClaimSyncDoes, ReachOfOthers
    <3>2. ~InForce(m)'
      BY <2>3, ClaimSyncDoes DEF InForce, Late, SyncRefused
    <3>. QED
      BY <3>1, <3>2 DEF ReachInv
  <2>4. CASE PromoteClaimed(m)
    <3>1. ASSUME NEW n \in Members \ {m}, InForce(n)', Reach(n)' PROVE ReachOf(n)'
      <4>1. /\ seen'[n] # "stale" => seen[n] # "stale"
            /\ sync' = sync \/ sync'.leader = m
        BY <2>4, LastStepDoes
      <4>2. ReachOf(n)
        BY <2>4, <3>1, <4>1, LastStepDoes, ReachBefore
      <4>3. FALSE
        BY <2>4, <4>2 DEF ReachOf, PromoteClaimed
      <4>. QED
        BY <4>3
    <3>2. ~InForce(m)'
      BY <2>4, LastStepDoes DEF InForce, Late
    <3>. QED
      BY <3>1, <3>2 DEF ReachInv
  <2>5. CASE PickStandbys(m)
    <3>1. ASSUME NEW n \in Members \ {m}, InForce(n)', Reach(n)' PROVE ReachOf(n)'
      <4>1. /\ seen'[n] # "stale" => seen[n] # "stale"
            /\ sync' = sync \/ sync'.leader = m
        BY <2>5, PickStandbysDoes DEF Picked
      <4>2. ReachOf(n)
        BY <2>5, <3>1, <4>1, PickStandbysDoes, ReachBefore DEF Picked
      <4>. QED
        BY <2>5, <4>2, PickStandbysDoes, ReachOfOthers DEF Picked
    <3>2. ASSUME InForce(m)', Reach(m)' PROVE ReachOf(m)'
      <4>1. InForce(m) /\ Reach(m)
        BY <2>5, <3>2, PickStandbysDoes DEF InForce, Late, Reach, Matches, Picked
      <4>2. ReachOf(m)
        BY <4>1
      <4>3. \A s \in ShownSync : wal[s] = wal[m]
        BY <2>5, PickStandbysDoes DEF HaveRead
      <4>4. known'[m].allowed \subseteq ShownSync
        BY <2>5, <3>2, PickStandbysDoes DEF Picked, InForce, Late
      <4>. QED
        BY <2>5, <4>2, <4>3, <4>4, PickStandbysDoes DEF ReachOf, Picked
    <3>. QED
      BY <3>1, <3>2 DEF ReachInv
  <2>6. CASE ShrinkSync(m)
    <3>1. ASSUME NEW n \in Members \ {m}, InForce(n)', Reach(n)' PROVE ReachOf(n)'
      <4>1. /\ seen'[n] # "stale" => seen[n] # "stale"
            /\ sync' = sync \/ sync'.leader = m
        BY <2>6, ShrinkSyncDoes, SyncWrittenDoes DEF SyncRefused
      <4>2. ReachOf(n)
        BY <2>6, <3>1, <4>1, ShrinkSyncDoes, ReachBefore
      <4>. QED
        BY <2>6, <4>2, ShrinkSyncDoes, ReachOfOthers
    <3>2. ASSUME InForce(m)', Reach(m)' PROVE ReachOf(m)'
      <4>1. InForce(m) /\ Reach(m)
        BY <2>6, <3>2, ShrinkSyncDoes, SyncWrittenDoes DEF InForce, Late, Reach, Matches, SyncRefused
      <4>2. ReachOf(m)
        BY <4>1
      <4>. QED
        BY <2>6, <3>2, <4>2, ShrinkSyncDoes, ReachOfOthers DEF InForce, Late
    <3>. QED
      BY <3>1, <3>2 DEF ReachInv
  <2>7. CASE SetNames(m)
    <3>1. ASSUME NEW n \in Members \ {m}, InForce(n)', Reach(n)' PROVE ReachOf(n)'
      <4>1. /\ seen'[n] # "stale" => seen[n] # "stale"
            /\ sync' = sync \/ sync'.leader = m
        BY <2>7, SetNamesDoes
      <4>2. ReachOf(n)
        BY <2>7, <3>1, <4>1, SetNamesDoes, ReachBefore
      <4>. QED
        BY <2>7, <4>2, SetNamesDoes, ReachOfOthers
    <3>2. ASSUME InForce(m)', Reach(m)' PROVE ReachOf(m)'
      <4>1. InForce(m) /\ Reach(m)
        BY <2>7, <3>2, SetNamesDoes DEF InForce, Late, Reach, Matches
      <4>2. ReachOf(m)
        BY <4>1
      <4>. QED
        BY <2>7, <3>2, <4>2, SetNamesDoes, ReachOfOthers DEF InForce, Late
    <3>. QED
      BY <3>1, <3>2 DEF ReachInv
  <2>8. CASE PickAgain(m)
    <3>1. ASSUME NEW n \in Members \ {m}, InForce(n)', Reach(n)' PROVE ReachOf(n)'
      <4>1. /\ seen'[n] # "stale" => seen[n] # "stale"
            /\ sync' = sync \/ sync'.leader = m
        BY <2>8, PickAgainDoes DEF Picked
      <4>2. ReachOf(n)
        BY <2>8, <3>1, <4>1, PickAgainDoes, ReachBefore DEF Picked
      <4>. QED
        BY <2>8, <4>2, PickAgainDoes, ReachOfOthers DEF Picked
    <3>2. ASSUME InForce(m)', Reach(m)' PROVE ReachOf(m)'
      <4>1. InForce(m) /\ Reach(m)
        BY <2>8, <3>2, PickAgainDoes DEF InForce, Late, Reach, Matches, Picked
      <4>2. ReachOf(m)
        BY <4>1
      <4>3. \A s \in ShownSync : wal[s] = wal[m]
        BY <2>8, PickAgainDoes DEF HaveRead
      <4>4. known'[m].allowed \subseteq ShownSync
        BY <2>8, <3>2, PickAgainDoes DEF Picked, InForce, Late
      <4>. QED
        BY <2>8, <4>2, <4>3, <4>4, PickAgainDoes DEF ReachOf, Picked
    <3>. QED
      BY <3>1, <3>2 DEF ReachInv
  <2>9. CASE ConfirmLeader(m)
    <3>1. ASSUME NEW n \in Members \ {m}, InForce(n)', Reach(n)' PROVE ReachOf(n)'
      <4>1. /\ seen'[n] # "stale" => seen[n] # "stale"
            /\ sync' = sync \/ sync'.leader = m
        BY <2>9, ConfirmLeaderDoes
      <4>2. ReachOf(n)
        BY <2>9, <3>1, <4>1, ConfirmLeaderDoes, ReachBefore
      <4>. QED
        BY <2>9, <4>2, ConfirmLeaderDoes, ReachOfOthers
    <3>2. ASSUME InForce(m)', Reach(m)' PROVE ReachOf(m)'
      <4>1. InForce(m) /\ Reach(m)
        BY <2>9, <3>2, ConfirmLeaderDoes DEF InForce, Late, Reach, Matches
      <4>2. ReachOf(m)
        BY <4>1
      <4>. QED
        BY <2>9, <3>2, <4>2, ConfirmLeaderDoes, ReachOfOthers DEF InForce, Late
    <3>. QED
      BY <3>1, <3>2 DEF ReachInv
  <2>10. CASE PublishSync(m)
    <3>1. ASSUME NEW n \in Members \ {m}, InForce(n)', Reach(n)' PROVE ReachOf(n)'
      <4>1. /\ seen'[n] # "stale" => seen[n] # "stale"
            /\ sync' = sync \/ sync'.leader = m
        BY <2>10, PublishSyncDoes, SyncWrittenDoes DEF SyncRefused
      <4>2. ReachOf(n)
        BY <2>10, <3>1, <4>1, PublishSyncDoes, ReachBefore
      <4>. QED
        BY <2>10, <4>2, PublishSyncDoes, ReachOfOthers
    <3>2. ~InForce(m)'
      BY <2>10, PublishSyncDoes DEF InForce, Late, SyncRefused
    <3>. QED
      BY <3>1, <3>2 DEF ReachInv
  <2>11. CASE DeleteSync(m)
    <3>1. ASSUME NEW n \in Members \ {m}, InForce(n)', Reach(n)' PROVE ReachOf(n)'
      <4>1. InForce(n)
        BY <2>11, <3>1, DeleteSyncDoes DEF InForce
      <4>. QED
        BY <2>11, <4>1, NotDeleted
    <3>2. ~InForce(m)'
      BY <2>11, DeleteSyncDoes DEF InForce, Late, SyncRefused
    <3>. QED
      BY <3>1, <3>2 DEF ReachInv
  <2>12. CASE ClearNames(m)
    <3>1. ASSUME NEW n \in Members \ {m}, InForce(n)', Reach(n)' PROVE ReachOf(n)'
      <4>1. /\ seen'[n] # "stale" => seen[n] # "stale"
            /\ sync' = sync \/ sync'.leader = m
        BY <2>12, LastStepDoes
      <4>2. ReachOf(n)
        BY <2>12, <3>1, <4>1, LastStepDoes, ReachBefore
      <4>. QED
        BY <2>12, <4>2, LastStepDoes, ReachOfOthers DEF ClearNames, syncDcs, syncPostgres
    <3>2. ~InForce(m)'
      BY <2>12, LastStepDoes DEF InForce, Late
    <3>. QED
      BY <3>1, <3>2 DEF ReachInv
  <2>13. CASE ToggleNosync(m)
    BY <2>13 DEF ToggleNosync, syncPostgres, ReachOf, Reach, InForce, Matches
  <2>14. CASE CycleAborted(m)
    <3>1. ASSUME NEW n \in Members \ {m}, InForce(n)', Reach(n)' PROVE ReachOf(n)'
      <4>1. /\ seen'[n] # "stale" => seen[n] # "stale"
            /\ sync' = sync \/ sync'.leader = m
        BY <2>14, LastStepDoes
      <4>2. ReachOf(n)
        BY <2>14, <3>1, <4>1, LastStepDoes, ReachBefore
      <4>. QED
        BY <2>14, <4>2, LastStepDoes, ReachOfOthers DEF CycleAborted, syncDcs, syncPostgres
    <3>2. ~InForce(m)'
      BY <2>14, LastStepDoes DEF InForce, Late
    <3>. QED
      BY <3>1, <3>2 DEF ReachInv
  <2>. QED
    BY <1>1, <2>1, <2>2, <2>3, <2>4, <2>5, <2>6, <2>7, <2>8, <2>9,
       <2>10, <2>11, <2>12, <2>13, <2>14 DEF SyncLoop
<1>2. ASSUME NEW m \in Members, Receive(m)
      PROVE  ReachInv'
  <2>1. ASSUME NEW n \in Members, InForce(n)', Reach(n)' PROVE ReachOf(n)'
    <3>1. InForce(n) /\ ReachOf(n)
      BY <1>2, <2>1 DEF Receive, InForce, Reach, Matches, syncDcs
    <3>2. \A a \in Members : wal[a] \subseteq wal'[a]
      BY <1>2 DEF Receive
    <3>. QED
      BY <1>2, <3>1, <3>2 DEF ReachOf, Receive, syncDcs
  <2>. QED
    BY <2>1 DEF ReachInv
<1>3. ASSUME NEW m \in Members, Connect(m)
      PROVE  ReachInv'
  <2>1. ASSUME NEW n \in Members, InForce(n)', Reach(n)' PROVE ReachOf(n)'
    <3>1. InForce(n) /\ ReachOf(n)
      BY <1>3, <2>1 DEF Connect, InForce, Reach, Matches, syncDcs
    <3>2. primary = n /\ m # n
      BY <1>3, <3>1 DEF Connect, ReachOf
    <3>3. wal'[n] = wal[n]
      BY <1>3, <3>2 DEF Connect
    <3>4. ASSUME NEW a \in Members, promised \subseteq wal[a] PROVE promised \subseteq wal'[a]
      BY <1>3, <3>1, <3>2, <3>4 DEF Connect, ReachOf
    <3>. QED
      BY <1>3, <3>1, <3>2, <3>3, <3>4 DEF ReachOf, Connect, syncDcs
  <2>. QED
    BY <2>1 DEF ReachInv
<1>4. ASSUME NEW m \in Members, Disconnect(m)
      PROVE  ReachInv'
  <2>1. ASSUME NEW n \in Members, InForce(n)', Reach(n)' PROVE ReachOf(n)'
    <3>1. InForce(n) /\ ReachOf(n)
      BY <1>4, <2>1 DEF Disconnect, InForce, Reach, Matches, syncDcs
    <3>. QED
      BY <1>4, <3>1 DEF ReachOf, Disconnect, syncDcs
  <2>. QED
    BY <2>1 DEF ReachInv
<1>5. ASSUME NEW m \in Members, Reload(m)
      PROVE  ReachInv'
  <2>1. ASSUME NEW n \in Members, InForce(n)', Reach(n)' PROVE ReachOf(n)'
    <3>1. InForce(n) /\ ReachOf(n)
      BY <1>5, <2>1 DEF Reload, InForce, Reach, Matches, syncDcs
    <3>. QED
      BY <1>5, <3>1 DEF ReachOf, Reload, syncDcs
  <2>. QED
    BY <2>1 DEF ReachInv
<1>6. ASSUME NEW c \in Commits, Write(c)
      PROVE  ReachInv'
  <2>1. ASSUME NEW n \in Members, InForce(n)', Reach(n)' PROVE ReachOf(n)'
    <3>1. InForce(n) /\ ReachOf(n)
      BY <1>6, <2>1 DEF Write, InForce, Reach, Matches, syncDcs
    <3>2. \A a \in Members : wal[a] \subseteq wal'[a]
      BY <1>6 DEF Write
    <3>. QED
      BY <1>6, <3>1, <3>2 DEF ReachOf, Write, syncDcs
  <2>. QED
    BY <2>1 DEF ReachInv
<1>7. ASSUME NEW c \in Commits, Acknowledge(c)
      PROVE  ReachInv'
  <2>1. ASSUME NEW n \in Members, InForce(n)', Reach(n)' PROVE ReachOf(n)'
    <3>1. InForce(n) /\ ReachOf(n)
      BY <1>7, <2>1 DEF Acknowledge, InForce, Reach, Matches, syncDcs
    <3>2. primary = n /\ c \in wal[n]
      BY <1>7, <3>1 DEF Acknowledge, ReachOf
    <3>3. step[n] # "leader" => \A a \in known[n].allowed : c \in wal[a]
      BY <1>7, <3>1, <3>2 DEF Acknowledge, Confirmed, KeyInv, KeyOf, InForce, Late
    <3>. QED
      BY <1>7, <3>1, <3>2, <3>3 DEF ReachOf, Acknowledge, syncDcs
  <2>. QED
    BY <2>1 DEF ReachInv
<1>8. CASE SwitchMode
  BY <1>8, OvertakenType DEF SwitchMode, InForce, Late, CycleInv
<1>9. CASE PrimaryStops
  <2>1. ASSUME NEW n \in Members, InForce(n)', Reach(n)' PROVE ReachOf(n)'
    <3>1. InForce(n) /\ ReachOf(n)
      BY <1>9, <2>1 DEF PrimaryStops, InForce, Reach, Matches, syncDcs
    <3>. QED
      BY <1>9, <3>1 DEF ReachOf, PrimaryStops, syncDcs
  <2>. QED
    BY <2>1 DEF ReachInv
<1>10. CASE LockExpires
  <2>1. ASSUME NEW n \in Members, InForce(n)', Reach(n)' PROVE ReachOf(n)'
    <3>1. InForce(n) /\ ReachOf(n)
      BY <1>10, <2>1 DEF LockExpires, InForce, Reach, Matches, syncDcs
    <3>. QED
      BY <1>10, <3>1 DEF ReachOf, LockExpires, syncPostgres
  <2>. QED
    BY <2>1 DEF ReachInv
<1>. QED
  BY <1>1, <1>2, <1>3, <1>4, <1>5, <1>6, <1>7, <1>8, <1>9, <1>10 DEF SyncNext

(* What is written to the sync key is true: a commit is a promise only as long as every
   cycle is in force. *)
LEMMA WrittenAreTrue ==
    ASSUME SyncTypeOK, CycleInv, ReachInv, PromiseInv, NEW m \in Members,
           step[m] \in {"shrink", "publish"}, Matches(m)
    PROVE  \A a \in {m} \cup known[m].allowed : promised \subseteq wal[a]
<1>1. CASE promised = {}
  BY <1>1
<1>2. CASE promised # {}
  <2>1. InForce(m)
    BY <1>2 DEF PromiseInv, ModeInForce, CycleInv, InForce, Late
  <2>2. ReachOf(m)
    BY <2>1 DEF ReachInv, Reach
  <2>. QED
    BY <2>2 DEF ReachOf
<1>. QED
  BY <1>1, <1>2

LEMMA MayPromoteKept ==
    ASSUME NEW m \in Members, NEW n \in Members \ {m}, OthersKeep(m)
    PROVE  MayPromote(n)' = MayPromote(n)
BY DEF MayPromote, OthersKeep

(* What does not touch the commits, nor the owner of the leader key, keeps the promise
   if what it writes to the sync key is true and it ends or goes on with a cycle. *)
LEMMA PromiseStep ==
    ASSUME SyncTypeOK, PromiseInv, NEW m \in Members, OthersKeep(m),
           mode' = mode, promised' = promised, wal' = wal, lock' = lock,
           known'[m].old => known[m].old,
           step'[m] = "race" /\ lock = NoMember /\ MayPromote(m)' => promised \subseteq wal[m],
           \/ sync' = sync
           \/ /\ sync'.leader = m
              /\ \A a \in {m} \cup sync'.members : promised \subseteq wal[a]
    PROVE  PromiseInv'
<1>1. promised' # {} => ModeInForce' /\ sync'.leader # NoMember
  BY NoMemberAssumption DEF PromiseInv, ModeInForce, OthersKeep
<1>2. sync'.leader # NoMember
        => \A a \in {sync'.leader} \cup sync'.members : promised' \subseteq wal'[a]
  BY DEF PromiseInv
<1>3. lock' # NoMember => promised' \subseteq wal'[lock']
  BY DEF PromiseInv
<1>4. ASSUME NEW n \in Members, step'[n] = "race", lock' = NoMember, MayPromote(n)'
      PROVE  promised' \subseteq wal'[n]
  BY <1>4, MayPromoteKept DEF PromiseInv, OthersKeep
<1>. QED
  BY <1>1, <1>2, <1>3, <1>4 DEF PromiseInv

(* Nothing that was promised is lost. *)
LEMMA PromiseKept ==
    ASSUME SyncTypeOK, SyncInv, Sheltered, SyncNext
    PROVE  PromiseInv'
<1>. USE NoMemberAssumption DEF SyncTypeOK, KnownStates, SyncStates, Sheltered, GoesTo, Ends, Nothing, SyncInv
<1>1. ASSUME NEW m \in Members, SyncLoop(m)
      PROVE  PromiseInv'
  <2>1. CASE ReadCluster(m)
    <3>1. step'[m] = "race" /\ MayPromote(m)' => promised \subseteq wal[m]
      BY <2>1, ReadClusterDoes DEF Reads, MayPromote, PromiseInv, ModeInForce
    <3>. QED
      BY <2>1, <3>1, ReadClusterDoes, PromiseStep DEF Reads
  <2>2. CASE AcquireLock(m)
    <3>1. CASE Ends(m) /\ UNCHANGED <<lock, seen>>
      BY <2>2, <3>1, AcquireLockDoes, PromiseStep
    <3>2. CASE MayPromote(m) /\ lock = NoMember /\ lock' = m /\ Reads(m, "acquired")
      <4>1. promised \subseteq wal[m]
        BY <2>2, <3>2, AcquireLockDoes DEF PromiseInv
      <4>2. promised' = promised /\ wal' = wal /\ sync' = sync /\ mode' = mode
        BY <2>2, AcquireLockDoes
      <4>3. ModeInForce => ModeInForce'
        BY <3>2, <4>2 DEF Reads, OthersKeep, ModeInForce
      <4>. QED
        BY <3>2, <4>1, <4>2, <4>3 DEF PromiseInv
    <3>. QED
      BY <2>2, <3>1, <3>2, AcquireLockDoes
  <2>3. CASE ClaimSync(m)
    <3>1. step'[m] # "race"
      BY <2>3, ClaimSyncDoes
    <3>2. promised \subseteq wal[m]
      BY <2>3, ClaimSyncDoes DEF LockInv, PromiseInv
    <3>3. sync' = sync \/ (sync'.leader = m /\ sync'.members = {})
      <4>1. SyncWritten(m, {}) \/ sync' = sync
        BY <2>3, ClaimSyncDoes DEF SyncRefused
      <4>. QED
        BY <4>1 DEF SyncWritten
    <3>. QED
      BY <2>3, <3>1, <3>2, <3>3, ClaimSyncDoes, PromiseStep
  <2>4. CASE PromoteClaimed(m)
    BY <2>4, LastStepDoes, PromiseStep
  <2>5. CASE PickStandbys(m)
    <3>1. step'[m] # "race"
      BY <2>5, PickStandbysDoes DEF Picked
    <3>. QED
      BY <2>5, <3>1, PickStandbysDoes, PromiseStep DEF Picked
  <2>6. CASE ShrinkSync(m)
    <3>1. step'[m] # "race"
      BY <2>6, ShrinkSyncDoes
    <3>4. known'[m].old => known[m].old
      BY <2>6, ShrinkSyncDoes
    <3>2. \/ sync' = sync
          \/ Matches(m) /\ sync'.leader = m /\ sync'.members \subseteq known[m].allowed
      <4>1. SyncWritten(m, Common(m)) \/ sync' = sync
        BY <2>6, ShrinkSyncDoes DEF SyncRefused
      <4>2. Common(m) \subseteq known[m].allowed
        BY DEF Common
      <4>. QED
        BY <4>1, <4>2, SyncWrittenDoes
    <3>3. Matches(m) => \A a \in {m} \cup known[m].allowed : promised \subseteq wal[a]
      BY <2>6, ShrinkSyncDoes, WrittenAreTrue
    <3>5. sync' = sync \/ (sync'.leader = m /\ \A a \in {m} \cup sync'.members : promised \subseteq wal[a])
      BY <3>2, <3>3
    <3>6. OthersKeep(m)
      BY <2>6, ShrinkSyncDoes
    <3>. QED
      BY <2>6, <3>1, <3>4, <3>5, <3>6, ShrinkSyncDoes, PromiseStep
  <2>7. CASE SetNames(m)
    <3>1. step'[m] # "race"
      BY <2>7, SetNamesDoes
    <3>. QED
      BY <2>7, <3>1, SetNamesDoes, PromiseStep, SMTT(30)
  <2>8. CASE PickAgain(m)
    <3>1. step'[m] # "race"
      BY <2>8, PickAgainDoes DEF Picked
    <3>. QED
      BY <2>8, <3>1, PickAgainDoes, PromiseStep DEF Picked
  <2>9. CASE ConfirmLeader(m)
    <3>1. step'[m] # "race"
      BY <2>9, ConfirmLeaderDoes
    <3>. QED
      BY <2>9, <3>1, ConfirmLeaderDoes, PromiseStep
  <2>10. CASE PublishSync(m)
    <3>1. step'[m] # "race"
      BY <2>10, PublishSyncDoes
    <3>2. \/ sync' = sync
          \/ Matches(m) /\ sync'.leader = m /\ sync'.members = known[m].allowed
      BY <2>10, PublishSyncDoes, SyncWrittenDoes DEF SyncRefused
    <3>3. Matches(m) => \A a \in {m} \cup known[m].allowed : promised \subseteq wal[a]
      BY <2>10, PublishSyncDoes, WrittenAreTrue
    <3>4. /\ OthersKeep(m) /\ ~known'[m].old
          /\ UNCHANGED <<lock, mode, wal, promised>>
      BY <2>10, PublishSyncDoes
    <3>. QED
      BY <3>1, <3>2, <3>3, <3>4, PromiseStep
  <2>11. CASE DeleteSync(m)
    <3>1. promised = {}
      BY <2>11, DeleteSyncDoes DEF PromiseInv, ModeInForce, CycleInv
    <3>2. promised' = {} /\ lock' = lock
      BY <2>11, <3>1, DeleteSyncDoes
    <3>. QED
      BY <3>2 DEF PromiseInv
  <2>12. CASE ClearNames(m)
    <3>1. /\ OthersKeep(m) /\ step'[m] # "race" /\ ~known'[m].old
          /\ UNCHANGED <<lock, sync, mode, wal, promised>>
      BY <2>12, LastStepDoes
    <3>. QED
      BY <3>1, PromiseStep
  <2>13. CASE ToggleNosync(m)
    BY <2>13 DEF ToggleNosync, syncPostgres, PromiseInv, ModeInForce, MayPromote
  <2>14. CASE CycleAborted(m)
    <3>1. /\ OthersKeep(m) /\ step'[m] # "race" /\ ~known'[m].old
          /\ UNCHANGED <<lock, sync, mode, wal, promised>>
      BY <2>14, LastStepDoes
    <3>. QED
      BY <3>1, PromiseStep
  <2>. QED
    BY <1>1, <2>1, <2>2, <2>3, <2>4, <2>5, <2>6, <2>7, <2>8, <2>9,
       <2>10, <2>11, <2>12, <2>13, <2>14 DEF SyncLoop
<1>2. ASSUME NEW m \in Members, Receive(m)
      PROVE  PromiseInv'
  <2>1. \A a \in Members : promised \subseteq wal[a] => promised \subseteq wal'[a]
    BY <1>2 DEF Receive
  <2>. QED
    BY <1>2, <2>1 DEF Receive, PromiseInv, ModeInForce, MayPromote, syncDcs
<1>3. ASSUME NEW m \in Members, Connect(m)
      PROVE  PromiseInv'
  <2>0. promised \subseteq wal[primary]
    BY <1>3 DEF Connect, LockInv, PromiseInv
  <2>1. \A a \in Members : promised \subseteq wal[a] => promised \subseteq wal'[a]
    BY <1>3, <2>0 DEF Connect
  <2>. QED
    BY <1>3, <2>1 DEF Connect, PromiseInv, ModeInForce, MayPromote, syncDcs
<1>4. ASSUME NEW m \in Members, Disconnect(m)
      PROVE  PromiseInv'
  BY <1>4 DEF Disconnect, PromiseInv, ModeInForce, MayPromote, syncDcs
<1>5. ASSUME NEW m \in Members, Reload(m)
      PROVE  PromiseInv'
  BY <1>5 DEF Reload, PromiseInv, ModeInForce, MayPromote, syncDcs
<1>6. ASSUME NEW c \in Commits, Write(c)
      PROVE  PromiseInv'
  <2>1. \A a \in Members : promised \subseteq wal[a] => promised \subseteq wal'[a]
    BY <1>6 DEF Write
  <2>. QED
    BY <1>6, <2>1 DEF Write, PromiseInv, ModeInForce, MayPromote, syncDcs
<1>7. ASSUME NEW c \in Commits, Acknowledge(c)
      PROVE  PromiseInv'
  <2>1. primary \in Members /\ lock = primary /\ sync.leader = primary /\ c \in wal[primary]
    BY <1>7 DEF Acknowledge, LockInv
  <2>2. \A s \in sync.members : c \in wal[s]
    BY <1>7, <2>1 DEF Acknowledge, Confirmed, KeyInv, KeyOf
  <2>3. ModeInForce'
    BY <1>7 DEF Acknowledge, ModeInForce, syncDcs
  <2>. QED
    BY <1>7, <2>1, <2>2, <2>3 DEF Acknowledge, PromiseInv, syncDcs
<1>8. CASE SwitchMode
  <2>1. promised' = {}
    BY <1>8 DEF SwitchMode, PromiseInv, ModeInForce
  <2>. QED
    BY <2>1 DEF PromiseInv
<1>9. CASE PrimaryStops
  BY <1>9 DEF PrimaryStops, PromiseInv, ModeInForce, MayPromote, syncDcs
<1>10. CASE LockExpires
  BY <1>10 DEF LockExpires, PromiseInv, ModeInForce, MayPromote, Urgent, syncPostgres
<1>. QED
  BY <1>1, <1>2, <1>3, <1>4, <1>5, <1>6, <1>7, <1>8, <1>9, <1>10 DEF SyncNext

(* Only a primary has standbys connected. *)
LEMMA StreamKept ==
    ASSUME SyncTypeOK, StreamInv, SyncNext
    PROVE  StreamInv'
<1>. USE NoMemberAssumption DEF StreamInv, syncDcs, syncPostgres
<1>1. ASSUME NEW m \in Members, SyncLoop(m)
      PROVE  StreamInv'
  <2>1. CASE PromoteClaimed(m)
    BY <2>1 DEF PromoteClaimed
  <2>2. CASE ~PromoteClaimed(m)
    <3>1. UNCHANGED <<primary, streaming>>
      BY <1>1, <2>2 DEF SyncLoop, ReadCluster, AcquireLock, ClaimSync, PickStandbys, ShrinkSync,
                        SetNames, PickAgain, ConfirmLeader, PublishSync, DeleteSync, ClearNames,
                        ToggleNosync, CycleAborted
    <3>. QED
      BY <3>1
  <2>. QED
    BY <2>1, <2>2
<1>2. ASSUME NEW m \in Members, Receive(m) \/ Connect(m) \/ Reload(m)
      PROVE  StreamInv'
  BY <1>2 DEF Receive, Connect, Reload
<1>3. ASSUME NEW m \in Members, Disconnect(m)
      PROVE  StreamInv'
  BY <1>3 DEF Disconnect
<1>4. ASSUME NEW c \in Commits, Write(c) \/ Acknowledge(c)
      PROVE  StreamInv'
  BY <1>4 DEF Write, Acknowledge
<1>5. CASE SwitchMode \/ PrimaryStops \/ LockExpires
  BY <1>5 DEF SwitchMode, PrimaryStops, LockExpires
<1>. QED
  BY <1>1, <1>2, <1>3, <1>4, <1>5 DEF SyncNext

(* What every step keeps, a step that changes nothing included. *)
LEMMA SyncKept ==
    ASSUME SyncTypeOK, StreamInv, SyncInv, Sheltered, [SyncNext]_syncVars
    PROVE  SyncTypeOK' /\ StreamInv' /\ SyncInv'
<1>1. CASE SyncNext
  <2>1. SyncTypeOK'
    BY <1>1, LoopTypes, OtherTypes DEF SyncNext
  <2>. QED
    BY <1>1, <2>1, StreamKept, LockKept, CycleKept, KeyKept, AgeKept, ReachKept, PromiseKept
    DEF SyncInv
<1>2. CASE UNCHANGED syncVars
  BY <1>2 DEF syncVars, SyncTypeOK, StreamInv, SyncInv, LockInv, CycleInv, KeyInv, KeyOf,
              AgeInv, AgeOf, ReachInv, ReachOf, Reach, InForce, Matches, PromiseInv,
              ModeInForce, MayPromote
<1>. QED
  BY <1>1, <1>2

(* The types, and the order in which the sync key, synchronous_standby_names and the leader
   key are written, for any number of members, standbys and commits: the inductive invariant
   of synchronous replication, as long as none of the weaknesses in Exposed shows. *)
THEOREM SyncInductive ==
    ASSUME Sheltered
    PROVE  SyncSpec => [](SyncTypeOK /\ StreamInv /\ SyncInv)
<1>1. SyncInit => SyncTypeOK /\ StreamInv /\ SyncInv
  <2>. SUFFICES ASSUME SyncInit
                PROVE  SyncTypeOK /\ StreamInv /\ SyncInv
    OBVIOUS
  <2>. USE NoMemberAssumption, SyncAssumption DEF SyncInit, NoSync, Nothing
  <2>1. SyncTypeOK
    BY DEF SyncTypeOK, SyncStates, Steps
  <2>2. StreamInv /\ LockInv /\ CycleInv
    BY DEF StreamInv, LockInv, CycleInv
  <2>3. KeyInv
    BY DEF KeyInv, KeyOf
  <2>4. AgeInv /\ ReachInv
    BY DEF AgeInv, ReachInv, InForce, Late
  <2>5. PromiseInv
    BY DEF PromiseInv
  <2>. QED
    BY <2>1, <2>2, <2>3, <2>4, <2>5 DEF SyncInv
<1>2. SyncTypeOK /\ StreamInv /\ SyncInv /\ [SyncNext]_syncVars
        => (SyncTypeOK /\ StreamInv /\ SyncInv)'
  BY SyncKept
<1>. QED
  BY <1>1, <1>2, PTL DEF SyncSpec

(* Whoever the sync key allows to promote has every commit that was acknowledged in
   synchronous mode, whatever process_sync_replication is interrupted by between its writes
   to the sync key and to synchronous_standby_names. *)
THEOREM AllowedMembersAreSafe ==
    ASSUME Sheltered
    PROVE  SyncSpec => []AllowedHavePromised
<1>1. SyncInv => AllowedHavePromised
  BY DEF SyncInv, PromiseInv, AllowedHavePromised
<1>. QED
  BY <1>1, SyncInductive, PTL

(* A failover in synchronous mode loses nothing: the Postgres that accepts writes has every
   commit that was acknowledged under the sync key, by whichever primary. *)
THEOREM FailoverLosesNothing ==
    ASSUME Sheltered
    PROVE  SyncSpec => []PromisedSurvives
<1>1. SyncInv => PromisedSurvives
  BY DEF SyncInv, LockInv, PromiseInv, PromisedSurvives
<1>. QED
  BY <1>1, SyncInductive, PTL

-----------------------------------------------------------------------------
(* The leader key. *)

(* The leader key and the Postgres that accepts writes, as LeaderLease sees them. *)
writers == {primary} \ {NoMember}

Lease == INSTANCE LeaderLease WITH Nodes <- Members, NoNode <- NoMember, owner <- lock
ImplementsLeaderLease == Lease!Spec

(* Who accepts writes owns the key. *)
WriterOwns == writers \subseteq {lock} \ {NoMember}

(* What synchronous mode does to the key and to Postgres. *)
LEMMA SyncLeaseSteps ==
    ASSUME SyncNext
    PROVE  \/ UNCHANGED <<lock, primary>>
           \/ lock = NoMember /\ lock' \in Members /\ primary' = primary
           \/ primary = NoMember /\ lock' = lock /\ lock \in Members /\ primary' = lock
           \/ primary # NoMember /\ primary' = NoMember /\ lock' = lock
           \/ primary # lock /\ lock' = NoMember /\ primary' = primary
<1>. USE DEF syncDcs, syncPostgres
<1>1. ASSUME NEW m \in Members, AcquireLock(m)
      PROVE  \/ UNCHANGED <<lock, primary>>
             \/ lock = NoMember /\ lock' \in Members /\ primary' = primary
  BY <1>1 DEF AcquireLock
<1>2. ASSUME NEW m \in Members, PromoteClaimed(m)
      PROVE  \/ UNCHANGED <<lock, primary>>
             \/ primary = NoMember /\ lock' = lock /\ lock \in Members /\ primary' = lock
  BY <1>2 DEF PromoteClaimed
<1>3. ASSUME NEW m \in Members, SyncLoop(m), ~AcquireLock(m), ~PromoteClaimed(m)
      PROVE  UNCHANGED <<lock, primary>>
  BY <1>3
  DEF SyncLoop, ReadCluster, ClaimSync, PickStandbys, ShrinkSync, SetNames, PickAgain,
      ConfirmLeader, PublishSync, DeleteSync, ClearNames, ToggleNosync, CycleAborted
<1>4. ASSUME NEW m \in Members, Receive(m) \/ Connect(m) \/ Disconnect(m) \/ Reload(m)
      PROVE  UNCHANGED <<lock, primary>>
  BY <1>4 DEF Receive, Connect, Disconnect, Reload
<1>5. ASSUME NEW c \in Commits, Write(c) \/ Acknowledge(c)
      PROVE  UNCHANGED <<lock, primary>>
  BY <1>5 DEF Write, Acknowledge
<1>6. CASE SwitchMode
  BY <1>6 DEF SwitchMode
<1>7. CASE PrimaryStops
  BY <1>7 DEF PrimaryStops
<1>8. CASE LockExpires
  BY <1>8 DEF LockExpires
<1>. QED
  BY <1>1, <1>2, <1>3, <1>4, <1>5, <1>6, <1>7, <1>8 DEF SyncNext

(* The key and the Postgres that accepts writes behave as LeaderLease says, which is what
   module Ha implements with its watchdog and its time to live: what this module takes for
   granted of the leader key is no more than that. *)
THEOREM SyncKeepsTheLease == SyncSpec => ImplementsLeaderLease
<1>. USE NoMemberAssumption DEF WriterOwns, writers
<1>1. SyncInit => WriterOwns /\ Lease!Init
  BY DEF SyncInit, Lease!Init
<1>2. WriterOwns /\ [SyncNext]_syncVars => WriterOwns' /\ [Lease!Next]_(Lease!vars)
  <2>. SUFFICES ASSUME WriterOwns, [SyncNext]_syncVars
                PROVE  WriterOwns' /\ (Lease!Next \/ UNCHANGED <<lock, writers>>)
    BY DEF Lease!vars
  <2>1. CASE UNCHANGED <<lock, primary>>
    BY <2>1
  <2>2. CASE lock = NoMember /\ lock' \in Members /\ primary' = primary
    BY <2>2 DEF Lease!Next, Lease!Acquire
  <2>3. CASE primary = NoMember /\ lock' = lock /\ lock \in Members /\ primary' = lock
    BY <2>3 DEF Lease!Next, Lease!Promote
  <2>4. CASE primary # NoMember /\ primary' = NoMember /\ lock' = lock
    BY <2>4 DEF Lease!Next, Lease!StepDown
  <2>5. CASE primary # lock /\ lock' = NoMember /\ primary' = primary
    BY <2>5 DEF Lease!Next, Lease!Release
  <2>. QED
    BY <2>1, <2>2, <2>3, <2>4, <2>5, SyncLeaseSteps DEF syncVars
<1>. QED
  BY <1>1, <1>2, PTL DEF SyncSpec, ImplementsLeaderLease, Lease!Spec
=============================================================================
