------------------------------- MODULE Slots --------------------------------
(* The replication slots of one node (postgresql/slots.py) and which of them *)
(* it should have (get_replication_slots in dcs/__init__.py).  The HA loop   *)
(* compares what is wanted with what it believes to be there, a copy that it *)
(* loads only when something has scheduled it: each query of the comparison  *)
(* may fail, while Postgres is restarted or created anew by another thread.  *)
(*                                                                           *)
(* A slot is its type.  Bad names and values in the configuration, which are *)
(* only logged, and plugin and database, compared like the type, are left    *)
(* out.                                                                      *)
EXTENDS Naturals

CONSTANTS
  Me, Peers, Nobody, \* the member that runs here, the others, and none of them
  Slots,             \* the names of slots
  SlotOf,            \* slot_name_from_member_name: members may share a slot
  Clusters,          \* what the cluster in the DCS may look like
  MaxSlotChanges,    \* bound: changes of the cluster, the role, the clients
  MaxSlotMishaps     \* bound: failing calls, crashes, slots lost or changed

Absent == "absent"
Types == {"physical", "logical"}
SlotMap == [Slots -> Types \union {Absent}]

Everybody == Peers \union {Me}

(* from: the tag replicatefrom.  ignored: the types that ignore_slots matches. *)
ClusterViews ==
  [members : SUBSET Everybody, leader : Everybody \union {Nobody},
   from : [Everybody -> Everybody \union {Nobody}], permanent : SlotMap,
   useSlots : BOOLEAN, ignored : SUBSET Types]

ASSUME SlotsAssumption ==
  /\ Nobody \notin Everybody
  /\ SlotOf \in [Everybody -> Slots]
  /\ Clusters \subseteq ClusterViews
  /\ MaxSlotChanges \in Nat /\ MaxSlotMishaps \in Nat

VARIABLES
  clusterNow,        \* the cluster in the DCS
  slotRole,          \* "master" or "replica"
  slots,             \* pg_replication_slots
  inUse,             \* the slots that are in use
  accepts,           \* does Postgres answer queries
  restarting,        \* is a restart or reinitialize running
  paused,            \* is the cluster paused, and has the HA loop seen it
  assumed,           \* _replication_slots
  scheduled,         \* _schedule_load_slots
  syncPc,            \* the HA loop in sync_replication_slots
  seen,              \* the cluster of this cycle
  desired,           \* the slots wanted, in this cycle
  todo,              \* the names that the loop at hand has still to visit
  slotChanges, slotMishaps,
  spared             \* history: kept because ignored, since the last load

slotsVars == <<clusterNow, slotRole, slots, inUse, accepts, restarting, paused, assumed,
               scheduled, syncPc, seen, desired, todo, slotChanges, slotMishaps, spared>>

sync == <<syncPc, seen, desired, todo>>
belief == <<assumed, scheduled, spared>>
outside == <<clusterNow, slotRole, inUse, paused, slotChanges>>
pgState == <<accepts, restarting>>

SlotsTypeOK ==
  /\ clusterNow \in Clusters /\ seen \in Clusters
  /\ slotRole \in {"master", "replica"}
  /\ slots \in SlotMap /\ assumed \in SlotMap /\ desired \in SlotMap
  /\ inUse \subseteq Slots /\ todo \subseteq Slots /\ spared \subseteq Slots
  /\ accepts \in BOOLEAN /\ restarting \in BOOLEAN
  /\ paused \in BOOLEAN /\ scheduled \in BOOLEAN
  /\ syncPc \in {"idle", "load", "drop", "create", "logical"}
  /\ slotChanges \in 0..MaxSlotChanges /\ slotMishaps \in 0..MaxSlotMishaps

Nothing == [s \in Slots |-> Absent]
There(map) == {s \in Slots : map[s] # Absent}

SlotsInit ==
  /\ clusterNow \in Clusters /\ seen = clusterNow
  /\ slotRole \in {"master", "replica"}
  /\ slots = Nothing /\ inUse = {}
  /\ accepts \in BOOLEAN /\ restarting = FALSE /\ paused = FALSE
  /\ assumed = Nothing /\ scheduled = TRUE /\ spared = {}
  /\ syncPc = "idle" /\ desired = Nothing /\ todo = {}
  /\ slotChanges = 0 /\ slotMishaps = 0

SlotChange == slotChanges < MaxSlotChanges /\ slotChanges' = slotChanges + 1
SlotMishap == slotMishaps < MaxSlotMishaps /\ slotMishaps' = slotMishaps + 1

-----------------------------------------------------------------------------
(* Which slots a node should have *)

(* The members that stream from this one: as a leader all that have no other
   member to stream from, as a replica those that are tagged with its name. *)
SlotMembers(c, role) ==
  {m \in c.members \ {Me} :
     /\ c.useSlots
     /\ IF role = "master" THEN c.from[m] \in {Nobody, Me} \union (Everybody \ c.members)
                           ELSE c.from[m] = Me /\ m # c.leader}

(* A replica that has to ask whether its follower leads needs a leader. *)
NoAnswer(c, role) ==
  /\ role = "replica" /\ c.useSlots /\ c.leader = Nobody
  /\ \E m \in c.members : c.from[m] = Me

(* A permanent slot gives way to a member's if it is logical, and the slot
   that this member would use elsewhere is not made physical here. *)
WantedSlots(c, role) ==
  LET ofMembers == {SlotOf[m] : m \in SlotMembers(c, role)}
  IN  [s \in Slots |->
         IF s \in ofMembers THEN "physical"
         ELSE IF role = "master" /\ ~(c.permanent[s] = "physical" /\ s = SlotOf[Me])
              THEN c.permanent[s] ELSE Absent]

-----------------------------------------------------------------------------
(* The cluster, the clients and Postgres *)

ClusterChanges ==
  /\ SlotChange
  /\ clusterNow' \in Clusters \ {clusterNow}
  /\ UNCHANGED <<slotRole, inUse, paused, slots, pgState, belief, sync, slotMishaps>>

(* A promotion needs no restart. *)
PromotedInPlace ==
  /\ slotRole = "replica" /\ accepts /\ ~restarting
  /\ SlotChange
  /\ slotRole' = "master"
  /\ UNCHANGED <<clusterNow, inUse, paused, slots, pgState, belief, sync, slotMishaps>>

(* Who streams from a slot comes and goes. *)
ClientConnects ==
  /\ accepts
  /\ SlotChange
  /\ \E s \in There(slots) \ inUse : inUse' = inUse \union {s}
  /\ UNCHANGED <<clusterNow, slotRole, paused, slots, pgState, belief, sync, slotMishaps>>

ClientLeaves ==
  /\ \E s \in inUse : inUse' = inUse \ {s}
  /\ UNCHANGED <<clusterNow, slotRole, paused, slotChanges, slots, pgState, belief, sync,
                 slotMishaps>>

PauseBegins ==
  /\ ~paused
  /\ SlotChange
  /\ paused' = TRUE
  /\ UNCHANGED <<clusterNow, slotRole, inUse, slots, pgState, belief, sync, slotMishaps>>

(* "It might happen that slots were removed" in a pause, or made by others. *)
ChangedInPause ==
  /\ paused /\ accepts
  /\ SlotMishap
  /\ \E s \in Slots \ inUse, t \in Types \union {Absent} : slots' = [slots EXCEPT ![s] = t]
  /\ UNCHANGED <<outside, pgState, belief, sync>>

(* schedule_sanity_checks_after_pause, at the head of a cycle. *)
PauseEnds ==
  /\ paused /\ syncPc = "idle"
  /\ paused' = FALSE
  /\ scheduled' = TRUE
  /\ UNCHANGED <<clusterNow, slotRole, inUse, slotChanges, slots, pgState, assumed, spared,
                 sync, slotMishaps>>

PostgresDies ==
  /\ accepts /\ ~restarting
  /\ SlotMishap
  /\ accepts' = FALSE
  /\ inUse' = {}
  /\ UNCHANGED <<clusterNow, slotRole, paused, slotChanges, slots, restarting,
                 belief, sync>>

(* The HA loop starts a dead Postgres; a request restarts one that runs, maybe
   in the middle of the comparison. *)
RestartBegins ==
  /\ ~restarting
  /\ \/ ~accepts /\ syncPc = "idle" /\ UNCHANGED slotMishaps
     \/ accepts /\ SlotMishap
  /\ restarting' = TRUE
  /\ accepts' = FALSE
  /\ inUse' = {}
  /\ UNCHANGED <<clusterNow, slotRole, paused, slotChanges, slots, belief, sync>>

(* The data directory may be a new one, in which there are no slots. *)
PostgresStarts ==
  /\ restarting /\ ~accepts
  /\ accepts' = TRUE
  /\ \/ UNCHANGED <<slots, slotMishaps>>
     \/ SlotMishap /\ slots' = Nothing
  /\ UNCHANGED <<outside, restarting, belief, sync>>

(* is_running finds another postmaster, check_startup_state_changed finds it up;
   the leader may be a replica now. *)
RestartNoticed ==
  /\ restarting /\ accepts
  /\ restarting' = FALSE
  /\ scheduled' = TRUE
  /\ \/ UNCHANGED <<slotRole, slotChanges>>
     \/ slotRole = "master" /\ slotRole' = "replica" /\ SlotChange
  /\ UNCHANGED <<clusterNow, inUse, paused, slots, accepts, assumed, spared, sync,
                 slotMishaps>>

StartFails ==
  /\ restarting /\ ~accepts
  /\ SlotMishap
  /\ restarting' = FALSE
  /\ scheduled' = FALSE
  /\ UNCHANGED <<outside, slots, accepts, assumed, spared, sync>>

-----------------------------------------------------------------------------
(* sync_replication_slots *)

BeginSync ==
  /\ syncPc = "idle" /\ accepts /\ ~restarting
  /\ syncPc' = "load"
  /\ seen' = clusterNow
  /\ UNCHANGED <<outside, slots, pgState, belief, desired, todo, slotMishaps>>

(* The slots are loaded if that is scheduled.  Of those that nobody wants the
   ones that match ignore_slots are let be. *)
LoadSlots ==
  /\ syncPc = "load"
  /\ scheduled => accepts
  /\ ~NoAnswer(seen, slotRole)
  /\ assumed' = IF scheduled THEN slots ELSE assumed
  /\ scheduled' = FALSE
  /\ desired' = WantedSlots(seen, slotRole)
  /\ LET old == There(assumed') \ There(desired')
         ignored == {s \in old : assumed'[s] \in seen.ignored}
     IN  /\ todo' = old \ ignored
         /\ spared' = ignored \union (IF scheduled THEN {} ELSE spared)
  /\ syncPc' = "drop"
  /\ UNCHANGED <<outside, slots, pgState, seen, slotMishaps>>

Droppable(s) == s \in There(slots) \ inUse

(* Mutant: what could not be dropped is forgotten. *)
DropOldOnce(s) ==
  /\ syncPc = "drop" /\ s \in todo /\ accepts
  /\ todo' = todo \ {s}
  /\ slots' = IF Droppable(s) THEN [slots EXCEPT ![s] = Absent] ELSE slots
  /\ UNCHANGED <<outside, pgState, belief, syncPc, seen, desired, slotMishaps>>

(* A slot is dropped by its name unless it is in use: else nothing is dropped,
   and the slots are loaded again in the next cycle. *)
DropOld(s) ==
  /\ syncPc = "drop" /\ s \in todo /\ accepts
  /\ todo' = todo \ {s}
  /\ IF Droppable(s) THEN slots' = [slots EXCEPT ![s] = Absent] /\ UNCHANGED scheduled
                     ELSE scheduled' = TRUE /\ UNCHANGED slots
  /\ UNCHANGED <<outside, pgState, assumed, spared, syncPc, seen, desired, slotMishaps>>

DropsDone ==
  /\ syncPc = "drop" /\ todo = {}
  /\ todo' = {s \in There(desired) : assumed[s] # desired[s]}
  /\ syncPc' = "create"
  /\ UNCHANGED <<outside, slots, pgState, belief, seen, desired, slotMishaps>>

(* A slot that is of another type goes first. *)
Differs(s) == syncPc = "create" /\ s \in todo /\ assumed[s] # Absent

DropDifferent(s) ==
  /\ Differs(s) /\ accepts
  /\ IF Droppable(s)
       THEN /\ slots' = [slots EXCEPT ![s] = Absent]
            /\ assumed' = [assumed EXCEPT ![s] = Absent]
            /\ UNCHANGED <<todo, scheduled>>
       ELSE /\ scheduled' = TRUE
            /\ todo' = todo \ {s}
            /\ UNCHANGED <<slots, assumed>>
  /\ UNCHANGED <<outside, pgState, spared, syncPc, seen, desired, slotMishaps>>

(* A slot is created unless there is one of this name and type; one of another
   type, or a failing call, is an error, and the loop goes on. *)
Create(s) ==
  /\ syncPc \in {"create", "logical"} /\ s \in todo
  /\ assumed[s] = Absent
  /\ desired[s] = IF syncPc = "create" THEN "physical" ELSE "logical"
  /\ todo' = todo \ {s}
  /\ \/ /\ accepts /\ slots[s] \in {Absent, desired[s]}
        /\ slots' = [slots EXCEPT ![s] = desired[s]]
        /\ UNCHANGED <<scheduled, slotMishaps>>
     \/ /\ \/ (~accepts \/ slots[s] \notin {Absent, desired[s]}) /\ UNCHANGED slotMishaps
           \/ SlotMishap
        /\ scheduled' = TRUE
        /\ UNCHANGED slots
  /\ UNCHANGED <<outside, pgState, assumed, spared, syncPc, seen, desired>>

(* The logical slots are left to the end, when the loop connects to their
   databases. *)
PhysicalDone ==
  /\ syncPc = "create"
  /\ \A s \in todo : assumed[s] = Absent /\ desired[s] = "logical"
  /\ syncPc' = "logical"
  /\ UNCHANGED <<outside, slots, pgState, belief, seen, desired, todo, slotMishaps>>

EndSync ==
  /\ syncPc = "logical" /\ todo = {}
  /\ assumed' = desired
  /\ syncPc' = "idle"
  /\ UNCHANGED <<outside, slots, pgState, scheduled, spared, seen, desired, todo,
                 slotMishaps>>

(* A query that is not guarded by a handler of its own ends the comparison. *)
Queries ==
  CASE syncPc = "load" -> scheduled
    [] syncPc = "create" -> \E s \in Slots : Differs(s)
    [] OTHER -> todo # {}

SyncFails ==
  /\ syncPc # "idle"
  /\ \/ Queries /\ (SlotMishap \/ (~accepts /\ UNCHANGED slotMishaps))
     \/ syncPc = "load" /\ NoAnswer(seen, slotRole) /\ UNCHANGED slotMishaps
  /\ scheduled' = TRUE
  /\ syncPc' = "idle"
  /\ todo' = {}
  /\ UNCHANGED <<outside, slots, pgState, assumed, spared, seen, desired>>

SyncStep ==
  \/ BeginSync \/ LoadSlots \/ DropsDone \/ PhysicalDone \/ EndSync \/ SyncFails
  \/ \E s \in Slots : DropOld(s) \/ DropDifferent(s) \/ Create(s)

RestartStep == PostgresStarts \/ RestartNoticed

SlotsNext ==
  \/ ClusterChanges \/ PromotedInPlace \/ ClientConnects \/ ClientLeaves
  \/ PauseBegins \/ ChangedInPause \/ PauseEnds \/ PostgresDies
  \/ RestartBegins \/ StartFails
  \/ RestartStep \/ SyncStep

(* The HA loop goes on, and starts Postgres again if it is dead. *)
SlotsFairness ==
  /\ WF_slotsVars(SyncStep)
  /\ WF_slotsVars(RestartStep)
  /\ WF_slotsVars(RestartBegins /\ ~accepts)

SlotsSpec == SlotsInit /\ [][SlotsNext]_slotsVars /\ SlotsFairness

-----------------------------------------------------------------------------
InStep(s) ==
  \/ slots[s] = WantedSlots(clusterNow, slotRole)[s]
  \/ s \in inUse
  \/ WantedSlots(clusterNow, slotRole)[s] = Absent /\ slots[s] \in clusterNow.ignored

Steady == ~paused /\ ~NoAnswer(clusterNow, slotRole)

(* Once the pause is over and what the cluster wants can be told, the node has
   the slots that are wanted and no others but those that are in use or to be
   ignored, whatever failed, was restarted, created anew or changed in a pause
   (sync_replication_slots, schedule).  Excepted is a slot that was ignored at
   first: the copy forgets it with the comparison that lets it be, so that it is
   not dropped when the configuration ignores it no longer. *)
SlotsConverge == <>[]Steady => <>[](\A s \in Slots : InStep(s) \/ s \in spared)

(* "drop old replication slots which are not presented in desired slots": also
   those that were ignored before. *)
OldSlotsGo == <>[]Steady => <>[](\A s \in Slots : InStep(s))
=============================================================================
