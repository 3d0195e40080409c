------------------------------ MODULE MCSlots ------------------------------
(* Slots for TLC: this member and two others, which share a slot; permanent and
   ignored slots, a replica that others stream from, a cluster without a leader. *)
EXTENDS Slots, TLC

CONSTANTS p1, p2, p3, s1, s2

TwoPeers == {p2, p3}
TwoSlots == {s1, s2}
SharedSlot == p1 :> s2 @@ p2 :> s1 @@ p3 :> s1

View(members, leader, from, permanent, ignored) ==
    [members |-> members, leader |-> leader, from |-> from, permanent |-> permanent,
     useSlots |-> TRUE, ignored |-> ignored]

NoTags == [m \in Everybody |-> Nobody]

SlotClusters ==
    {View(Everybody, p1, NoTags, Nothing, {}),
     View({p1, p3}, p3, NoTags, s1 :> "logical" @@ s2 :> "physical", {}),
     View({p1}, p1, NoTags, s1 :> "logical" @@ s2 :> "logical", {}),
     View({p1}, p1, NoTags, Nothing, {"logical"}),
     View(Everybody, p3, [NoTags EXCEPT ![p2] = p1], Nothing, {}),
     View(Everybody, Nobody, [NoTags EXCEPT ![p3] = p1], Nothing, {"physical"})}
=============================================================================
