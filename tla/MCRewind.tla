------------------------------ MODULE MCRewind ------------------------------
(* Instances of Rewind for TLC. *)
EXTENDS Rewind, TLC

CONSTANTS m1, m2, m3

Rewinds == {[rewind |-> TRUE, removeDiverged |-> FALSE, removeFailed |-> f] : f \in BOOLEAN}
Removes == {[rewind |-> FALSE, removeDiverged |-> TRUE, removeFailed |-> FALSE]}
AllSettings == Rewinds \cup Removes
=============================================================================
