----------------------------- MODULE MCWatchdog -----------------------------
(* Instances of Watchdog in which PrimaryIsGuarded is violated: a device whose
   timeout is fixed, and a TTL that is raised and lowered again. *)
EXTENDS Watchdog, TLC

CONSTANTS d1, d2

AbleHardware ==
    d1 :> [magicClose |-> TRUE, setTimeout |-> TRUE, default |-> 60, max |-> 65534]
FixedHardware == d1 :> [AbleHardware[d1] EXCEPT !.setTimeout = FALSE]

Config(t) == [mode |-> "required", device |-> d1, ttl |-> t, loopWait |-> 10, margin |-> 5]

OneConfig == {Config(30)}
TwoTtls == {Config(30), Config(60)}
=============================================================================
