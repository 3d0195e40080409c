------------------------------ MODULE Watchdog ------------------------------
(***************************************************************************)
(* The facade of the watchdog devices (watchdog/base.py) over the devices  *)
(* of Linux (watchdog/linux.py), and its users: the HA loop of a node that *)
(* gets, keeps or loses the leader lock (ha.py), and the reload of the     *)
(* configuration, which comes between two cycles of the loop in the same   *)
(* thread (__init__.py).                                                   *)
(*                                                                         *)
(* Module Ha has a device that works and a configuration that stays; this  *)
(* one has modes, devices of limited ability and reloads, and leaves out   *)
(* the clock: what matters is which device is armed, and for how long.     *)
(***************************************************************************)
EXTENDS Integers

CONSTANTS
    Configs,   \* the configurations that may be loaded
    Hardware,  \* the abilities of each device
    NoDevice   \* NullWatchdog

Devices == DOMAIN Hardware

Modes == {"off", "automatic", "required"}

ASSUME NoDeviceAssumption == NoDevice \notin Devices

ASSUME ConfigsAssumption ==
    Configs \subseteq [mode : Modes, device : Devices, ttl : Nat, loopWait : Nat,
                       margin : Nat \cup {-1}]

ASSUME HardwareAssumption ==
    Hardware \in [Devices -> [magicClose : BOOLEAN, setTimeout : BOOLEAN,
                              default : Nat, max : Nat]]

VARIABLES
    config,        \* Watchdog.config
    activeConfig,  \* Watchdog.active_config
    active,        \* Watchdog.active
    state,         \* Watchdog.impl and the devices
    primary,       \* Postgres of this node accepts writes
    settled        \* history: a cycle with the lock applied the last reload

watchdogVars == <<config, activeConfig, active, state, primary, settled>>

(* The implementation and whether it is open; the devices that a descriptor of this
   process holds, those that are armed, and the timeout of each. *)
States == [impl : Devices \cup {NoDevice}, isOpen : BOOLEAN, held : SUBSET Devices,
           armed : SUBSET Devices, timeout : [Devices -> Nat]]

WatchdogTypeOK ==
    /\ config \in Configs
    /\ activeConfig \in Configs
    /\ active \in BOOLEAN
    /\ state \in States
    /\ primary \in BOOLEAN
    /\ settled \in BOOLEAN

-----------------------------------------------------------------------------
(* WatchdogConfig. *)

Timeout(c) == IF c.margin = -1 THEN c.ttl \div 2 ELSE c.ttl - c.margin

TimingSlack(c) == Timeout(c) - c.loopWait

(* The implementations. A new one replaces the old one as it is: a descriptor that
   was not closed stays open. *)

Null(s) == [s EXCEPT !.impl = NoDevice, !.isOpen = FALSE]

GetImpl(s, c) == [s EXCEPT !.impl = c.device, !.isOpen = FALSE]

(* LinuxWatchdogDevice.open arms the device, and may fail; a device can be open
   once. *)
Opened(s) ==
    {Null(s)} \cup
    (IF s.impl \in s.held THEN {}
     ELSE {[s EXCEPT !.isOpen = TRUE, !.held = @ \cup {s.impl}, !.armed = @ \cup {s.impl}]})

(* LinuxWatchdogDevice.close disarms the device if it supports the magic close. *)
Closed(s) ==
    IF ~s.isOpen THEN s
    ELSE [s EXCEPT !.isOpen = FALSE, !.held = @ \ {s.impl},
                   !.armed = IF Hardware[s.impl].magicClose THEN @ \ {s.impl} ELSE @]

(* LinuxWatchdogDevice.set_timeout raises an exception unless this holds. *)
Settable(s, t) == s.isOpen /\ 0 < t /\ t <= Hardware[s.impl].max

SetTimeout(s, t) == [s EXCEPT !.timeout[s.impl] = t]

-----------------------------------------------------------------------------
(* _set_timeout of an open device within _activate. The device is given up when its
   timeout cannot be set, and when it is too short and it can be disabled. *)
TimeoutSet(s, c) ==
    LET can == Hardware[s.impl].setTimeout
        t == IF can THEN SetTimeout(s, Timeout(c)) ELSE s
    IN  IF can /\ ~Settable(s, Timeout(c)) THEN Null(s)
        ELSE IF t.timeout[s.impl] < c.loopWait /\ Hardware[s.impl].magicClose
             THEN Null(Closed(t))
             ELSE t

(* _activate: the states it may leave. *)
Activated(s, c) ==
    IF TimingSlack(c) < 0 \/ s.impl = NoDevice THEN {Null(s)}
    ELSE {IF o.isOpen THEN TimeoutSet(o, c) ELSE o : o \in Opened(s)}

(* What _activate returns. *)
Safe(s, c) == s.isOpen /\ s.timeout[s.impl] <= Timeout(c)
ActivateResult(s, c) == c.mode = "required" => Safe(s, c)

(* Mutant: the old device is not disabled. *)
DriverLeftOpen(s, c, ac) ==
    IF c.device = ac.device THEN {s} ELSE Activated(GetImpl(s, c), c)

(* keepalive, pending change of the device. *)
DriverChanged(s, c, ac) ==
    IF c.device = ac.device THEN {s} ELSE Activated(GetImpl(Closed(s), c), c)

(* keepalive with a pending configuration: the watchdog is turned on, the device is
   changed, the timeout is changed. _activate updates active_config. *)
KeptAlive(s, c, ac) ==
    IF ac.mode = "off" /\ c.mode # "off" THEN Activated(GetImpl(s, c), c)
    ELSE IF c.device # ac.device THEN DriverChanged(s, c, ac)
    ELSE {IF Timeout(c) # Timeout(ac) /\ Settable(s, Timeout(c)) /\ Hardware[s.impl].setTimeout
          THEN SetTimeout(s, Timeout(c)) ELSE s}

(* active_config after keepalive. *)
KeptConfig(c, ac) ==
    IF (ac.mode = "off" /\ c.mode # "off") \/ c.device # ac.device THEN c ELSE ac

-----------------------------------------------------------------------------
WatchdogInit ==
    /\ config \in Configs
    /\ activeConfig = config
    /\ active = FALSE
    /\ state = [impl |-> IF config.mode = "off" THEN NoDevice ELSE config.device,
                isOpen |-> FALSE, held |-> {}, armed |-> {},
                timeout |-> [d \in Devices |-> Hardware[d].default]]
    /\ primary = FALSE
    /\ settled = FALSE

(* reload_config. *)
Reload(c) ==
    /\ c # config
    /\ config' = c
    /\ settled' = FALSE
    /\ \/ /\ c.mode = "off"
          /\ state' = Null(IF active THEN Closed(state) ELSE state)
          /\ activeConfig' = c
       \/ /\ c.mode # "off" /\ ~active
          /\ state' = IF c.device # activeConfig.device THEN GetImpl(state, c) ELSE state
          /\ activeConfig' = c
       \/ /\ c.mode # "off" /\ active
          /\ UNCHANGED <<state, activeConfig>>
    /\ UNCHANGED <<active, primary>>

(* Mutant: the result of activate() is ignored. *)
EnforceAnyway(s, ac) ==
    /\ primary' = TRUE
    /\ IF s.isOpen
       THEN state' = s /\ activeConfig' = ac /\ UNCHANGED active
       ELSE /\ state' \in Activated(s, config)
            /\ activeConfig' = config
            /\ active' = TRUE

(* enforce_master_role from state s: promote, or keep the role, if the watchdog runs
   or can be activated; otherwise give the lock up, and disable the watchdog at the
   safepoint of stop() if Postgres was the primary. *)
EnforceMasterRole(s, ac) ==
    \/ /\ s.isOpen
       /\ primary' = TRUE
       /\ state' = s
       /\ activeConfig' = ac
       /\ UNCHANGED active
    \/ /\ ~s.isOpen
       /\ activeConfig' = config
       /\ \E a \in Activated(s, config) :
            IF ActivateResult(a, config)
            THEN primary' = TRUE /\ state' = a /\ active' = TRUE
            ELSE /\ primary' = FALSE
                 /\ state' = IF primary THEN Closed(a) ELSE a
                 /\ active' = ~(primary /\ a.isOpen)

(* A cycle that has just acquired the lock. *)
TakeOver ==
    /\ ~primary
    /\ EnforceMasterRole(state, activeConfig)
    /\ settled' = (activeConfig' = config)
    /\ UNCHANGED config

(* A cycle that has renewed the lock: keepalive, then the master role is enforced,
   unless a background task is under way. *)
KeepLock ==
    /\ \E s \in IF active THEN KeptAlive(state, config, activeConfig) ELSE {state} :
         LET ac == IF active THEN KeptConfig(config, activeConfig) ELSE activeConfig
         IN  \/ EnforceMasterRole(s, ac) /\ settled' = TRUE
             \/ /\ state' = s /\ activeConfig' = ac
                /\ UNCHANGED <<active, primary, settled>>
    /\ UNCHANGED config

(* demote and shutdown: stop() disables a watchdog that runs, at its safepoint. *)
Demote ==
    /\ primary
    /\ primary' = FALSE
    /\ state' = Closed(state)
    /\ active' = (active /\ ~state.isOpen)
    /\ UNCHANGED <<config, activeConfig, settled>>

(* recover and post_recover: Postgres is down, so the watchdog is disabled. *)
Recover ==
    /\ primary' = FALSE
    /\ state' = Closed(state)
    /\ active' = FALSE
    /\ UNCHANGED <<config, activeConfig, settled>>

WatchdogNext ==
    \/ \E c \in Configs : Reload(c)
    \/ TakeOver \/ KeepLock \/ Demote \/ Recover

WatchdogSpec == WatchdogInit /\ [][WatchdogNext]_watchdogVars

-----------------------------------------------------------------------------
(* A required watchdog guards the primary, and fires before the TTL is over, once a
   cycle of the leader has applied the configuration: activate "returns False if a safe
   watchdog could not be configured, but is required", and a change is put off to
   the "next time a keepalive is sent so timeout matches up with leader key update". *)
PrimaryIsGuarded ==
    primary /\ settled /\ config.mode = "required" => Safe(state, config)

(* No device that can be disarmed is armed unless it is the one that Patroni holds
   open and keeps alive; it would reset a host on which all is well. *)
NoStrayDevice ==
    \A d \in state.armed :
        Hardware[d].magicClose => state.isOpen /\ state.impl = d
=============================================================================
