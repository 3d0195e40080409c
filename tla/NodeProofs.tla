----------------------------- MODULE NodeProofs -----------------------------
(***************************************************************************)
(* Proofs about the services of one node: the stop of Postgres             *)
(* (Postmaster), the watchdog facade (Watchdog), the way of the            *)
(* configuration into Postgres (Parameters) and the connection of a        *)
(* standby to the member it follows (Following).                           *)
(***************************************************************************)
EXTENDS Postmaster, Watchdog, Parameters, Following, TLAPS

-----------------------------------------------------------------------------
(* The stop of Postgres. *)

(* What the two properties except: a postmaster killed from outside before its
   backends, and a call that failed and told nothing. *)
Excused == orphaned \/ misled

(* No further backend comes, or a failed call has hidden that they do. *)
NobodyEnters == phase # "up" \/ misled

(* What each step of stop() may rely on: after the connection was closed nobody
   is let in (closing, list, backends); what was listed are all the backends, for
   who is suspended starts none (children, kill); and a postmaster that is gone has
   left nobody, except the children that signal_kill is about to kill. *)
StopInv ==
    /\ orphaned => phase = "dead"
    /\ phase = "dead" =>
          backends = {} \/ Excused \/ (stopPc = "killChildren" /\ backends \subseteq listed)
    /\ stopPc \in {"list", "backends", "safepoint"} => NobodyEnters
    /\ stopPc = "backends" => backends \subseteq listed \/ misled
    /\ stopPc = "safepoint" => backends = {} \/ Excused
    /\ safepoint => NobodyEnters /\ (backends = {} \/ Excused)
    /\ stopPc \in {"children", "kill"} => suspended \/ NobodyEnters
    /\ stopPc = "kill" => backends \subseteq listed \/ misled
    /\ stopPc \in {"killChildren", "stopped"} => phase = "dead"

(* Whatever Postgres, its clients or the kernel do between two steps of stop(). *)
LEMMA PostgresStepKeepsStop ==
    ASSUME StopTypeOK, StopInv, PostgresStep \/ PostmasterKilled
    PROVE  StopInv'
<1>. USE DEF StopTypeOK, StopInv, Excused, NobodyEnters, StopModes, locals
<1>1. CASE BackendStarts
  BY <1>1 DEF BackendStarts
<1>2. CASE BackendEnds
  BY <1>2 DEF BackendEnds
<1>3. CASE ProcessSignal
  BY <1>3 DEF ProcessSignal
<1>4. CASE ConnectionTerminated
  BY <1>4 DEF ConnectionTerminated
<1>5. CASE PostmasterEnds
  BY <1>5 DEF PostmasterEnds
<1>6. CASE PostmasterKilled
  BY <1>6 DEF PostmasterKilled, StopMishap
<1>. QED
  BY <1>1, <1>2, <1>3, <1>4, <1>5, <1>6 DEF PostgresStep

LEMMA StopStepKeepsStop ==
    ASSUME StopTypeOK, StopInv, DoStop \/ StopStep
    PROVE  StopInv'
<1>. USE DEF StopTypeOK, StopInv, Excused, NobodyEnters, StopModes, locals,
             serverProcesses, OnSafepoint, StopMishap
<1>1. CASE DoStop
  BY <1>1 DEF DoStop
<1>2. CASE SignalStop
  BY <1>2 DEF SignalStop
<1>3. CASE ConnectionAlive \/ WaitForConnectionClose
  BY <1>3 DEF ConnectionAlive, WaitForConnectionClose
<1>4. CASE ListUserBackends
  BY <1>4 DEF ListUserBackends
<1>5. CASE WaitForUserBackendsToClose
  BY <1>5 DEF WaitForUserBackendsToClose
<1>6. CASE ReachSafepoint
  BY <1>6 DEF ReachSafepoint
<1>7. CASE WaitForPostmaster \/ StopTimeout \/ StopImmediately
  BY <1>7 DEF WaitForPostmaster, StopTimeout, StopImmediately
<1>8. CASE SuspendPostmaster
  BY <1>8 DEF SuspendPostmaster
<1>9. CASE ListChildren
  BY <1>9 DEF ListChildren
<1>10. CASE KillFails
  BY <1>10 DEF KillFails
<1>11. CASE KillPostmaster
  BY <1>11 DEF KillPostmaster
<1>12. CASE KillChildren
  BY <1>12 DEF KillChildren
<1>. QED
  BY <1>1, <1>2, <1>3, <1>4, <1>5, <1>6, <1>7, <1>8, <1>9, <1>10, <1>11, <1>12
  DEF StopStep

(* Types: every kill and every failure is one of the mishaps, backends come from Pids. *)
LEMMA PostgresStepStopTypes ==
    ASSUME StopTypeOK, PostgresStep \/ PostmasterKilled
    PROVE  StopTypeOK'
<1>. USE StopBound DEF StopTypeOK, StopModes, locals, StopMishap
<1>1. CASE BackendStarts
  BY <1>1 DEF BackendStarts
<1>2. CASE BackendEnds
  BY <1>2 DEF BackendEnds
<1>3. CASE ProcessSignal
  BY <1>3 DEF ProcessSignal
<1>4. CASE ConnectionTerminated
  BY <1>4, ZenonT(30) DEF ConnectionTerminated
<1>5. CASE PostmasterEnds
  BY <1>5 DEF PostmasterEnds
<1>6. CASE PostmasterKilled
  BY <1>6 DEF PostmasterKilled
<1>. QED
  BY <1>1, <1>2, <1>3, <1>4, <1>5, <1>6 DEF PostgresStep

LEMMA MishapsStayBounded ==
    ASSUME stopMishaps \in 0..MaxStopMishaps, StopMishap \/ UNCHANGED stopMishaps
    PROVE  stopMishaps' \in 0..MaxStopMishaps
BY StopBound DEF StopMishap

LEMMA StopStepStopTypes ==
    ASSUME StopTypeOK, DoStop \/ StopStep
    PROVE  StopTypeOK'
<1>. USE DEF StopTypeOK, StopModes, locals, serverProcesses, OnSafepoint
<1>1. CASE DoStop
  BY <1>1 DEF DoStop
<1>2. CASE SignalStop
  <2>1. stopMishaps' \in 0..MaxStopMishaps
    BY <1>2, MishapsStayBounded DEF SignalStop
  <2>. QED
    BY <1>2, <2>1 DEF SignalStop
<1>3. CASE ConnectionAlive
  BY <1>3 DEF ConnectionAlive
<1>4. CASE WaitForConnectionClose
  <2>1. stopMishaps' \in 0..MaxStopMishaps
    BY <1>4, MishapsStayBounded DEF WaitForConnectionClose
  <2>. QED
    BY <1>4, <2>1 DEF WaitForConnectionClose
<1>5. CASE ListUserBackends
  <2>1. stopMishaps' \in 0..MaxStopMishaps
    BY <1>5, MishapsStayBounded DEF ListUserBackends
  <2>. QED
    BY <1>5, <2>1 DEF ListUserBackends
<1>6. CASE WaitForUserBackendsToClose
  BY <1>6 DEF WaitForUserBackendsToClose
<1>7. CASE ReachSafepoint
  BY <1>7 DEF ReachSafepoint
<1>8. CASE WaitForPostmaster
  BY <1>8 DEF WaitForPostmaster
<1>9. CASE StopTimeout
  BY <1>9 DEF StopTimeout
<1>10. CASE StopImmediately
  <2>1. stopMishaps' \in 0..MaxStopMishaps
    BY <1>10, MishapsStayBounded DEF StopImmediately
  <2>. QED
    BY <1>10, <2>1 DEF StopImmediately
<1>11. CASE SuspendPostmaster
  <2>1. stopMishaps' \in 0..MaxStopMishaps
    BY <1>11, MishapsStayBounded DEF SuspendPostmaster
  <2>. QED
    BY <1>11, <2>1 DEF SuspendPostmaster
<1>12. CASE ListChildren
  <2>1. stopMishaps' \in 0..MaxStopMishaps
    BY <1>12, MishapsStayBounded DEF ListChildren
  <2>. QED
    BY <1>12, <2>1 DEF ListChildren
<1>13. CASE KillFails
  <2>1. stopMishaps' \in 0..MaxStopMishaps
    BY <1>13, MishapsStayBounded DEF KillFails
  <2>. QED
    BY <1>13, <2>1 DEF KillFails
<1>14. CASE KillPostmaster
  BY <1>14 DEF KillPostmaster
<1>15. CASE KillChildren
  BY <1>15 DEF KillChildren
<1>. QED
  BY <1>1, <1>2, <1>3, <1>4, <1>5, <1>6, <1>7, <1>8, <1>9, <1>10, <1>11, <1>12,
     <1>13, <1>14, <1>15 DEF StopStep

(* Every variable of the stop keeps its type (StopTypeOK), and what its steps rely
   on holds (StopInv). *)
THEOREM StopInductive == StopSpec => [](StopTypeOK /\ StopInv)
<1>1. StopInit => StopTypeOK /\ StopInv
  <2>1. StopInit => StopTypeOK
    <3>1. StopInit => stopMishaps \in 0..MaxStopMishaps
      BY StopBound DEF StopInit
    <3>. QED
      BY <3>1 DEF StopInit, StopTypeOK
  <2>2. StopInit => StopInv
    BY DEF StopInit, StopInv, Excused, NobodyEnters
  <2>. QED
    BY <2>1, <2>2
<1>2. StopTypeOK /\ StopInv /\ [StopNext]_stopVars => (StopTypeOK /\ StopInv)'
  <2>1. CASE UNCHANGED stopVars
    BY <2>1 DEF stopVars, StopTypeOK, StopInv, Excused, NobodyEnters
  <2>. QED
    BY <2>1, PostgresStepStopTypes, StopStepStopTypes, PostgresStepKeepsStop,
       StopStepKeepsStop DEF StopNext
<1>. QED
  BY <1>1, <1>2, PTL DEF StopSpec

(* From the safepoint on, at which the watchdog is disabled and the leader key given
   up, nobody can be told of a commit (SafepointIsSafe). *)
THEOREM SafepointSafe == StopSpec => []SafepointIsSafe
<1>1. StopInv => SafepointIsSafe
  BY DEF StopInv, SafepointIsSafe, Excused
<1>. QED
  BY <1>1, StopInductive, PTL

(* A stop that succeeds leaves neither postmaster nor backends (StopLeavesNobody). *)
THEOREM StopIsComplete == StopSpec => []StopLeavesNobody
<1>1. StopInv => StopLeavesNobody
  BY DEF StopInv, StopLeavesNobody, Excused
<1>. QED
  BY <1>1, StopInductive, PTL

-----------------------------------------------------------------------------
(* The watchdog. *)

(* A device whose timeout can be set can be set to that of every configuration: a
   TTL is some seconds, and a device takes up to 65534. *)
TimeoutsCanBeSet ==
    \A c \in Configs, d \in Devices :
        Hardware[d].setTimeout => 0 < Timeout(c) /\ Timeout(c) <= Hardware[d].max

(* An open device is held, and nothing else that can be disarmed is armed. *)
Tidy(s) ==
    /\ s.isOpen => s.impl \in s.held
    /\ \A d \in s.armed : Hardware[d].magicClose => s.isOpen /\ s.impl = d

(* What holds of the facade in state s with the configurations c (config) and ac
   (active_config): only an active one has a device open, and one that is turned off
   has none.  The latter is why turning it on may replace the implementation. *)
FacadeOK(s, c, ac, on) ==
    /\ s.isOpen => on /\ s.impl \in Devices
    /\ ac.mode = "off" => s.impl = NoDevice
    /\ c.mode = "off" => ac = c

(* The hypotheses of PrimaryIsGuarded, each with a counterexample that shows it to be
   needed: every device takes a timeout (MCWatchdogFixed.cfg does without it), and all
   configurations want the same one (MCWatchdogReload.cfg). *)
TimeoutCanBeSet == \A d \in Devices : Hardware[d].setTimeout
SameTimeouts == \A c, d \in Configs : Timeout(c) = Timeout(d)

(* An open device has the timeout of the configuration, whichever it is. *)
TimeoutOK(s) == s.isOpen => \A c \in Configs : s.timeout[s.impl] = Timeout(c)

(* Configuration ac of an active watchdog differs from c in nothing that keepalive()
   would activate the device again for. *)
Applied(c, ac, on) ==
    on => c.device = ac.device /\ (ac.mode = "off" => c.mode = "off")

GuardInv ==
    /\ TimeoutOK(state)
    /\ primary /\ settled /\ config.mode = "required" => state.isOpen
    /\ settled => Applied(config, activeConfig, active)

LEMMA TimeoutType ==
    ASSUME NEW c \in Configs
    PROVE  Timeout(c) \in Int /\ TimingSlack(c) \in Int
BY ConfigsAssumption DEF Timeout, TimingSlack

LEMMA NullState ==
    ASSUME NEW s \in States
    PROVE  /\ Null(s) \in States
           /\ Null(s).impl = NoDevice /\ ~Null(s).isOpen
           /\ Null(s).armed = s.armed
BY DEF Null, States

LEMMA GetImplState ==
    ASSUME NEW s \in States, NEW c \in Configs
    PROVE  /\ GetImpl(s, c) \in States
           /\ GetImpl(s, c).impl = c.device /\ ~GetImpl(s, c).isOpen
           /\ GetImpl(s, c).armed = s.armed
BY ConfigsAssumption DEF GetImpl, States

(* After close() nothing is armed that can be disarmed. *)
LEMMA ClosedState ==
    ASSUME NEW s \in States
    PROVE  /\ Closed(s) \in States
           /\ Closed(s).impl = s.impl /\ ~Closed(s).isOpen
           /\ Tidy(s) => Tidy(Closed(s))
BY HardwareAssumption DEF Closed, States, Tidy, Devices

LEMMA OpenedState ==
    ASSUME NEW s \in States, s.impl \in Devices, NEW o \in Opened(s)
    PROVE  /\ o \in States
           /\ o.isOpen => o.impl = s.impl
           /\ ~o.isOpen => o.impl = NoDevice
           /\ Tidy(s) /\ ~s.isOpen => Tidy(o)
<1>1. CASE o = Null(s)
  BY <1>1, NullState DEF Tidy
<1>2. CASE s.impl \notin s.held /\ o = [s EXCEPT !.isOpen = TRUE,
                         !.held = @ \cup {s.impl}, !.armed = @ \cup {s.impl}]
  BY <1>2 DEF Tidy, States
<1>. QED
  BY <1>1, <1>2 DEF Opened

LEMMA SetTimeoutState ==
    ASSUME NEW s \in States, NEW t \in Nat
    PROVE  /\ SetTimeout(s, t) \in States
           /\ SetTimeout(s, t).impl = s.impl
           /\ SetTimeout(s, t).isOpen = s.isOpen
           /\ s.impl \in Devices => SetTimeout(s, t).timeout[s.impl] = t
           /\ Tidy(s) => Tidy(SetTimeout(s, t))
BY DEF SetTimeout, Tidy, States

(* What TimeoutSet makes of a device that was just opened. *)
LEMMA TimeoutSetState ==
    ASSUME NEW s \in States, NEW c \in Configs, s.isOpen, s.impl \in Devices
    PROVE  LET a == TimeoutSet(s, c)
           IN  /\ a \in States
               /\ a.impl \in {s.impl, NoDevice}
               /\ a.isOpen => a.impl = s.impl
               /\ a.isOpen /\ Hardware[s.impl].setTimeout => a.timeout[s.impl] = Timeout(c)
               /\ Tidy(s) /\ TimeoutsCanBeSet => Tidy(a)
<1>. DEFINE can == Hardware[s.impl].setTimeout
            t == IF can THEN SetTimeout(s, Timeout(c)) ELSE s
<1>1. CASE can /\ ~Settable(s, Timeout(c))
  <2>1. TimeoutSet(s, c) = Null(s)
    BY <1>1 DEF TimeoutSet
  <2>2. ~TimeoutsCanBeSet
    BY <1>1 DEF TimeoutsCanBeSet, Settable
  <2>. QED
    BY <2>1, <2>2, NullState
<1>2. CASE ~(can /\ ~Settable(s, Timeout(c)))
  <2>1. can => Timeout(c) \in Nat
    BY <1>2, TimeoutType DEF Settable
  <2>2. /\ t \in States /\ t.impl = s.impl /\ t.isOpen
        /\ can => t.timeout[s.impl] = Timeout(c)
        /\ Tidy(s) => Tidy(t)
    BY <2>1, SetTimeoutState
  <2>3. TimeoutSet(s, c) \in {t, Null(Closed(t))}
    BY <1>2 DEF TimeoutSet
  <2>4. Closed(t) \in States /\ (Tidy(s) => Tidy(Closed(t)))
    BY <2>2, ClosedState
  <2>5. /\ Null(Closed(t)) \in States
        /\ Null(Closed(t)).impl = NoDevice /\ ~Null(Closed(t)).isOpen
        /\ Tidy(s) => Tidy(Null(Closed(t)))
    BY <2>2, <2>4, ClosedState, NullState DEF Tidy
  <2>. HIDE DEF t
  <2>. QED
    BY <2>2, <2>3, <2>5
<1>. QED
  BY <1>1, <1>2

LEMMA ActivatedState ==
    ASSUME NEW s \in States, NEW c \in Configs, NEW a \in Activated(s, c), ~s.isOpen
    PROVE  /\ a \in States
           /\ a.impl \in {s.impl, NoDevice}
           /\ a.isOpen => a.impl \in Devices
           /\ a.isOpen /\ Hardware[a.impl].setTimeout => a.timeout[a.impl] = Timeout(c)
           /\ Tidy(s) /\ TimeoutsCanBeSet => Tidy(a)
<1>1. CASE a = Null(s)
  BY <1>1, NullState DEF Tidy
<1>2. CASE s.impl # NoDevice /\ \E o \in Opened(s) : a = IF o.isOpen THEN TimeoutSet(o, c) ELSE o
  <2>1. PICK o \in Opened(s) : a = IF o.isOpen THEN TimeoutSet(o, c) ELSE o
    BY <1>2
  <2>2. s.impl \in Devices
    BY <1>2 DEF States
  <2>3. /\ o \in States
        /\ o.isOpen => o.impl = s.impl
        /\ ~o.isOpen => o.impl = NoDevice
        /\ Tidy(s) => Tidy(o)
    BY <2>2, OpenedState
  <2>4. CASE o.isOpen
    BY <2>1, <2>2, <2>3, <2>4, TimeoutSetState
  <2>5. CASE ~o.isOpen
    BY <2>1, <2>3, <2>5
  <2>. QED
    BY <2>4, <2>5
<1>. QED
  BY <1>1, <1>2 DEF Activated

LEMMA KeptAliveState ==
    ASSUME NEW s \in States, NEW c \in Configs, NEW ac \in Configs,
           FacadeOK(s, c, ac, TRUE), NEW k \in KeptAlive(s, c, ac)
    PROVE  /\ k \in States
           /\ KeptConfig(c, ac) \in Configs
           /\ FacadeOK(k, c, KeptConfig(c, ac), TRUE)
           /\ Tidy(s) /\ TimeoutsCanBeSet => Tidy(k)
           /\ TimeoutOK(s) /\ TimeoutCanBeSet /\ SameTimeouts => TimeoutOK(k)
<1>1. CASE ac.mode = "off" /\ c.mode # "off"
  <2>. DEFINE g == GetImpl(s, c)
  <2>1. k \in Activated(g, c) /\ KeptConfig(c, ac) = c
    BY <1>1 DEF KeptAlive, KeptConfig
  <2>2. ~s.isOpen
    BY <1>1, NoDeviceAssumption DEF FacadeOK
  <2>3. g \in States /\ ~g.isOpen /\ (Tidy(s) => Tidy(g))
    BY <2>2, GetImplState DEF Tidy
  <2>. HIDE DEF g
  <2>. QED
    BY <1>1, <2>1, <2>3, ActivatedState
    DEF FacadeOK, TimeoutOK, SameTimeouts, TimeoutCanBeSet
<1>2. CASE ~(ac.mode = "off" /\ c.mode # "off") /\ c.device # ac.device
  <2>. DEFINE g == GetImpl(Closed(s), c)
  <2>1. k \in Activated(g, c) /\ KeptConfig(c, ac) = c
    BY <1>2 DEF KeptAlive, DriverChanged, KeptConfig
  <2>2. c.mode # "off"
    BY <1>2 DEF FacadeOK
  <2>3. g \in States /\ ~g.isOpen /\ (Tidy(s) => Tidy(g))
    BY ClosedState, GetImplState DEF Tidy
  <2>. HIDE DEF g
  <2>. QED
    BY <2>1, <2>2, <2>3, ActivatedState
    DEF FacadeOK, TimeoutOK, SameTimeouts, TimeoutCanBeSet
<1>3. CASE ~(ac.mode = "off" /\ c.mode # "off") /\ c.device = ac.device
  <2>1. KeptConfig(c, ac) = ac
    BY <1>3 DEF KeptConfig
  <2>2. CASE k = s
    BY <2>1, <2>2
  <2>3. CASE Settable(s, Timeout(c)) /\ k = SetTimeout(s, Timeout(c))
    <3>1. Timeout(c) \in Nat /\ s.isOpen
      BY <2>3, TimeoutType DEF Settable
    <3>2. /\ k \in States /\ k.impl = s.impl /\ k.isOpen = s.isOpen
          /\ s.impl \in Devices => k.timeout[s.impl] = Timeout(c)
          /\ Tidy(s) => Tidy(k)
      <4>. DEFINE t == Timeout(c)
      <4>1. t \in Nat /\ k = SetTimeout(s, t)
        BY <2>3, <3>1
      <4>. HIDE DEF t
      <4>2. /\ SetTimeout(s, t) \in States
            /\ SetTimeout(s, t).impl = s.impl /\ SetTimeout(s, t).isOpen = s.isOpen
            /\ s.impl \in Devices => SetTimeout(s, t).timeout[s.impl] = t
            /\ Tidy(s) => Tidy(SetTimeout(s, t))
        BY <4>1, SetTimeoutState
      <4>. QED
        BY <4>1, <4>2 DEF t
    <3>. QED
      BY <2>1, <3>1, <3>2 DEF FacadeOK, TimeoutOK, SameTimeouts
  <2>. QED
    BY <1>3, <2>2, <2>3 DEF KeptAlive
<1>. QED
  BY <1>1, <1>2, <1>3

(* The steps of the facade, with what each leaves of the two invariants. *)
FacadeInv == FacadeOK(state, config, activeConfig, active)

LEMMA EnforceMasterRoleState ==
    ASSUME WatchdogTypeOK, NEW s \in States, NEW ac \in Configs,
           FacadeOK(s, config, ac, active), EnforceMasterRole(s, ac), UNCHANGED config
    PROVE  /\ state' \in States /\ activeConfig' \in Configs
           /\ active' \in BOOLEAN /\ primary' \in BOOLEAN
           /\ FacadeInv'
           /\ Tidy(s) /\ TimeoutsCanBeSet => Tidy(state')
           /\ TimeoutOK(s) /\ TimeoutCanBeSet /\ SameTimeouts => TimeoutOK(state')
           /\ primary' /\ config.mode = "required" => state'.isOpen
           /\ activeConfig' = ac \/ activeConfig' = config
<1>. USE DEF WatchdogTypeOK
<1>1. CASE s.isOpen
  BY <1>1 DEF EnforceMasterRole, FacadeInv
<1>2. CASE ~s.isOpen
  <2>1. PICK a \in Activated(s, config) :
          IF ActivateResult(a, config)
          THEN primary' = TRUE /\ state' = a /\ active' = TRUE
          ELSE /\ primary' = FALSE
               /\ state' = IF primary THEN Closed(a) ELSE a
               /\ active' = ~(primary /\ a.isOpen)
    BY <1>2 DEF EnforceMasterRole
  <2>2. activeConfig' = config
    BY <1>2 DEF EnforceMasterRole
  <2>3. /\ a \in States
        /\ a.impl \in {s.impl, NoDevice}
        /\ a.isOpen => a.impl \in Devices
        /\ Tidy(s) /\ TimeoutsCanBeSet => Tidy(a)
        /\ TimeoutCanBeSet /\ SameTimeouts => TimeoutOK(a)
    BY <1>2, ActivatedState DEF TimeoutOK, SameTimeouts, TimeoutCanBeSet
  <2>4. /\ Closed(a) \in States
        /\ Closed(a).impl = a.impl /\ ~Closed(a).isOpen
        /\ Tidy(a) => Tidy(Closed(a))
    BY <2>3, ClosedState
  <2>5. config.mode = "off" => a.impl = NoDevice
    BY <2>3 DEF FacadeOK
  <2>6. CASE ActivateResult(a, config)
    BY <2>1, <2>2, <2>3, <2>5, <2>6 DEF ActivateResult, Safe, FacadeInv, FacadeOK
  <2>7. CASE ~ActivateResult(a, config)
    BY <2>1, <2>2, <2>3, <2>4, <2>5, <2>7 DEF FacadeInv, FacadeOK, TimeoutOK
  <2>. QED
    BY <2>6, <2>7
<1>. QED
  BY <1>1, <1>2

(* A change of the device is put off while the watchdog is active, and a setting of
   the timeout while the leader has not kept it alive. *)
LEMMA ReloadState ==
    ASSUME WatchdogTypeOK, FacadeInv, NEW c \in Configs, Reload(c)
    PROVE  /\ state' \in States /\ activeConfig' \in Configs
           /\ FacadeInv'
           /\ Tidy(state) => Tidy(state')
           /\ TimeoutOK(state) => TimeoutOK(state')
<1>. USE DEF WatchdogTypeOK
<1>1. CASE c.mode = "off"
  <2>. DEFINE n == IF active THEN Closed(state) ELSE state
  <2>1. n \in States /\ (Tidy(state) => Tidy(n)) /\ ~n.isOpen
    BY ClosedState DEF FacadeInv, FacadeOK
  <2>2. state' = Null(n) /\ activeConfig' = c /\ config' = c /\ active' = active
    BY <1>1 DEF Reload
  <2>. HIDE DEF n
  <2>. QED
    BY <2>1, <2>2, NullState DEF FacadeInv, FacadeOK, Tidy, TimeoutOK
<1>2. CASE c.mode # "off" /\ ~active
  <2>1. ~state.isOpen
    BY <1>2 DEF FacadeInv, FacadeOK
  <2>2. state' \in {state, GetImpl(state, c)} /\ activeConfig' = c /\ config' = c /\ active' = active
    BY <1>2 DEF Reload
  <2>. QED
    BY <1>2, <2>1, <2>2, GetImplState DEF FacadeInv, FacadeOK, Tidy, TimeoutOK
<1>3. CASE c.mode # "off" /\ active
  BY <1>3 DEF Reload, FacadeInv, FacadeOK
<1>. QED
  BY <1>1, <1>2, <1>3

LEMMA KeepLockState ==
    ASSUME WatchdogTypeOK, FacadeInv, KeepLock
    PROVE  /\ WatchdogTypeOK'
           /\ FacadeInv'
           /\ Tidy(state) /\ TimeoutsCanBeSet => Tidy(state')
           /\ GuardInv /\ TimeoutCanBeSet /\ SameTimeouts => GuardInv'
<1>. USE DEF WatchdogTypeOK
<1>. DEFINE ac == IF active THEN KeptConfig(config, activeConfig) ELSE activeConfig
<1>1. PICK s \in IF active THEN KeptAlive(state, config, activeConfig) ELSE {state} :
        \/ EnforceMasterRole(s, ac) /\ settled' = TRUE
        \/ /\ state' = s /\ activeConfig' = ac
           /\ UNCHANGED <<active, primary, settled>>
  BY DEF KeepLock
<1>2. UNCHANGED config
  BY DEF KeepLock
<1>3. /\ s \in States /\ ac \in Configs
      /\ FacadeOK(s, config, ac, active)
      /\ Tidy(state) /\ TimeoutsCanBeSet => Tidy(s)
      /\ TimeoutOK(state) /\ TimeoutCanBeSet /\ SameTimeouts => TimeoutOK(s)
  BY <1>1, KeptAliveState DEF FacadeInv
<1>4. Applied(config, ac, active)
  BY DEF Applied, KeptConfig, FacadeInv, FacadeOK
<1>5. GuardInv /\ primary /\ settled /\ config.mode = "required" => s.isOpen
  <2>. SUFFICES ASSUME GuardInv, primary, settled, config.mode = "required"
                PROVE  s.isOpen
    OBVIOUS
  <2>1. state.isOpen /\ active /\ Applied(config, activeConfig, active)
    BY DEF GuardInv, FacadeInv, FacadeOK
  <2>2. s = state \/ (s = SetTimeout(state, Timeout(config)) /\ Settable(state, Timeout(config)))
    BY <1>1, <2>1 DEF Applied, KeptAlive
  <2>. QED
    BY <2>1, <2>2, SetTimeoutState, TimeoutType DEF Settable
<1>. HIDE DEF ac
<1>6. CASE EnforceMasterRole(s, ac) /\ settled' = TRUE
  <2>1. /\ state' \in States /\ activeConfig' \in Configs
        /\ active' \in BOOLEAN /\ primary' \in BOOLEAN
        /\ FacadeInv'
        /\ Tidy(s) /\ TimeoutsCanBeSet => Tidy(state')
        /\ TimeoutOK(s) /\ TimeoutCanBeSet /\ SameTimeouts => TimeoutOK(state')
        /\ primary' /\ config.mode = "required" => state'.isOpen
        /\ activeConfig' = ac \/ activeConfig' = config
    BY <1>2, <1>3, <1>6, EnforceMasterRoleState
  <2>2. Applied(config, activeConfig', active')
    <3>1. CASE activeConfig' = config
      BY <3>1 DEF Applied
    <3>2. CASE activeConfig' = ac /\ activeConfig' # config
      BY <1>4, <1>6, <3>2 DEF EnforceMasterRole
    <3>. QED
      BY <2>1, <3>1, <3>2
  <2>3. WatchdogTypeOK'
    BY <1>2, <1>6, <2>1
  <2>4. GuardInv /\ TimeoutCanBeSet /\ SameTimeouts => GuardInv'
    <3>. SUFFICES ASSUME GuardInv, TimeoutCanBeSet, SameTimeouts
                  PROVE  GuardInv'
      OBVIOUS
    <3>1. TimeoutOK(state')
      BY <1>3, <2>1 DEF GuardInv
    <3>. QED
      BY <1>2, <2>1, <2>2, <3>1 DEF GuardInv, TimeoutOK, Applied
  <2>. QED
    BY <1>3, <2>1, <2>3, <2>4
<1>7. CASE /\ state' = s /\ activeConfig' = ac
           /\ UNCHANGED <<active, primary, settled>>
  BY <1>2, <1>3, <1>4, <1>5, <1>7 DEF GuardInv, FacadeInv, TimeoutOK
<1>. QED
  BY <1>1, <1>6, <1>7

(* Every variable keeps its type, only an active watchdog has its device open, and
   one that is turned off has none. *)
THEOREM WatchdogTypes == WatchdogSpec => [](WatchdogTypeOK /\ FacadeInv)
<1>1. WatchdogInit => WatchdogTypeOK /\ FacadeInv
  <2>. SUFFICES ASSUME WatchdogInit
                PROVE  WatchdogTypeOK /\ FacadeInv
    OBVIOUS
  <2>1. config.device \in Devices
    BY ConfigsAssumption DEF WatchdogInit
  <2>2. [d \in Devices |-> Hardware[d].default] \in [Devices -> Nat]
    BY HardwareAssumption DEF Devices
  <2>3. state \in States
    BY <2>1, <2>2 DEF WatchdogInit, States
  <2>4. FacadeInv
    BY DEF WatchdogInit, FacadeInv, FacadeOK
  <2>. QED
    BY <2>3, <2>4 DEF WatchdogInit, WatchdogTypeOK
<1>2. WatchdogTypeOK /\ FacadeInv /\ [WatchdogNext]_watchdogVars
        => (WatchdogTypeOK /\ FacadeInv)'
  <2>. SUFFICES ASSUME WatchdogTypeOK, FacadeInv, [WatchdogNext]_watchdogVars
                PROVE  WatchdogTypeOK' /\ FacadeInv'
    OBVIOUS
  <2>. USE DEF WatchdogTypeOK
  <2>1. ASSUME NEW c \in Configs, Reload(c)
        PROVE  WatchdogTypeOK' /\ FacadeInv'
    BY <2>1, ReloadState DEF Reload
  <2>2. CASE TakeOver
    BY <2>2, EnforceMasterRoleState DEF TakeOver, FacadeInv
  <2>3. CASE KeepLock
    BY <2>3, KeepLockState DEF KeepLock
  <2>4. CASE Demote \/ Recover
    BY <2>4, ClosedState DEF Demote, Recover, FacadeInv, FacadeOK
  <2>5. CASE UNCHANGED watchdogVars
    BY <2>5 DEF watchdogVars, FacadeInv
  <2>. QED
    BY <2>1, <2>2, <2>3, <2>4, <2>5 DEF WatchdogNext
<1>. QED
  BY <1>1, <1>2, PTL DEF WatchdogSpec

(* No device that can be disarmed is armed but the one that Patroni holds open and
   keeps alive (NoStrayDevice), if the devices can be set to the timeouts. *)
THEOREM NoDeviceIsStray ==
    ASSUME TimeoutsCanBeSet
    PROVE  WatchdogSpec => []NoStrayDevice
<1>. DEFINE Inv == WatchdogTypeOK /\ FacadeInv
<1>1. WatchdogInit => Tidy(state)
  BY DEF WatchdogInit, Tidy
<1>2. Inv /\ Tidy(state) /\ [WatchdogNext]_watchdogVars => Tidy(state)'
  <2>. SUFFICES ASSUME WatchdogTypeOK, FacadeInv, Tidy(state), [WatchdogNext]_watchdogVars
                PROVE  Tidy(state')
    BY DEF Tidy
  <2>. USE DEF WatchdogTypeOK
  <2>1. ASSUME NEW c \in Configs, Reload(c)
        PROVE  Tidy(state')
    BY <2>1, ReloadState
  <2>2. CASE TakeOver
    BY <2>2, TimeoutsCanBeSet, EnforceMasterRoleState DEF TakeOver, FacadeInv
  <2>3. CASE KeepLock
    BY <2>3, TimeoutsCanBeSet, KeepLockState
  <2>4. CASE Demote \/ Recover
    BY <2>4, ClosedState DEF Demote, Recover
  <2>5. CASE UNCHANGED watchdogVars
    BY <2>5 DEF watchdogVars
  <2>. QED
    BY <2>1, <2>2, <2>3, <2>4, <2>5 DEF WatchdogNext
<1>3. Tidy(state) => NoStrayDevice
  BY DEF Tidy, NoStrayDevice
<1>. QED
  BY <1>1, <1>2, <1>3, WatchdogTypes, PTL DEF WatchdogSpec

(* A required watchdog guards the primary, and fires before the TTL is over, once a
   cycle of the leader has applied the configuration (PrimaryIsGuarded). *)
THEOREM GuardedPrimary ==
    ASSUME TimeoutCanBeSet, SameTimeouts
    PROVE  WatchdogSpec => []PrimaryIsGuarded
<1>. DEFINE Inv == WatchdogTypeOK /\ FacadeInv
<1>1. WatchdogInit => GuardInv
  BY DEF WatchdogInit, GuardInv, TimeoutOK
<1>2. Inv /\ GuardInv /\ [WatchdogNext]_watchdogVars => GuardInv'
  <2>. SUFFICES ASSUME WatchdogTypeOK, FacadeInv, GuardInv, [WatchdogNext]_watchdogVars
                PROVE  GuardInv'
    OBVIOUS
  <2>. USE DEF WatchdogTypeOK
  <2>1. ASSUME NEW c \in Configs, Reload(c)
        PROVE  GuardInv'
    BY <2>1, ReloadState DEF GuardInv, Reload
  <2>2. CASE TakeOver
    <3>1. /\ EnforceMasterRole(state, activeConfig) /\ UNCHANGED config
          /\ settled' = (activeConfig' = config)
      BY <2>2 DEF TakeOver
    <3>2. /\ primary' /\ config.mode = "required" => state'.isOpen
          /\ TimeoutOK(state')
      BY <3>1, TimeoutCanBeSet, SameTimeouts, EnforceMasterRoleState
      DEF FacadeInv, GuardInv
    <3>. QED
      BY <3>1, <3>2 DEF GuardInv, TimeoutOK, Applied
  <2>3. CASE KeepLock
    BY <2>3, TimeoutCanBeSet, SameTimeouts, KeepLockState DEF GuardInv
  <2>4. CASE Demote \/ Recover
    <3>1. /\ ~state'.isOpen /\ ~primary' /\ (active' => active)
          /\ UNCHANGED <<config, activeConfig, settled>>
      BY <2>4, ClosedState DEF Demote, Recover
    <3>. QED
      BY <3>1 DEF GuardInv, TimeoutOK, Applied
  <2>5. CASE UNCHANGED watchdogVars
    BY <2>5 DEF watchdogVars, GuardInv, TimeoutOK
  <2>. QED
    BY <2>1, <2>2, <2>3, <2>4, <2>5 DEF WatchdogNext
<1>3. Inv /\ GuardInv => PrimaryIsGuarded
  <2>. SUFFICES ASSUME WatchdogTypeOK, GuardInv, primary, settled, config.mode = "required"
                PROVE  Safe(state, config)
    BY DEF PrimaryIsGuarded
  <2>1. state.isOpen /\ state.timeout[state.impl] = Timeout(config)
    BY DEF GuardInv, TimeoutOK, WatchdogTypeOK
  <2>. QED
    BY <2>1, TimeoutType DEF Safe, WatchdogTypeOK
<1>. QED
  BY <1>1, <1>2, <1>3, WatchdogTypes, PTL DEF WatchdogSpec

-----------------------------------------------------------------------------
(* The parameters of Postgres. *)

LEMMA ParamsMembers ==
    ASSUME ParamsTypeOK
    PROVE  /\ dcsConfig \in ParameterSets /\ dynamicConfig \in ParameterSets
           /\ serverParameters \in ParameterSets /\ fileConf \in ParameterSets
           /\ settings \in ParameterSets /\ effective \in ParameterSets
           /\ configsLeft \in 0..MaxConfigs /\ mishapsLeft \in 0..MaxParamMishaps
BY DEF ParamsTypeOK

LEMMA ConnsAreNumbers ==
    ASSUME NEW x \in Conns
    PROVE  x \in Int
BY DEF Conns

LEMMA OrderIsBoolean ==
    ASSUME NEW x \in Int, NEW y \in Int
    PROVE  (x >= y) \in BOOLEAN
OBVIOUS

LEMMA OneLess ==
    ASSUME NEW b \in Nat, NEW n \in 0..b, n > 0
    PROVE  n - 1 \in 0..b
OBVIOUS

(* Every step of the two threads keeps the parameters in their sets. *)
THEOREM ParametersTypes ==
    ParamsSpec => []ParamsTypeOK
<1>. USE DEF ParamsTypeOK
<1>c. NoChange \in Change /\ NoChange.params \in ParameterSets
  BY DEF NoChange, Change, ParameterSets, Conns, Work
<1>r. ASSUME NEW p \in ParameterSets, NEW n \in Conns
      PROVE  [p EXCEPT !.conns = n] \in ParameterSets
  BY <1>r DEF ParameterSets
<1>w. ASSUME NEW p \in ParameterSets, NEW q \in ParameterSets
      PROVE  [p EXCEPT !.work = q.work] \in ParameterSets /\ p.conns \in Conns
  BY <1>w DEF ParameterSets
<1>1. ParamsInit => ParamsTypeOK
  <2>. SUFFICES ASSUME ParamsInit PROVE ParamsTypeOK
    OBVIOUS
  <2>1. control \in Conns /\ NoChange.params.conns = 1
    BY DEF ParamsInit, NoChange, Conns
  <2>2. configsLeft \in 0..MaxConfigs /\ mishapsLeft \in 0..MaxParamMishaps
    BY ParameterBounds DEF ParamsInit
  <2>. QED
    BY <1>c, <2>1, <2>2 DEF ParamsInit
<1>2. ParamsTypeOK /\ [ParamsNext]_paramsVars => ParamsTypeOK'
  <2>. SUFFICES ASSUME ParamsTypeOK, [ParamsNext]_paramsVars PROVE ParamsTypeOK'
    OBVIOUS
  <2>. USE DEF external, serverSide, handler, status, mainThread, starter
  <2>m. ParamMishap => mishapsLeft' \in 0..MaxParamMishaps
    BY ParameterBounds, ParamsMembers, OneLess DEF ParamMishap
  <2>1. CASE EditConfig
    <3>1. configsLeft' \in 0..MaxConfigs
      BY <2>1, ParameterBounds, ParamsMembers, OneLess DEF EditConfig
    <3>. QED
      BY <2>1, <3>1 DEF EditConfig
  <2>2. CASE PostmasterCrash \/ ReplayParameterChange \/ Promoted
    <3>1. control' \in Conns
      BY <2>2, <1>w DEF PostmasterCrash, ReplayParameterChange, Promoted
    <3>2. postmaster' \in BOOLEAN
      <4>1. CASE ReplayParameterChange
        <5>1. PICK n \in Conns : postmaster' = (settings.conns >= n)
          BY <4>1 DEF ReplayParameterChange
        <5>2. settings.conns \in Int /\ n \in Int
          <6>1. settings \in ParameterSets
            BY ParamsMembers
          <6>2. settings.conns \in Conns
            BY <6>1, <1>w
          <6>. QED
            BY <5>1, <6>2, ConnsAreNumbers
        <5>3. (settings.conns >= n) \in BOOLEAN
          BY <5>2, OrderIsBoolean
        <5>. QED
          BY <5>1, <5>3
      <4>. QED
        BY <2>2, <4>1 DEF PostmasterCrash, Promoted
    <3>3. pgRole' \in {"master", "replica"} /\ mishapsLeft' \in 0..MaxParamMishaps
      BY <2>2, <2>m DEF PostmasterCrash, ReplayParameterChange, Promoted
    <3>. QED
      BY <2>2, <3>1, <3>2, <3>3 DEF PostmasterCrash, ReplayParameterChange, Promoted
  <2>3. CASE SetDynamicConfiguration \/ Sighup
    <3>1. PICK b \in BOOLEAN : BeginReload(b)
      BY <2>3 DEF SetDynamicConfiguration, Sighup
    <3>2. change' \in Change
      BY <1>c, <3>1 DEF BeginReload, Change
    <3>3. dynamicConfig' \in ParameterSets
      BY <2>3 DEF SetDynamicConfiguration, Sighup
    <3>4. missed' \in BOOLEAN
      BY <3>1 DEF BeginReload
    <3>. QED
      BY <3>1, <3>2, <3>3, <3>4 DEF BeginReload
  <2>4. CASE Compare
    <3>1. ComparedTo(CurrentlyInForce) \in Change
      BY DEF ComparedTo, CurrentlyInForce, Change
    <3>2. missed' \in BOOLEAN
      BY <2>4 DEF Compare
    <3>. QED
      BY <2>4, <3>1, <3>2 DEF Compare
  <2>5. CASE CompareFails
    <3>1. mishapsLeft' \in 0..MaxParamMishaps
      BY <2>5, <2>m DEF CompareFails
    <3>. QED
      BY <1>c, <2>5, <3>1 DEF CompareFails
  <2>6. CASE SetPendingRestart
    <3>1. pendingRestart' \in BOOLEAN /\ missed' \in BOOLEAN
      BY <2>6 DEF SetPendingRestart, Change
    <3>. QED
      BY <2>6, <3>1 DEF SetPendingRestart
  <2>7. CASE TakeParameters
    <3>1. serverParameters' \in ParameterSets /\ fileConf' \in ParameterSets
      BY <2>7 DEF TakeParameters, Change
    <3>2. change' \in Change /\ mainPc' \in {"loop", "reload"}
      BY <1>c, <2>7 DEF TakeParameters
    <3>3. missed' \in BOOLEAN
      BY <2>7 DEF TakeParameters
    <3>. QED
      BY <2>7, <3>1, <3>2, <3>3 DEF TakeParameters
  <2>8. ASSUME NEW c \in ParameterSets, Reread(c)
        PROVE  settings' \in ParameterSets /\ pgPending' \in BOOLEAN
    BY <1>w, <2>8 DEF Reread
  <2>9. CASE SignalReload
    <3>1. settings' \in ParameterSets /\ pgPending' \in BOOLEAN
      BY <2>8, <2>9 DEF SignalReload
    <3>2. missed' \in BOOLEAN
      BY <2>9 DEF SignalReload
    <3>. QED
      BY <2>9, <3>1, <3>2 DEF SignalReload
  <2>10. CASE Recheck
    <3>1. pendingRestart' \in BOOLEAN /\ missed' \in BOOLEAN
      BY <2>10 DEF Recheck
    <3>2. mishapsLeft' \in 0..MaxParamMishaps
      BY <2>10, <2>m DEF Recheck
    <3>. QED
      BY <1>c, <2>10, <3>1, <3>2 DEF Recheck
  <2>11. CASE RewriteAndReload
    <3>1. settings' \in ParameterSets /\ pgPending' \in BOOLEAN
      BY <2>8, <2>11 DEF RewriteAndReload
    <3>. QED
      BY <2>11, <3>1 DEF RewriteAndReload
  <2>12. CASE OrderRestart \/ StopForRestart \/ StartAgain \/ BeginStart
    <3>1. missed' \in BOOLEAN
      BY <2>12 DEF OrderRestart, StopForRestart, StartAgain, BeginStart
    <3>. QED
      BY <2>12, <3>1 DEF OrderRestart, StopForRestart, StartAgain, BeginStart
  <2>13. CASE EffectiveConfiguration
    <3>1. Raised(serverParameters, control) \in ParameterSets
      BY <1>r, <1>w DEF Raised
    <3>2. effective' \in ParameterSets
      BY <2>13, <3>1 DEF EffectiveConfiguration
    <3>3. mishapsLeft' \in 0..MaxParamMishaps
      BY <2>13, <2>m DEF EffectiveConfiguration
    <3>4. pendingRestart' \in BOOLEAN /\ missed' \in BOOLEAN
      BY <2>13 DEF EffectiveConfiguration
    <3>. QED
      BY <2>13, <3>2, <3>3, <3>4 DEF EffectiveConfiguration
  <2>14. CASE WritePostgresqlConf
    <3>1. missed' \in BOOLEAN
      BY <2>14 DEF WritePostgresqlConf
    <3>. QED
      BY <2>14, <3>1 DEF WritePostgresqlConf
  <2>15. CASE Launch
    <3>1. settings' \in ParameterSets /\ control' \in Conns
      BY <1>w, <2>15 DEF Launch, serverSide
    <3>2. {postmaster', pgPending', missed'} \subseteq BOOLEAN
      BY <2>15 DEF Launch, serverSide
    <3>. QED
      BY <2>15, <3>1, <3>2 DEF Launch
  <2>16. CASE WaitForStartup
    <3>1. missed' \in BOOLEAN
      BY <2>16 DEF WaitForStartup
    <3>. QED
      BY <2>16, <3>1 DEF WaitForStartup
  <2>17. CASE UNCHANGED paramsVars
    BY <2>17 DEF paramsVars
  <2>. QED
    BY <2>1, <2>2, <2>3, <2>4, <2>5, <2>6, <2>7, <2>9, <2>10, <2>11, <2>12, <2>13,
       <2>14, <2>15, <2>16, <2>17 DEF ParamsNext, ReloadStep, StartStep
<1>. QED
  BY <1>1, <1>2, PTL DEF ParamsSpec

(* The values in force are those of the configuration, but for what waits for a restart. *)
InForce ==
    /\ settings.work = dynamicConfig.work
    /\ settings.conns # dynamicConfig.conns => pendingRestart

(* A postmaster is started only where there is none, the state running lasts while it
   lives, and it runs with the postgresql.conf it was last told to read. *)
ServerInv ==
    /\ execPc \in {"start", "effective", "write", "launch"} => ~postmaster
    /\ execPc = "idle" /\ postmaster => pgState = "running"
    /\ postmaster /\ mainPc # "reload" => settings.work = fileConf.work

(* A reload that meets no start compares with what stays in force, and each of its steps
   brings it closer to the configuration. *)
ReloadInv ==
    ~missed /\ mainPc # "loop" =>
        /\ execPc = "idle"
        /\ mainPc \in {"flag", "write"} => change.params = dynamicConfig
        /\ mainPc \in {"flag", "write"} /\ postmaster =>
             /\ change.confChanged = (settings # dynamicConfig)
             /\ change.pending = (settings.conns # dynamicConfig.conns)
        /\ mainPc = "write" => pendingRestart = change.pending
        /\ mainPc = "reload" /\ postmaster =>
             /\ fileConf.work = dynamicConfig.work
             /\ settings.conns # dynamicConfig.conns =>
                  fileConf.conns = dynamicConfig.conns /\ pendingRestart
        /\ mainPc = "recheck" /\ postmaster =>
             /\ InForce
             /\ settings.conns # dynamicConfig.conns => pgPending

(* A start uses what the last reload has left, and flags what it had to raise. *)
StartInv ==
    ~missed =>
        /\ mainPc \in {"loop", "reload", "recheck"} => serverParameters = dynamicConfig
        /\ mainPc = "loop" /\ execPc \in {"write", "launch", "wait"} =>
             /\ effective.work = dynamicConfig.work
             /\ effective.conns # dynamicConfig.conns => pendingRestart
        /\ mainPc = "loop" /\ execPc = "launch" => fileConf = effective
        /\ mainPc = "loop" /\ execPc \in {"wait", "idle"} /\ postmaster => InForce

ParamsInv == ServerInv /\ ReloadInv /\ StartInv

(* The two values of a set of parameters, and what a change of one leaves. *)
LEMMA ParameterParts ==
    ASSUME NEW p \in ParameterSets, NEW q \in ParameterSets
    PROVE  /\ p = q <=> p.conns = q.conns /\ p.work = q.work
           /\ [p EXCEPT !.work = q.work].conns = p.conns
           /\ [p EXCEPT !.work = q.work].work = q.work
           /\ \A n \in Conns : [p EXCEPT !.conns = n].work = p.work
BY DEF ParameterSets

LEMMA RaisedWork ==
    ASSUME NEW p \in ParameterSets, NEW n \in Conns
    PROVE  Raised(p, n).work = p.work
BY DEF Raised, ParameterSets

LEMMA RereadEffect ==
    ASSUME ParamsTypeOK, NEW c \in ParameterSets, Reread(c), postmaster
    PROVE  /\ settings'.work = c.work /\ settings'.conns = settings.conns
           /\ pgPending' = (settings.conns # c.conns)
<1>1. settings \in ParameterSets
  BY ParamsMembers
<1>2. /\ settings' = [settings EXCEPT !.work = c.work]
      /\ pgPending' = (settings.conns # c.conns)
  BY DEF Reread
<1>3. settings'.work = c.work /\ settings'.conns = settings.conns
  BY <1>1, <1>2 DEF ParameterSets
<1>. QED
  BY <1>2, <1>3

LEMMA ReloadKeepsParams ==
    ASSUME ParamsTypeOK, ParamsInv, SetDynamicConfiguration \/ Sighup \/ ReloadStep
    PROVE  ParamsInv'
<1>. USE DEF external, serverSide, handler, status, mainThread, starter
<1>. USE DEF ParamsInv, ServerInv, ReloadInv, StartInv, InForce
<1>1. CASE SetDynamicConfiguration \/ Sighup
  <2>1. PICK b \in BOOLEAN : BeginReload(b)
    BY <1>1 DEF SetDynamicConfiguration, Sighup
  <2>2. mainPc' = "compare" /\ (~missed' => execPc = "idle") /\ mainPc = "loop"
    BY <2>1 DEF BeginReload
  <2>3. UNCHANGED <<execPc, postmaster, pgState, settings, fileConf>>
    BY <2>1 DEF BeginReload
  <2>. QED
    BY <2>2, <2>3
<1>2. CASE Compare
  <2>1. change' = ComparedTo(settings)
    BY <1>2 DEF Compare, CurrentlyInForce
  <2>2. /\ change'.params = dynamicConfig
        /\ change'.confChanged = (pgState = "running" /\ settings # dynamicConfig)
        /\ change'.pending = (pgState = "running" /\ settings.conns # dynamicConfig.conns)
    BY <2>1 DEF ComparedTo, ParamsTypeOK, Change
  <2>. QED
    BY <1>2, <2>2 DEF Compare
<1>3. CASE CompareFails
  BY <1>3 DEF CompareFails
<1>4. CASE SetPendingRestart
  BY <1>4 DEF SetPendingRestart
<1>5. CASE TakeParameters
  <2>1. settings = dynamicConfig
          <=> settings.conns = dynamicConfig.conns /\ settings.work = dynamicConfig.work
    BY ParameterParts DEF ParamsTypeOK
  <2>. QED
    BY <1>5, <2>1 DEF TakeParameters
<1>6. CASE SignalReload
  <2>1. postmaster => /\ settings'.work = fileConf.work /\ settings'.conns = settings.conns
                      /\ pgPending' = (settings.conns # fileConf.conns)
    BY <1>6, RereadEffect DEF SignalReload, ParamsTypeOK
  <2>. QED
    BY <1>6, <2>1 DEF SignalReload
<1>7. CASE Recheck
  BY <1>7 DEF Recheck
<1>. QED
  BY <1>1, <1>2, <1>3, <1>4, <1>5, <1>6, <1>7 DEF ReloadStep

LEMMA StartKeepsParams ==
    ASSUME ParamsTypeOK, ParamsInv, OrderRestart \/ StartAgain \/ StartStep
    PROVE  ParamsInv'
<1>. USE DEF external, serverSide, handler, status, mainThread, starter
<1>. USE DEF ParamsInv, ServerInv, ReloadInv, StartInv, InForce
<1>1. CASE OrderRestart
  BY <1>1 DEF OrderRestart
<1>2. CASE StartAgain
  BY <1>2 DEF StartAgain
<1>3. CASE StopForRestart
  BY <1>3 DEF StopForRestart
<1>4. CASE BeginStart
  BY <1>4 DEF BeginStart
<1>5. CASE EffectiveConfiguration
  <2>1. effective'.work = serverParameters.work
    BY <1>5, ParamsMembers, RaisedWork DEF EffectiveConfiguration, ParamsTypeOK
  <2>2. effective'.conns # serverParameters.conns => pendingRestart'
    BY <1>5 DEF EffectiveConfiguration
  <2>. QED
    BY <1>5, <2>1, <2>2 DEF EffectiveConfiguration
<1>6. CASE WritePostgresqlConf
  BY <1>6 DEF WritePostgresqlConf
<1>7. CASE Launch
  <2>1. postmaster' => settings' = [effective EXCEPT !.work = fileConf.work]
    BY <1>7 DEF Launch
  <2>2. postmaster' => settings'.work = fileConf.work /\ settings'.conns = effective.conns
    <3>1. effective \in ParameterSets
      BY ParamsMembers
    <3>. QED
      BY <2>1, <3>1 DEF ParameterSets
  <2>. QED
    BY <1>7, <2>2 DEF Launch
<1>8. CASE WaitForStartup
  BY <1>8 DEF WaitForStartup
<1>. QED
  BY <1>1, <1>2, <1>3, <1>4, <1>5, <1>6, <1>7, <1>8 DEF StartStep

(* The steps of both threads lead from one state to the next that a reload or a start may
   rely on. *)
THEOREM ParametersInductive ==
    ParamsSpec => []ParamsInv
<1>. USE DEF external, serverSide, handler, status, mainThread, starter
<1>1. ParamsInit => ParamsInv
  BY DEF ParamsInit, ParamsInv, ServerInv, ReloadInv, StartInv, InForce
<1>2. ParamsTypeOK /\ ParamsInv /\ [ParamsNext]_paramsVars => ParamsInv'
  <2>. SUFFICES ASSUME ParamsTypeOK, ParamsInv, [ParamsNext]_paramsVars PROVE ParamsInv'
    OBVIOUS
  <2>. USE DEF ParamsInv, ServerInv, ReloadInv, StartInv, InForce
  <2>1. CASE EditConfig
    BY <2>1 DEF EditConfig
  <2>2. CASE PostmasterCrash
    BY <2>2 DEF PostmasterCrash
  <2>3. CASE ReplayParameterChange
    BY <2>3 DEF ReplayParameterChange
  <2>4. CASE Promoted
    BY <2>4 DEF Promoted
  <2>5. CASE SetDynamicConfiguration \/ Sighup \/ ReloadStep
    BY <2>5, ReloadKeepsParams
  <2>6. CASE RewriteAndReload
    <3>1. /\ settings'.work = serverParameters.work /\ settings'.conns = settings.conns
      BY <2>6, RereadEffect DEF RewriteAndReload, ParamsTypeOK
    <3>. QED
      BY <2>6, <3>1 DEF RewriteAndReload
  <2>7. CASE OrderRestart \/ StartAgain \/ StartStep
    BY <2>7, StartKeepsParams
  <2>8. CASE UNCHANGED paramsVars
    BY <2>8 DEF paramsVars
  <2>. QED
    BY <2>1, <2>2, <2>3, <2>4, <2>5, <2>6, <2>7, <2>8 DEF ParamsNext
<1>. QED
  BY <1>1, <1>2, ParametersTypes, PTL DEF ParamsSpec

(* A configuration taken over by a reload that met no start is in force once both threads
   rest, or pending_restart says what is not, whatever restarts, crashes and changes on
   the primary came between. *)
THEOREM ConfigurationIsInForce ==
    ParamsSpec => []TakenOrFlagged
<1>1. ParamsInv => TakenOrFlagged
  BY DEF ParamsInv, StartInv, InForce, TakenOrFlagged, Settled
<1>. QED
  BY <1>1, ParametersInductive, PTL

-----------------------------------------------------------------------------
(* The member that a standby follows. *)

(* The copy of the settings, while the time stamps vouch for it, is what is in force;
   up to version 11 it is read from the file, and what is in force changes with the
   postmaster alone. Version 13 takes over the file without a restart, which the copy
   does not see, but then a mismatch orders none. *)
CopyIsInForce ==
    fresh /\ ~blind /\ version < 13
        => current = inForce /\ (version = 11 => fileConninfo = inForce)

LEMMA FollowConstants ==
    /\ None \in Connections
    /\ \A u \in Upstreams : u \in Connections
    /\ \A n \in 0..MaxMoves : n > 0 => n - 1 \in 0..MaxMoves
    /\ \A n \in 0..MaxFollowMishaps : n > 0 => n - 1 \in 0..MaxFollowMishaps
BY FollowAssumption DEF Connections

(* Every variable keeps its type. *)
THEOREM FollowTypes == FollowSpec => []FollowTypeOK
<1>1. FollowInit => FollowTypeOK
  <2>. SUFFICES ASSUME FollowInit PROVE FollowTypeOK
    OBVIOUS
  <2>. USE DEF FollowInit
  <2>1. /\ version \in Versions /\ up \subseteq Upstreams
        /\ moves \in 0..MaxMoves /\ followMishaps \in 0..MaxFollowMishaps
    BY FollowAssumption
  <2>2. wanted \in Connections /\ None \in Connections
    BY FollowConstants
  <2>3. {wanted, fileConninfo, recoveryParams, passfile, inForce, receiver, current, target}
          \subseteq Connections
    BY <2>2
  <2>4. view \in Views
    BY <2>2 DEF Views
  <2>. QED
    BY <2>1, <2>3, <2>4 DEF FollowTypeOK
<1>2. FollowTypeOK /\ [FollowNext]_followVars => FollowTypeOK'
  <2>. SUFFICES ASSUME FollowTypeOK, [FollowNext]_followVars PROVE FollowTypeOK'
    OBVIOUS
  <2>. USE FollowConstants
       DEF FollowTypeOK, Views, surroundings, files, server, cache, cycleVars, worker,
           FollowMishap
  <2>1. CASE Move
    BY <2>1 DEF Move
  <2>2. CASE Connect \/ ProcessHup
    BY <2>2 DEF Connect, ProcessHup
  <2>3. CASE PostgresDies \/ RestartOutside
    BY <2>3 DEF PostgresDies, RestartOutside
  <2>4. CASE PassfileChanges
    BY <2>4 DEF PassfileChanges
  <2>5. CASE PatroniRestarts
    BY <2>5 DEF PatroniRestarts
  <2>6. CASE RewriteConf \/ ReloadOutside
    <3>1. [view EXCEPT !.unchanged = FALSE] \in Views
      OBVIOUS
    <3>2. CASE RewriteConf
      BY <3>1, <3>2 DEF RewriteConf
    <3>3. CASE ReloadOutside
      BY <3>3 DEF ReloadOutside
    <3>. QED
      BY <2>6, <3>2, <3>3
  <2>7. CASE BeginCycle \/ RecoverByFollow \/ AbandonCycle
    <3>1. CASE BeginCycle
      <4>1. [node |-> wanted, receiver |-> receiver, unchanged |-> TRUE] \in Views
        OBVIOUS
      <4>. QED
        BY <3>1, <4>1 DEF BeginCycle
    <3>2. CASE RecoverByFollow \/ AbandonCycle
      BY <3>2 DEF RecoverByFollow, AbandonCycle
    <3>. QED
      BY <2>7, <3>1, <3>2
  <2>8. CASE CheckCached \/ CheckAnew
    <3>1. view.node \in Connections /\ view.unchanged \in BOOLEAN /\ Read \in Connections
      BY DEF Read
    <3>2. ASSUME NEW conf, NEW stamp \in BOOLEAN, Decide(conf, stamp)
          PROVE  /\ {fileConninfo', recoveryParams', passfile', inForce', receiver', target'}
                      \subseteq Connections
                 /\ {recoveryConf', running', hupPending', fresh', passFresh'} \subseteq BOOLEAN
                 /\ followPc' \in {"idle", "write", "stop", "start"}
      <4>1. CASE KeepFollowing /\ fresh' = stamp
        BY <3>1, <4>1 DEF KeepFollowing
      <4>2. CASE FollowByReload /\ fresh' = FALSE
        BY <3>1, <4>2 DEF FollowByReload
      <4>3. CASE FollowByRestart /\ UNCHANGED recoveryConf /\ fresh' = stamp
        BY <3>1, <4>3 DEF FollowByRestart
      <4>4. FollowByRestart => UNCHANGED recoveryConf
        BY DEF FollowByRestart
      <4>. QED
        BY <3>2, <4>1, <4>2, <4>3, <4>4 DEF Decide
    <3>3. CASE CheckCached
      BY <3>2, <3>3 DEF CheckCached
    <3>4. CASE CheckAnew
      BY <3>1, <3>2, <3>4 DEF CheckAnew
    <3>. QED
      BY <2>8, <3>3, <3>4
  <2>9. CASE CheckFails
    BY <2>9 DEF CheckFails, FollowByRestart
  <2>10. CASE WriteRecoveryConf
    BY <2>10 DEF WriteRecoveryConf
  <2>11. CASE FollowStop
    BY <2>11 DEF FollowStop
  <2>12. CASE FollowStart
    BY <2>12 DEF FollowStart
  <2>13. CASE UNCHANGED followVars
    BY <2>13 DEF followVars
  <2>. QED
    BY <2>1, <2>2, <2>3, <2>4, <2>5, <2>6, <2>7, <2>8, <2>9, <2>10, <2>11, <2>12, <2>13
    DEF FollowNext, FollowCycle, FollowStep, Postgres
<1>. QED
  BY <1>1, <1>2, PTL DEF FollowSpec

(* The copy of the settings is never trusted beyond what is in force. *)
THEOREM CopyInductive == FollowSpec => []CopyIsInForce
<1>1. FollowInit => CopyIsInForce
  BY DEF FollowInit, CopyIsInForce
<1>2. FollowTypeOK /\ CopyIsInForce /\ [FollowNext]_followVars => CopyIsInForce'
  <2>. SUFFICES ASSUME FollowTypeOK, CopyIsInForce, [FollowNext]_followVars
                PROVE  CopyIsInForce'
    OBVIOUS
  <2>. USE DEF CopyIsInForce, surroundings, files, server, cache, cycleVars, worker
  <2>1. version \in {11, 12, 13}
    BY FollowAssumption DEF FollowTypeOK
  <2>2. CASE Move \/ Connect \/ PostgresDies \/ RestartOutside \/ PassfileChanges
    BY <2>2 DEF Move, Connect, PostgresDies, RestartOutside, PassfileChanges
  <2>3. CASE ProcessHup
    BY <2>3 DEF ProcessHup
  <2>4. CASE PatroniRestarts \/ RewriteConf \/ ReloadOutside
    BY <2>4 DEF PatroniRestarts, RewriteConf, ReloadOutside
  <2>5. CASE BeginCycle \/ RecoverByFollow \/ AbandonCycle
    BY <2>5 DEF BeginCycle, RecoverByFollow, AbandonCycle
  <2>6. ASSUME NEW conf, NEW stamp \in BOOLEAN, Decide(conf, stamp)
        PROVE  /\ inForce' = inForce
               /\ fresh' => fresh' = stamp /\ fileConninfo' = fileConninfo
    BY <2>6 DEF Decide, KeepFollowing, FollowByReload, FollowByRestart
  <2>7. CASE CheckCached
    BY <2>6, <2>7 DEF CheckCached, CacheHolds
  <2>8. CASE CheckAnew
    <3>1. view.unchanged \in BOOLEAN
      BY DEF FollowTypeOK, Views
    <3>2. /\ current' = Read /\ inForce' = inForce /\ version' = version
          /\ fresh' => fileConninfo' = fileConninfo
          /\ ~blind' => version = 12 \/ fileConninfo = inForce
      BY <2>6, <2>8, <3>1 DEF CheckAnew
    <3>. QED
      BY <2>1, <3>2 DEF Read
  <2>9. CASE CheckFails
    BY <2>9 DEF CheckFails, FollowByRestart
  <2>10. CASE WriteRecoveryConf
    BY <2>10 DEF WriteRecoveryConf
  <2>11. CASE FollowStop
    BY <2>11 DEF FollowStop
  <2>12. CASE FollowStart
    BY <2>12 DEF FollowStart
  <2>13. CASE UNCHANGED followVars
    BY <2>13 DEF followVars
  <2>. QED
    BY <2>2, <2>3, <2>4, <2>5, <2>7, <2>8, <2>9, <2>10, <2>11, <2>12, <2>13
    DEF FollowNext, FollowCycle, FollowStep, Postgres
<1>. QED
  BY <1>1, <1>2, FollowTypes, PTL DEF FollowSpec

(* A standby that streams from the member it is to follow, with settings and a password
   file that let it connect again, is not restarted by the comparison of the settings
   (NoNeedlessRestart). *)
THEOREM NeedlessRestartsDoNotHappen == FollowSpec => NoNeedlessRestart
<1>. DEFINE Step == CheckCached \/ CheckAnew =>
       ~(/\ recoveryConf /\ ~blind'
         /\ view.node # None /\ view.receiver \in {None, receiver}
         /\ view.node = receiver /\ view.node = inForce /\ view.node = passfile
         /\ followPc' = "write")
<1>1. FollowTypeOK /\ CopyIsInForce => Step
  <2>. SUFFICES ASSUME FollowTypeOK, CopyIsInForce, CheckCached \/ CheckAnew,
                       recoveryConf, ~blind',
                       view.node # None, view.receiver \in {None, receiver},
                       view.node = receiver, view.node = inForce, view.node = passfile
                PROVE  followPc' # "write"
    OBVIOUS
  <2>1. version \in {11, 12, 13}
    BY FollowAssumption DEF FollowTypeOK
  <2>2. followPc = "idle"
    BY DEF CheckCached, CheckAnew
  <2>3. ConninfoMatches(inForce)
    BY DEF ConninfoMatches, CheckPassfile
  <2>4. ASSUME NEW conf, NEW stamp, Decide(conf, stamp), version < 13 => conf = inForce
        PROVE  followPc' # "write"
    <3>1. CASE KeepFollowing \/ FollowByReload
      BY <2>2, <3>1 DEF KeepFollowing, FollowByReload, worker
    <3>2. CASE ~ConninfoMatches(conf) /\ version < 13
      BY <2>3, <2>4, <3>2
    <3>. QED
      BY <2>4, <3>1, <3>2 DEF Decide
  <2>5. CASE CheckCached
    <3>1. Decide(current, TRUE) /\ fresh /\ blind' = blind
      BY <2>5 DEF CheckCached, CacheHolds
    <3>. QED
      BY <2>4, <3>1 DEF CopyIsInForce
  <2>6. CASE CheckAnew
    <3>1. /\ Decide(Read, view.unchanged)
          /\ ~blind' => version = 12 \/ fileConninfo = inForce
      BY <2>6 DEF CheckAnew
    <3>. QED
      BY <2>1, <2>4, <3>1 DEF Read
  <2>. QED
    BY <2>5, <2>6
<1>. QED
  BY <1>1, FollowTypes, CopyInductive, PTL DEF FollowSpec, NoNeedlessRestart
=============================================================================
