------------------------------- MODULE MCNode -------------------------------
(* The services of one node for TLC: Bootstrap, Watchdog, Parameters, Following,
   Postmaster and AsyncExecutor. They share no state: a behaviour belongs to one
   of them, and the others stay in an initial state. *)
EXTENDS Bootstrap, Watchdog, Parameters, Following, Postmaster, AsyncExecutor, TLC

CONSTANTS m1, m2, d1, d2, w1, w2, r1

BothMembers == {m1, m2}
BothWorkers == {w1, w2}
OneRequest == {r1}

(* A device that can be disarmed, and one that cannot. *)
Able == [magicClose |-> TRUE, setTimeout |-> TRUE, default |-> 60, max |-> 65534]
AbleHardware == d1 :> Able @@ d2 :> [Able EXCEPT !.magicClose = FALSE]

WatchdogConfig(m, d, t, g, w) ==
    [mode |-> m, device |-> d, ttl |-> t, loopWait |-> w, margin |-> g]

(* Modes, devices and loop_wait change, the timeout does not: 30 - 5, or half of 50.
   With a loop_wait of 30 there is no slack. *)
SameTimeout ==
    {WatchdogConfig(m, d, 30, 5, w) : m \in Modes, d \in {d1, d2}, w \in {10, 30}}
        \cup {WatchdogConfig("required", d, 50, -1, 10) : d \in {d1, d2}}

VARIABLE part

Parts == {"bootstrap", "watchdog", "parameters", "following", "stop", "executor"}

(* The initial state in which a service rests. *)
Rests(p) ==
    CASE p = "bootstrap" -> initialize = Empty /\ ~kind.standby /\ ~kind.overwrites
      [] p = "watchdog" -> config = WatchdogConfig("off", d1, 30, 5, 10)
      [] p = "parameters" -> pgRole = "replica"
      [] p = "following" -> version = 13 /\ wanted = "a" /\ ~running
      [] p = "stop" -> connection /\ stopMode = "fast" /\ ~awaited
      [] p = "executor" -> leader = "nobody"

NodeInit ==
    /\ BootstrapInit /\ WatchdogInit /\ ParamsInit
    /\ FollowInit /\ StopInit /\ ExecutorInit
    /\ part \in Parts
    /\ \A p \in Parts \ {part} : Rests(p)

Only(p) ==
    /\ part = p /\ UNCHANGED part
    /\ p # "bootstrap" => UNCHANGED bootstrapVars
    /\ p # "watchdog" => UNCHANGED watchdogVars
    /\ p # "parameters" => UNCHANGED paramsVars
    /\ p # "following" => UNCHANGED followVars
    /\ p # "stop" => UNCHANGED stopVars
    /\ p # "executor" => UNCHANGED executorVars

NodeNext ==
    \/ Only("bootstrap") /\ BootstrapNext
    \/ Only("watchdog") /\ WatchdogNext
    \/ Only("parameters") /\ ParamsNext
    \/ Only("following") /\ FollowNext
    \/ Only("stop") /\ StopNext
    \/ Only("executor") /\ ExecutorNext

nodeVars == <<part, bootstrapVars, watchdogVars, paramsVars, followVars, stopVars,
              executorVars>>

NodeSpec == NodeInit /\ [][NodeNext]_nodeVars

(* The fairness of BootstrapFairSpec, ParamsSpec, FollowSpec and ExecutorFairSpec. *)
NodeFairSpec ==
    /\ NodeSpec
    /\ \A m \in Members :
          /\ WF_bootstrapVars(part = "bootstrap" /\ BootstrapCycle(m))
          /\ WF_bootstrapVars(part = "bootstrap" /\ Task(m))
          /\ WF_bootstrapVars(part = "bootstrap" /\ EndOfRecovery(m))
          /\ WF_bootstrapVars(part = "bootstrap" /\ StartPatroni(m))
    /\ WF_bootstrapVars(part = "bootstrap" /\ LeaderKeyExpires)
    /\ WF_paramsVars(part = "parameters" /\ ReloadStep)
    /\ WF_paramsVars(part = "parameters" /\ SetDynamicConfiguration)
    /\ WF_paramsVars(part = "parameters" /\ StartStep)
    /\ SF_paramsVars(part = "parameters" /\ StartAgain)
    /\ WF_followVars(part = "following" /\ FollowCycle)
    /\ WF_followVars(part = "following" /\ FollowStep)
    /\ WF_followVars(part = "following" /\ Connect)
    /\ WF_followVars(part = "following" /\ ProcessHup)
    /\ WF_executorVars(part = "executor" /\ CycleEnds)
    /\ \A w \in Workers :
          /\ SF_executorVars(part = "executor" /\ (Begin(w) \/ FuncReturns(w) \/ Finish(w)))
          /\ WF_executorVars(part = "executor" /\ (ResetIsCancelled(w) \/ ProcessEnds(w)))
    /\ \A r \in Requests : SF_executorVars(part = "executor" /\ RequestStep(r))

(* The temporal properties of the services, each of the service at work. *)


(* PostgresComesUp: a standby does not start for ever with values it cannot run with. *)
PostgresStartsAgain == part = "parameters" => PostgresComesUp

(* FollowsTheLeader: a mismatch of primary_conninfo is noticed in the end. *)
StandbyFollows == part = "following" => FollowsTheLeader

(* RequestsEnd: the thread of a request is not blocked for ever. *)
ExecutorRequestsEnd == part = "executor" => RequestsEnd
=============================================================================
