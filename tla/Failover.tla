------------------------------ MODULE Failover ------------------------------
(***************************************************************************)
(* Who takes the leader key when nobody has it, and how a switchover is    *)
(* asked for and carried out: Ha.is_healthiest_node, the failover key in   *)
(* the DCS, the requests of the REST API and of patronictl.                *)
(*                                                                         *)
(* The leader key is taken as module Ha proves it: it expires only when    *)
(* its owner accepts no writes, and only its owner does. A promotion and a *)
(* demotion are one step here. The REST API of a member answers as long as *)
(* its Postgres does; the statuses of all members are read at one moment.  *)
(* Left out: a standby cluster, a primary without the key during a pause,  *)
(* the back-off after a failed pre_promote.                                *)
(***************************************************************************)
EXTENDS Members, Integers, FiniteSets

CONSTANTS
    FirstLeader,    \* the leader at first
    NoFailover,     \* members with the nofailover tag
    Candidates,     \* members that requests name as the candidate
    MaximumLag,     \* maximum_lag_on_failover
    CheckTimeline,  \* check_timeline
    SlowRace,       \* a member may be slower than a whole term of another leader
    MaxPosition,    \* bound of the WAL positions
    MaxEvents       \* bound of what administrators do and of the failures

ASSUME FailoverAssumption ==
    /\ Candidates \subseteq Members
    /\ FirstLeader \in Members /\ NoFailover \subseteq Members \ {FirstLeader}
    /\ MaximumLag \in Nat /\ MaxPosition \in Nat /\ MaxEvents \in Nat
    /\ CheckTimeline \in BOOLEAN /\ SlowRace \in BOOLEAN

VARIABLES
    owner,       \* the DCS: owner of the leader key
    request,     \* the DCS: the failover key
    optime,      \* the DCS: last position published by a leader
    syncNames,   \* the DCS: the sync key; empty when synchronous mode is off
    paused,      \* the DCS: the cluster is paused
    synchronous, \* synchronous_mode
    unwatched,   \* members that require a watchdog and have none
    postgres,    \* what each member's Postgres is
    position,    \* its WAL position
    behind,      \* with check_timeline: members on an older timeline than the cluster's
    stage,       \* the HA loop of each member
    view,        \* the cluster as it has read it
    events       \* number of events so far

failoverVars == <<owner, request, optime, syncNames, paused, synchronous, unwatched,
                  postgres, position, behind, stage, view, events>>
failoverNodes == <<unwatched, postgres, position, behind>>

Someone == Members \cup {NoMember}

(* A request names the leader it is for, the candidate, or both. at: for now (no
   scheduled_at), or later, due or past by the clock. *)
Requests == [leader : Someone, candidate : Someone, at : {"now", "later", "due", "past"}]
NoRequest == [leader |-> NoMember, candidate |-> NoMember, at |-> "now"]

NewRequests ==
    {r \in Requests : r.at \in {"now", "later"} /\ r.candidate \in Candidates \cup {NoMember}}

SyncKeys == [leader : Someone, members : SUBSET Members]
NoSyncKey == [leader |-> NoMember, members |-> {}]

Unread == [request |-> NoRequest, fresh |-> TRUE, optime |-> 0, sync |-> NoSyncKey,
           paused |-> FALSE]

FailoverTypeOK ==
    /\ owner \in Someone /\ request \in Requests /\ syncNames \in SyncKeys
    /\ optime \in 0..MaxPosition
    /\ paused \in BOOLEAN /\ synchronous \in BOOLEAN
    /\ behind \subseteq Members /\ unwatched \subseteq Members
    /\ postgres \in [Members -> {"primary", "replica", "down"}]
    /\ position \in [Members -> 0..MaxPosition]
    /\ stage \in [Members -> {"idle", "read", "race", "won", "demoting"}]
    /\ view \in [Members -> [request : Requests, fresh : BOOLEAN,
                             optime : 0..MaxPosition, sync : SyncKeys,
                             paused : BOOLEAN]]
    /\ events \in 0..MaxEvents

FailoverInit ==
    /\ owner = FirstLeader /\ request = NoRequest /\ optime = 0
    /\ synchronous \in BOOLEAN
    /\ syncNames = IF synchronous THEN [leader |-> owner, members |-> {}] ELSE NoSyncKey
    /\ paused = FALSE /\ unwatched = {}
    /\ postgres = [m \in Members |-> IF m = owner THEN "primary" ELSE "replica"]
    /\ position = [m \in Members |-> 0] /\ behind = {}
    /\ stage = [m \in Members |-> "idle"] /\ view = [m \in Members |-> Unread]
    /\ events = 0

-----------------------------------------------------------------------------
(* The failover key. *)

(* manual_failover without an index overwrites whatever is there. Every write makes
   the index that others hold an old one. *)
Request(r) ==
    /\ request' = r
    /\ view' = [m \in Members |-> [view[m] EXCEPT !.fresh = stage[m] = "idle"]]

(* Mutant: the index is that of another key, so the write never matches. *)
NeverSwapped(m, r) == request

(* With the index that m has read the key is written only if nobody wrote it since. *)
Swapped(m, r) == IF view[m].fresh THEN r ELSE request

Present(r) == r.leader # NoMember \/ r.candidate # NoMember

(* The cycle of m ends and leaves this request behind. *)
EndStage(m, r) ==
    /\ stage' = [stage EXCEPT ![m] = "idle"]
    /\ request' = r
    /\ view' = [n \in Members |->
                  IF n = m THEN Unread
                  ELSE [view[n] EXCEPT !.fresh = @ /\ (r = request \/ stage[n] = "idle")]]

-----------------------------------------------------------------------------
(* The status of the members, as their REST APIs report it. *)

(* failover_limitation: reachable, no nofailover tag, a watchdog if one is required. *)
Unlimited(s) == postgres[s] # "down" /\ s \notin NoFailover /\ s \notin unwatched

(* Mutant: the lag behind the last published position is not looked at. *)
NeverLags(v, s) == FALSE

(* is_lagging, by the position in the cluster v that was read. *)
Lags(v, s) == v.optime - position[s] > MaximumLag

SyncAllows(v, s) == s = v.sync.leader \/ s \in v.sync.members

(* _is_healthiest_node *)
Healthiest(v, m, others, checkLag) ==
    /\ checkLag => ~Lags(v, m)
    /\ m \notin behind
    /\ \A s \in others \ (NoFailover \cup {m}) :
         Unlimited(s) =>
            /\ postgres[s] = "replica"
            /\ position[m] >= position[s] \/ (synchronous /\ s = v.sync.leader)

(* Ha.is_failover_possible *)
Possible(v, m, candidates) ==
    \E s \in candidates \ (NoFailover \cup {m}) :
        Unlimited(s) /\ ~Lags(v, s) /\ s \notin behind

(* Mutant: the others wait for the candidate whether it is healthy or not. *)
WaitForCandidate(v, m) ==
    LET r == v.request
    IN  \/ m = r.candidate
        \/ /\ ~v.paused
           /\ r.candidate = NoMember
           /\ IF m = r.leader
              THEN ~Possible(v, m, Members \ {r.candidate, r.leader})
              ELSE Healthiest(v, m, Members \ {r.leader}, FALSE)

(* Mutant: the former leader takes part like everybody else. *)
FormerLeaderRaces(v, m) ==
    LET r == v.request
    IN  \/ m = r.candidate
        \/ /\ ~v.paused
           /\ r.candidate # NoMember => ~Unlimited(r.candidate)
           /\ Healthiest(v, m, Members \ {r.leader}, FALSE)

(* manual_failover_process_no_leader: the candidate races; the others leave it to a
   healthy candidate; the former leader leaves it to anybody healthy. *)
RaceByRequest(v, m) ==
    LET r == v.request
    IN  \/ m = r.candidate
        \/ /\ ~v.paused
           /\ r.candidate # NoMember => ~Unlimited(r.candidate)
           /\ IF m = r.leader
              THEN ~Possible(v, m, Members \ {r.candidate, r.leader})
              ELSE Healthiest(v, m, Members \ {r.leader}, FALSE)

(* is_healthiest_node. During a pause only a request for now is followed. *)
TakesPart(v, m) ==
    /\ m \notin NoFailover
    /\ v.paused => Present(v.request) /\ v.request.at = "now"
    /\ IF Present(v.request)
       THEN RaceByRequest(v, m)
       ELSE /\ m \notin unwatched
            /\ IF synchronous /\ v.sync.leader # NoMember
               THEN /\ SyncAllows(v, m)
                    /\ Healthiest(v, m, {s \in Members : SyncAllows(v, s)}, TRUE)
               ELSE Healthiest(v, m, Members, TRUE)

-----------------------------------------------------------------------------
(* The HA loop. *)

Cluster == [request |-> request, fresh |-> TRUE, optime |-> optime, sync |-> syncNames,
            paused |-> paused]

(* process_unhealthy_cluster: nobody has the key. *)
JoinRace(m) ==
    /\ stage[m] = "idle" /\ postgres[m] # "down"
    /\ owner = NoMember
    /\ TakesPart(Cluster, m)
    /\ stage' = [stage EXCEPT ![m] = "race"]
    /\ view' = [view EXCEPT ![m] = [Unread EXCEPT !.request = request, !.paused = paused]]
    /\ UNCHANGED <<owner, request, optime, syncNames, paused, synchronous, failoverNodes, events>>

TakeKey(m) ==
    /\ stage[m] = "race"
    /\ IF owner = NoMember
       THEN /\ owner' = m
            /\ stage' = [stage EXCEPT ![m] = "won"]
            /\ UNCHANGED <<request, view>>
       ELSE EndStage(m, request) /\ UNCHANGED owner
    /\ UNCHANGED <<optime, syncNames, paused, synchronous, failoverNodes, events>>

BecomePrimary(m) ==
    /\ postgres' = [postgres EXCEPT ![m] = "primary"]
    /\ behind' = IF CheckTimeline THEN Members \ {m} ELSE {}
    /\ syncNames' = IF synchronous THEN [leader |-> m, members |-> {}] ELSE syncNames

(* With the key: the request that was followed is removed, whatever it is by now. In a
   pause it is kept for the candidate, without the leader. Then Postgres is promoted. *)
PromoteWinner(m) ==
    /\ stage[m] = "won"
    /\ LET r == view[m].request
       IN  EndStage(m, IF ~Present(r) THEN request
                       ELSE IF view[m].paused /\ r.leader # NoMember /\ r.candidate # NoMember
                       THEN Swapped(m, [r EXCEPT !.leader = NoMember])
                       ELSE NoRequest)
    /\ BecomePrimary(m)
    /\ UNCHANGED <<owner, optime, paused, synchronous, unwatched, position, events>>

(* The leader reads the cluster. *)
ReadAsLeader(m) ==
    /\ stage[m] = "idle" /\ postgres[m] # "down"
    /\ owner = m
    /\ stage' = [stage EXCEPT ![m] = "read"]
    /\ view' = [view EXCEPT ![m] = Cluster]
    /\ UNCHANGED <<owner, request, optime, syncNames, paused, synchronous, failoverNodes, events>>

(* Whom the leader would hand over to: the candidate, or any member; in synchronous mode
   only one that the sync key names. *)
Targets(v) ==
    LET c == v.request.candidate
    IN  IF synchronous
        THEN {s \in Members : SyncAllows(v, s) /\ (c # NoMember => SyncAllows(v, c))}
        ELSE {s \in Members : c \in {NoMember, s}}

ForMe(m) ==
    LET r == view[m].request
    IN  /\ r.leader \in {NoMember, m}
        /\ r.candidate # m
        /\ ~(r.candidate = NoMember /\ view[m].paused)
        /\ Possible(view[m], m, Targets(view[m]))

(* should_run_scheduled_action: what is scheduled waits for its time, and during a
   pause; what is past is removed unseen. *)
Waits(v) == v.request.at # "now" /\ (v.paused \/ v.request.at = "later")

(* The leader keeps the key, publishes its position, looks at the request
   (process_manual_failover_from_leader) and promotes what is not promoted yet. *)
KeepKey(m) ==
    /\ stage[m] = "read"
    /\ owner = m
    /\ view[m].paused => postgres[m] = "primary"
    /\ optime' = position[m]
    /\ LET r == view[m].request
           demotes == Present(r) /\ ~Waits(view[m]) /\ r.at # "past" /\ ForMe(m)
       IN  /\ IF demotes
              THEN stage' = [stage EXCEPT ![m] = "demoting"] /\ UNCHANGED <<request, view>>
              ELSE EndStage(m, IF Present(r) /\ ~Waits(view[m]) THEN Swapped(m, NoRequest)
                               ELSE request)
           /\ IF ~demotes /\ postgres[m] = "replica"
              THEN BecomePrimary(m)
              ELSE UNCHANGED <<syncNames, postgres, behind>>
    /\ UNCHANGED <<owner, paused, synchronous, unwatched, position, events>>

(* update_lock fails: the key has expired since it was read. *)
LosesKey(m) ==
    /\ stage[m] = "read"
    /\ owner # m
    /\ EndStage(m, request)
    /\ UNCHANGED <<owner, optime, syncNames, paused, synchronous, failoverNodes, events>>

(* The loop is slower than the leader key lives, or than another leader needs for a
   whole term: left out unless SlowRace. *)
Racing == \E m \in Members : stage[m] \in {"race", "won"}

(* A member that lost its Postgres while it had the key gives it back in a pause, unless
   it is the candidate of a request. *)
GiveBackInPause(m) ==
    /\ stage[m] = "read"
    /\ owner = m /\ view[m].paused /\ postgres[m] = "replica"
    /\ owner' = IF view[m].request.candidate = m THEN m ELSE NoMember
    /\ owner' = NoMember /\ ~SlowRace => ~Racing
    /\ EndStage(m, request)
    /\ UNCHANGED <<optime, syncNames, paused, synchronous, failoverNodes, events>>

(* demote('graceful'): a clean stop, then the key is released with the position of the
   shutdown checkpoint. *)
HandOver(m) ==
    /\ stage[m] = "demoting"
    /\ ~SlowRace => ~Racing
    /\ postgres' = [postgres EXCEPT ![m] = "replica"]
    /\ owner' = NoMember /\ optime' = position[m]
    /\ EndStage(m, request)
    /\ UNCHANGED <<syncNames, paused, synchronous, unwatched, position, behind,
                   events>>

-----------------------------------------------------------------------------
(* Requests. Each counts as an event. *)

Event ==
    /\ events < MaxEvents
    /\ events' = events + 1

(* RestApiHandler.is_failover_possible, for what is not scheduled. *)
ApiAccepts(action, r) ==
    /\ r.leader # NoMember => owner = r.leader
    /\ action = "switchover" /\ synchronous /\ r.candidate # NoMember
         => r.candidate \in syncNames.members
    /\ LET candidates == IF r.candidate # NoMember THEN {r.candidate}
                         ELSE IF synchronous THEN syncNames.members
                         ELSE Members \ {owner}
       IN  \E s \in candidates : Unlimited(s)

(* do_POST_failover, do_POST_switchover: a failover is to a specific candidate, a
   switchover from a specific leader, and only that can be scheduled. *)
PostRequest(action, r) ==
    /\ Event
    /\ action = "failover" => r.candidate # NoMember
    /\ action = "switchover" => r.leader # NoMember
    /\ r.at # "now" => r.leader # NoMember /\ ~paused
    /\ paused => r.candidate # NoMember
    /\ r.at = "now" => ApiAccepts(action, r)
    /\ Request(r)
    /\ UNCHANGED <<owner, optime, syncNames, paused, synchronous, failoverNodes, stage>>

(* patronictl when no REST API answers: its own checks only, then it writes the key. *)
CtlRequest(r) ==
    /\ Event
    /\ owner # NoMember => r.leader = owner
    /\ owner = NoMember => r.leader = NoMember /\ r.candidate # NoMember
    /\ r.candidate # NoMember => r.candidate \notin NoFailover \cup {r.leader}
    /\ r.at # "now" => ~paused
    /\ Request(r)
    /\ UNCHANGED <<owner, optime, syncNames, paused, synchronous, failoverNodes, stage>>

(* DELETE /switchover and patronictl flush discard what is scheduled. *)
Scheduled == request.at # "now"

FlushRequest ==
    /\ Event
    /\ Scheduled
    /\ Request(NoRequest)
    /\ UNCHANGED <<owner, optime, syncNames, paused, synchronous, failoverNodes, stage>>

(* The clock moves on towards a scheduled request and past it. *)
TimePasses ==
    /\ request.at \in {"later", "due"}
    /\ request' = [request EXCEPT !.at = IF @ = "later" THEN "due" ELSE "past"]
    /\ view' = [m \in Members |->
                  IF view[m].request.at \in {"later", "due"} /\ view[m].fresh
                  THEN [view[m] EXCEPT !.request.at = IF @ = "later" THEN "due" ELSE "past"]
                  ELSE view[m]]
    /\ UNCHANGED <<owner, optime, syncNames, paused, synchronous, failoverNodes,
                   stage, events>>

TogglePause ==
    /\ Event
    /\ paused' = ~paused
    /\ UNCHANGED <<owner, request, optime, syncNames, synchronous, failoverNodes,
                   stage, view>>

-----------------------------------------------------------------------------
(* Postgres, the watchdog and the DCS. *)

(* A member goes down with its Postgres. *)
Crash(m) ==
    /\ Event
    /\ postgres[m] # "down"
    /\ postgres' = [postgres EXCEPT ![m] = "down"]
    /\ EndStage(m, request)
    /\ UNCHANGED <<owner, optime, syncNames, paused, synchronous, unwatched,
                   position, behind>>

(* It comes back as a replica. *)
ComesBack(m) ==
    /\ postgres[m] = "down"
    /\ postgres' = [postgres EXCEPT ![m] = "replica"]
    /\ UNCHANGED <<owner, request, optime, syncNames, paused, synchronous,
                   unwatched, position, behind, stage, view, events>>

LosesWatchdog(m) ==
    /\ Event
    /\ unwatched' = unwatched \cup {m}
    /\ UNCHANGED <<owner, request, optime, syncNames, paused, synchronous,
                   postgres, position, behind, stage, view>>

(* A transaction on the primary; in synchronous mode the standbys that the sync key
   names receive it too. *)
Commits(m) ==
    /\ postgres[m] = "primary"
    /\ position[m] < MaxPosition
    /\ position' = [s \in Members |->
                      IF s = m \/ (s \in syncNames.members /\ postgres[s] = "replica"
                                                          /\ s \notin behind)
                      THEN position[m] + 1 ELSE position[s]]
    /\ UNCHANGED <<owner, request, optime, syncNames, paused, synchronous,
                   unwatched, postgres, behind, stage, view, events>>

(* A replica catches up with the primary, after pg_rewind if it is ahead of it. *)
Replicate(m) ==
    \E p \in Members :
        /\ postgres[p] = "primary" /\ postgres[m] = "replica"
        /\ position[m] # position[p] \/ m \in behind
        /\ position' = [position EXCEPT ![m] = position[p]]
        /\ behind' = behind \ {m}
        /\ UNCHANGED <<owner, request, optime, syncNames, paused, synchronous,
                       unwatched, postgres, stage, view, events>>

(* What process_sync_replication does (module SyncReplication): the primary names a
   standby that has all it has. *)
NameStandby(m) ==
    /\ synchronous /\ postgres[m] = "primary" /\ syncNames.leader = m
    /\ \E s \in Members \ {m} :
         /\ postgres[s] = "replica" /\ position[s] = position[m] /\ s \notin behind
         /\ syncNames' = [leader |-> m, members |-> {s}]
         /\ syncNames' # syncNames
    /\ UNCHANGED <<owner, request, optime, paused, synchronous, failoverNodes,
                   stage, view, events>>

(* The owner renews the key while it demotes. Racing: see HandOver. *)
KeyExpires ==
    /\ owner # NoMember
    /\ postgres[owner] # "primary" /\ stage[owner] # "demoting"
    /\ ~SlowRace => ~Racing
    /\ owner' = NoMember
    /\ UNCHANGED <<request, optime, syncNames, paused, synchronous, failoverNodes,
                   stage, view, events>>

-----------------------------------------------------------------------------
FailoverLoop(m) ==
    \/ JoinRace(m) \/ TakeKey(m) \/ PromoteWinner(m)
    \/ ReadAsLeader(m) \/ KeepKey(m) \/ LosesKey(m) \/ GiveBackInPause(m) \/ HandOver(m)

FailoverNext ==
    \/ \E m \in Members :
         \/ FailoverLoop(m)
         \/ Crash(m) \/ ComesBack(m) \/ LosesWatchdog(m)
         \/ Commits(m) \/ Replicate(m) \/ NameStandby(m)
    \/ \E r \in NewRequests :
         \/ \E action \in {"failover", "switchover"} : PostRequest(action, r)
         \/ CtlRequest(r)
    \/ FlushRequest \/ TimePasses \/ TogglePause \/ KeyExpires

(* Every member that is up keeps running its loop, and the DCS and the clock go on. *)
FailoverFairness ==
    /\ \A m \in Members : WF_failoverVars(FailoverLoop(m))
    /\ WF_failoverVars(KeyExpires)
    /\ WF_failoverVars(TimePasses)

FailoverSpec == FailoverInit /\ [][FailoverNext]_failoverVars
FailoverFairSpec == FailoverSpec /\ FailoverFairness

-----------------------------------------------------------------------------
(* An automatic failover loses no more than maximum_lag_on_failover of what a leader
   has last published: a member that wins the race without a request is not further
   behind than that, however old the position it has read. *)
LossIsBounded ==
    \A m \in Members :
        stage[m] = "won" /\ ~Present(view[m].request) => optime - position[m] <= MaximumLag

(* "If the scheduled action is in the far future, we shouldn't do anything and just
   return": a request for later does not let a member take over that lags more than an
   automatic failover allows. *)
LaterIsNotNow ==
    \A m \in Members :
        stage[m] = "won" /\ view[m].request.at = "later" => optime - position[m] <= MaximumLag

(* A member that could lead the cluster: it is up and allowed to, and not behind. *)
Electable(m) ==
    /\ Unlimited(m) /\ m \notin behind
    /\ optime - position[m] <= MaximumLag
    /\ synchronous /\ syncNames.leader # NoMember
         => m \in {syncNames.leader} \cup syncNames.members

(* A cluster without a leader gets one, if a member can lead it: not everybody leaves it
   to somebody else, whatever request is pending. *)
LeaderIsFound ==
    owner = NoMember ~> (owner # NoMember \/ paused \/ \A m \in Members : ~Electable(m))

(* A switchover that the leader has started ends with another leader, if nothing more
   happens: the leader steps down only for somebody who will take over. It comes back only
   when by then nobody else is close enough: it has judged the others by the position it
   had published a cycle ago, and its last writes count as well. *)
NobodyElse(m) == \A s \in Members \ {m} : Unlimited(s) => optime - position[s] > MaximumLag

Quiet ==
    events = MaxEvents /\ unwatched = {} /\ \A s \in Members : postgres[s] # "down"

SwitchoverPassesOn ==
    \A m \in Members :
        (stage[m] = "demoting" /\ view[m].fresh /\ Quiet)
            ~> (paused \/ (owner # NoMember /\ (owner = m => NobodyElse(m))))

(* A request does not stay: it is carried out or removed, or the cluster has no leader
   or is paused. *)
RequestIsAnswered ==
    Present(request) ~> (~Present(request) \/ owner = NoMember \/ paused)
=============================================================================
