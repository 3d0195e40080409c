---------------------------- MODULE RewindProofs ----------------------------
(***************************************************************************)
(* Proofs about the rewind of a former leader, for any number of members,  *)
(* records and failures: pg_rewind copies only from a leader whose         *)
(* pg_control has its timeline, and nobody follows a leader whose WAL does *)
(* not continue its own.                                                   *)
(***************************************************************************)
EXTENDS Rewind, SequenceTheorems, FiniteSetTheorems, TLAPS

JobRecords == [kind : JobKinds, leader : Members \cup {NoMember}, ready : BOOLEAN]
RewindStates == {"INITIAL", "CHECKPOINT", "CHECK", "NEED", "NOT_NEED", "SUCCESS", "FAILED"}

RewindTypes ==
    /\ keyOwner \in Members \cup {NoMember}
    /\ status \in [Members -> [master : BOOLEAN, ready : BOOLEAN]]
    /\ server \in [Members -> Running \cup Stopped]
    /\ checkpointed \subseteq Members
    /\ rewind \in [Members -> RewindStates]
    /\ newCheckpoint \in [Members -> {"none", "running", "done", "failed"}]
    /\ job \in [Members -> JobRecords]

(* What a task relies on: one that writes the data directory has a server that is
   stopped, one that stops it does not find a primary, and what is being promoted was
   not published as a leader that is ready. *)
TaskOK(m) ==
    /\ job[m].kind \in {"start", "single user", "copy", "clone", "cloned", "demoted"}
         => server[m] \in Stopped
    /\ job[m].kind \in {"rewind", "reinitialize"} => server[m] # "primary"
    /\ job[m].kind \in {"rewind", "copy"} => job[m].leader \in Members
    /\ job[m].kind = "promote" => server[m] \in {"replica", "archive"}
    /\ job[m].kind \in {"promote", "promoted"} => ~status[m].ready

SaysReady(m) ==
    \/ status[m].ready
    \/ job[m].kind # "promoted" /\ (rewind[m] = "CHECKPOINT" \/ newCheckpoint[m] = "done")

ReadySource(l) == server[l] = "primary" /\ l \in checkpointed

(* A primary that says to be ready, or is about to, has made its checkpoint, and a copy
   that can still succeed is from a primary that has. *)
ReadyOK(m) ==
    /\ server[m] = "primary" /\ SaysReady(m) => m \in checkpointed
    /\ job[m].kind = "copy" /\ job[m].ready => ReadySource(job[m].leader)

RewindInv == RewindTypes /\ \A m \in Members : TaskOK(m) /\ ReadyOK(m)

LEMMA NoJobType ==
    /\ NoJob \in JobRecords /\ NoJob.kind = "none" /\ ~NoJob.ready
BY DEF NoJob, JobRecords, JobKinds

LEMMA RemedyType ==
    ASSUME RewindTypes, NEW l \in Members
    PROVE  /\ Remedy(l) \in JobRecords /\ Remedy(l).kind \in {"rewind", "reinitialize"}
           /\ Remedy(l).leader = l
<1>1. (status[l].master /\ status[l].ready) \in BOOLEAN
  OBVIOUS
<1>. QED
  BY <1>1 DEF Job, JobRecords, JobKinds, Remedy

(* The decisions stay among the states of Rewind, and only the leader finds that its
   checkpoint is done. *)
LEMMA StateTypes ==
    ASSUME RewindTypes, NEW m \in Members
    PROVE  /\ Recovered(m) \in RewindStates /\ AfterPromotion(m) \in RewindStates
           /\ \A s \in RewindStates : Triggered(s) \in RewindStates
           /\ \A s \in RewindStates, l \in Members \cup {NoMember} :
                Decided(m, l, s) \in RewindStates
           /\ Recovered(m) \in {"INITIAL", rewind[m]}
           /\ AfterPromotion(m) = "CHECKPOINT" =>
                newCheckpoint[m] = "done" \/ m \in checkpointed
<1>1. Recovered(m) \in RewindStates /\ Recovered(m) \in {"INITIAL", rewind[m]}
  BY DEF RewindTypes, RewindStates, Recovered
<1>2. AfterPromotion(m) \in RewindStates
  BY DEF AfterPromotion, RewindStates
<1>3. AfterPromotion(m) = "CHECKPOINT" => newCheckpoint[m] = "done" \/ m \in checkpointed
  BY DEF AfterPromotion
<1>4. \A s \in RewindStates : Triggered(s) \in RewindStates
  BY DEF RewindStates, Triggered
<1>5. \A s \in RewindStates, l \in Members \cup {NoMember} : Decided(m, l, s) \in RewindStates
  BY DEF RewindStates, Decided, Checked
<1>. QED
  BY <1>1, <1>2, <1>3, <1>4, <1>5

(* A task of m replaces its own; when its server stops, the copies from it fail. *)
LEMMA WithJobEffect ==
    ASSUME RewindTypes, NEW m \in Members, NEW j \in JobRecords, NEW stops \in BOOLEAN,
           job' = WithJob(m, j, stops)
    PROVE  /\ job' \in [Members -> JobRecords] /\ job'[m] = j
           /\ \A o \in Members \ {m} :
                /\ job'[o].kind = job[o].kind /\ job'[o].leader = job[o].leader
                /\ job'[o].ready => job[o].ready
                /\ stops /\ job[o].kind = "copy" /\ job[o].leader = m => ~job'[o].ready
<1>1. ASSUME NEW r \in JobRecords
      PROVE  /\ [r EXCEPT !.ready = FALSE] \in JobRecords
             /\ [r EXCEPT !.ready = FALSE].kind = r.kind
             /\ [r EXCEPT !.ready = FALSE].leader = r.leader
             /\ ~[r EXCEPT !.ready = FALSE].ready
  BY <1>1 DEF JobRecords
<1>2. job'[m] = j
  BY DEF WithJob
<1>3. ASSUME NEW o \in Members \ {m}
      PROVE  /\ job'[o] \in JobRecords
             /\ job'[o].kind = job[o].kind /\ job'[o].leader = job[o].leader
             /\ job'[o].ready => job[o].ready
             /\ stops /\ job[o].kind = "copy" /\ job[o].leader = m => ~job'[o].ready
  <2>1. job[o] \in JobRecords
    BY DEF RewindTypes
  <2>2. CASE stops /\ job[o].kind = "copy" /\ job[o].leader = m
    <3>1. job'[o] = [job[o] EXCEPT !.ready = FALSE]
      BY <2>2 DEF WithJob
    <3>. QED
      BY <1>1, <2>1, <3>1
  <2>3. CASE ~(stops /\ job[o].kind = "copy" /\ job[o].leader = m)
    <3>1. job'[o] = job[o]
      BY <2>3 DEF WithJob
    <3>. QED
      BY <2>1, <2>3, <3>1
  <2>. QED
    BY <2>2, <2>3
<1>4. job' = [o \in Members |-> job'[o]]
  BY DEF WithJob
<1>5. \A o \in Members : job'[o] \in JobRecords
  BY <1>2, <1>3
<1>6. job' \in [Members -> JobRecords]
  BY <1>4, <1>5
<1>. QED
  BY <1>2, <1>3, <1>6

(* What the end of a cycle of m changes. *)
CycleEffect(m, s, j, leads) ==
    /\ rewind' \in [Members -> RewindStates] /\ rewind'[m] = s
    /\ status' \in [Members -> [master : BOOLEAN, ready : BOOLEAN]]
    /\ status'[m].ready => leads /\ IsMaster(m) /\ s = "CHECKPOINT"
    /\ job' \in [Members -> JobRecords] /\ job'[m] = j
    /\ \A o \in Members \ {m} :
         /\ rewind'[o] = rewind[o] /\ status'[o] = status[o]
         /\ job'[o].kind = job[o].kind /\ job'[o].leader = job[o].leader
         /\ job'[o].ready => job[o].ready
         /\ server[m] = "primary" /\ ~leads /\ job[o].kind = "copy"
              /\ job[o].leader = m => ~job'[o].ready

LEMMA EndCycleEffect ==
    ASSUME RewindTypes, NEW m \in Members, NEW s \in RewindStates, NEW j \in JobRecords,
           NEW leads \in BOOLEAN, EndCycle(m, s, j, leads)
    PROVE  CycleEffect(m, s, j, leads)
<1>1. /\ rewind' \in [Members -> RewindStates] /\ rewind'[m] = s
      /\ \A o \in Members \ {m} : rewind'[o] = rewind[o]
  BY DEF EndCycle, RewindTypes
<1>. DEFINE master == leads /\ IsMaster(m)
            ready == leads /\ IsMaster(m) /\ s = "CHECKPOINT"
<1>2. status' = [status EXCEPT ![m] = [master |-> master, ready |-> ready]]
  BY DEF EndCycle
<1>3. master \in BOOLEAN /\ ready \in BOOLEAN
  BY DEF IsMaster
<1>. HIDE DEF master
<1>4. /\ status' \in [Members -> [master : BOOLEAN, ready : BOOLEAN]]
      /\ \A o \in Members \ {m} : status'[o] = status[o]
      /\ status'[m].ready = ready
  <2>. HIDE DEF ready
  <2>. QED
    BY <1>2, <1>3 DEF RewindTypes
<1>. DEFINE stops == server[m] = "primary" /\ ~leads
<1>5. job' = WithJob(m, j, stops) /\ stops \in BOOLEAN
  BY DEF EndCycle
<1>6. /\ job' \in [Members -> JobRecords] /\ job'[m] = j
      /\ \A o \in Members \ {m} :
           /\ job'[o].kind = job[o].kind /\ job'[o].leader = job[o].leader
           /\ job'[o].ready => job[o].ready
           /\ stops /\ job[o].kind = "copy" /\ job[o].leader = m => ~job'[o].ready
  <2>. HIDE DEF stops
  <2>. QED
    BY <1>5, WithJobEffect
<1>. QED
  BY <1>1, <1>4, <1>6 DEF CycleEffect

(* What m does is nothing to the others, if m stays the primary it was or their copies
   from it fail. *)
LEMMA OthersKeep ==
    ASSUME RewindInv, NEW m \in Members,
           \A o \in Members \ {m} :
              /\ server'[o] = server[o] /\ rewind'[o] = rewind[o]
              /\ newCheckpoint'[o] = newCheckpoint[o] /\ status'[o] = status[o]
              /\ job'[o].kind = job[o].kind /\ job'[o].leader = job[o].leader
              /\ job'[o].ready => job[o].ready
              /\ o \in checkpointed => o \in checkpointed',
           \/ ReadySource(m) => ReadySource(m)'
           \/ \A o \in Members \ {m} :
                job[o].kind = "copy" /\ job[o].leader = m => ~job'[o].ready
    PROVE  \A o \in Members \ {m} : TaskOK(o)' /\ ReadyOK(o)'
<1>. SUFFICES ASSUME NEW o \in Members \ {m} PROVE TaskOK(o)' /\ ReadyOK(o)'
  OBVIOUS
<1>1. TaskOK(o) /\ ReadyOK(o)
  BY DEF RewindInv
<1>2. TaskOK(o)'
  BY <1>1 DEF TaskOK
<1>3. (server[o] = "primary" /\ SaysReady(o) => o \in checkpointed)'
  BY <1>1 DEF ReadyOK, SaysReady
<1>4. ASSUME job'[o].kind = "copy", job'[o].ready PROVE ReadySource(job[o].leader)'
  <2>1. job[o].leader \in Members /\ ReadySource(job[o].leader)
    BY <1>1, <1>4 DEF TaskOK, ReadyOK
  <2>2. CASE job[o].leader = m
    BY <1>4, <2>1, <2>2
  <2>3. CASE job[o].leader # m
    BY <2>1, <2>3 DEF ReadySource
  <2>. QED
    BY <2>2, <2>3
<1>. QED
  BY <1>2, <1>3, <1>4 DEF ReadyOK, ReadySource

(* The same, of a step that the invariant of m survives. *)
LEMMA StepOf ==
    ASSUME RewindInv, RewindTypes', NEW m \in Members,
           TaskOK(m)', ReadyOK(m)',
           \A o \in Members \ {m} : TaskOK(o)' /\ ReadyOK(o)'
    PROVE  RewindInv'
BY DEF RewindInv

(* The cycles of the HA loop. *)
LEMMA CyclesKeepRewind ==
    ASSUME RewindInv, ~StaleStatus, NEW m \in Members, Cycle(m) \/ BusyCycle(m)
    PROVE  RewindInv'
<1>. USE NoMemberAssumption
<1>t. RewindTypes /\ TaskOK(m) /\ ReadyOK(m)
  BY DEF RewindInv
<1>n. rewind[m] \in RewindStates /\ server[m] \in Running \cup Stopped
  BY <1>t DEF RewindTypes
<1>1. CASE LeaderCycle(m)
  <2>. DEFINE s == IF Recovered(m) = "INITIAL" THEN AfterPromotion(m) ELSE Recovered(m)
  <2>1. s \in RewindStates /\ (s = "CHECKPOINT" =>
          rewind[m] = "CHECKPOINT" \/ newCheckpoint[m] = "done" \/ m \in checkpointed)
    BY <1>t, StateTypes
  <2>2. /\ EndCycle(m, s, NoJob, TRUE)
        /\ server[m] = "primary" /\ job[m] = NoJob
        /\ newCheckpoint' = [newCheckpoint EXCEPT ![m] =
                              IF Recovered(m) = "INITIAL" /\ @ = "none" THEN "running" ELSE @]
        /\ UNCHANGED <<keyOwner, server, checkpointed>>
    BY <1>1 DEF LeaderCycle
  <2>. HIDE DEF s
  <2>e. CycleEffect(m, s, NoJob, TRUE)
    BY <1>t, <2>1, <2>2, NoJobType, EndCycleEffect
  <2>3. RewindTypes'
    BY <1>t, <2>e, <2>2 DEF RewindTypes, CycleEffect
  <2>4. newCheckpoint'[m] = "done" => newCheckpoint[m] = "done"
    BY <1>t, <2>2 DEF RewindTypes
  <2>5. TaskOK(m)'
    BY <2>e, NoJobType DEF TaskOK, CycleEffect
  <2>6. ReadyOK(m)'
    BY <1>t, <2>e, <2>1, <2>2, <2>4, NoJobType DEF ReadyOK, SaysReady, CycleEffect
  <2>7. \A o \in Members \ {m} : newCheckpoint'[o] = newCheckpoint[o]
    BY <1>t, <2>2 DEF RewindTypes
  <2>8. \A o \in Members \ {m} : TaskOK(o)' /\ ReadyOK(o)'
    BY <2>e, <2>2, <2>7, OthersKeep DEF ReadySource, CycleEffect
  <2>. QED
    BY <2>3, <2>5, <2>6, <2>8, StepOf
(* Any other cycle: what it starts is a task that its server allows, and it says nothing
   of a checkpoint. *)
<1>2. ASSUME NEW s \in RewindStates, NEW j \in JobRecords, NEW leads \in BOOLEAN,
             EndCycle(m, s, j, leads), UNCHANGED <<server, checkpointed, newCheckpoint>>,
             keyOwner' \in Members \cup {NoMember},
             j.kind \in {"start", "single user", "clone", "demoted"} => server[m] \in Stopped,
             j.kind \in {"rewind", "reinitialize"} =>
                server[m] # "primary" /\ j.leader \in Members,
             j.kind = "promote" => server[m] = "replica",
             j.kind \notin {"copy", "cloned", "promoted"},
             server[m] # "primary"
      PROVE  RewindInv'
  <2>e. CycleEffect(m, s, j, leads)
    BY <1>t, <1>2, EndCycleEffect
  <2>1. RewindTypes'
    BY <1>t, <1>2, <2>e DEF RewindTypes, CycleEffect
  <2>2. TaskOK(m)'
    BY <1>2, <2>e DEF TaskOK, IsMaster, CycleEffect
  <2>3. ReadyOK(m)'
    BY <1>2, <2>e DEF ReadyOK, CycleEffect
  <2>4. \A o \in Members \ {m} : TaskOK(o)' /\ ReadyOK(o)'
    BY <1>2, <2>e, OthersKeep DEF ReadySource, CycleEffect
  <2>. QED
    BY <2>1, <2>2, <2>3, <2>4, StepOf
<1>3. CASE ElectionCycle(m)
  <2>1. /\ EndCycle(m, Recovered(m), Job("promote", NoMember, FALSE), TRUE)
        /\ server[m] = "replica" /\ keyOwner' = m
        /\ UNCHANGED <<server, checkpointed, newCheckpoint>>
    BY <1>3 DEF ElectionCycle
  <2>2. Job("promote", NoMember, FALSE) \in JobRecords
        /\ Job("promote", NoMember, FALSE).kind = "promote"
    BY DEF Job, JobRecords, JobKinds
  <2>. QED
    BY <1>t, <1>2, <2>1, <2>2, StateTypes
<1>4. CASE FollowCycle(m)
  <2>1. PICK s \in RewindStates, j \in {NoJob, Remedy(keyOwner)} :
          EndCycle(m, s, j, FALSE) /\ (j # NoJob => keyOwner # NoMember)
    <3>1. Decided(m, keyOwner, Recovered(m)) \in RewindStates
      BY <1>t, StateTypes DEF RewindTypes
    <3>2. Triggered(Decided(m, keyOwner, Recovered(m))) \in RewindStates
      BY <1>t, <3>1, StateTypes
    <3>. QED
      BY <1>4, <3>1, <3>2 DEF FollowCycle
  <2>2. server[m] = "replica" /\ UNCHANGED <<keyOwner, server, checkpointed, newCheckpoint>>
    BY <1>4 DEF FollowCycle
  <2>3. CASE j = NoJob
    BY <1>t, <1>2, <2>1, <2>2, <2>3, NoJobType DEF RewindTypes
  <2>4. CASE j = Remedy(keyOwner) /\ keyOwner # NoMember
    BY <1>t, <1>2, <2>1, <2>2, <2>4, RemedyType DEF RewindTypes
  <2>. QED
    BY <2>1, <2>3, <2>4
<1>5. CASE GiveUpCycle(m)
  <2>1. /\ EndCycle(m, rewind[m], NoJob, FALSE) /\ server[m] \in Stopped
        /\ keyOwner' \in {keyOwner, NoMember}
        /\ UNCHANGED <<server, checkpointed, newCheckpoint>>
    BY <1>5 DEF GiveUpCycle
  <2>. QED
    BY <1>t, <1>n, <1>2, <2>1, NoJobType DEF RewindTypes, Stopped
<1>6. CASE RecoverCycle(m)
  <2>. DEFINE trig == IF Executed(rewind[m]) THEN rewind[m] ELSE Triggered(rewind[m])
              s == Decided(m, keyOwner, trig)
  <2>1. trig \in RewindStates
    BY <1>t, <1>n, StateTypes
  <2>2. s \in RewindStates
    BY <1>t, <2>1, StateTypes DEF RewindTypes
  <2>. HIDE DEF trig
  <2>3. /\ server[m] \in Stopped
        /\ UNCHANGED <<keyOwner, server, checkpointed, newCheckpoint>>
        /\ \/ EndCycle(m, rewind[m], Job("single user", NoMember, FALSE), keyOwner = m)
           \/ EndCycle(m, rewind[m], Job("start", NoMember, FALSE), keyOwner = m)
           \/ keyOwner # NoMember /\ EndCycle(m, s, Remedy(keyOwner), keyOwner = m)
           \/ EndCycle(m, s, Job("start", keyOwner, FALSE), keyOwner = m)
    BY <1>6 DEF RecoverCycle, trig
  <2>. HIDE DEF s
  <2>4. /\ server[m] # "primary" /\ (keyOwner = m) \in BOOLEAN
        /\ keyOwner \in Members \cup {NoMember} /\ keyOwner' \in Members \cup {NoMember}
    BY <1>t, <2>3 DEF RewindTypes, Stopped
  <2>5. CASE EndCycle(m, rewind[m], Job("single user", NoMember, FALSE), keyOwner = m)
    <3>1. /\ Job("single user", NoMember, FALSE) \in JobRecords
          /\ Job("single user", NoMember, FALSE).kind = "single user"
      BY DEF Job, JobRecords, JobKinds
    <3>. QED
      BY <1>n, <1>2, <2>3, <2>4, <2>5, <3>1
  <2>6. ASSUME NEW t \in RewindStates, NEW l \in Members \cup {NoMember},
               EndCycle(m, t, Job("start", l, FALSE), keyOwner = m)
        PROVE  RewindInv'
    <3>1. Job("start", l, FALSE) \in JobRecords /\ Job("start", l, FALSE).kind = "start"
      BY DEF Job, JobRecords, JobKinds
    <3>. QED
      BY <1>2, <2>3, <2>4, <2>6, <3>1
  <2>7. CASE keyOwner # NoMember /\ EndCycle(m, s, Remedy(keyOwner), keyOwner = m)
    <3>1. keyOwner \in Members
      BY <2>4, <2>7
    <3>2. /\ Remedy(keyOwner) \in JobRecords /\ Remedy(keyOwner).leader = keyOwner
          /\ Remedy(keyOwner).kind \in {"rewind", "reinitialize"}
      BY <1>t, <3>1, RemedyType
    <3>. QED
      BY <1>2, <2>2, <2>3, <2>4, <2>7, <3>1, <3>2
  <2>. QED
    BY <1>n, <2>2, <2>3, <2>4, <2>5, <2>6, <2>7
<1>7. CASE CloneCycle(m)
  <2>1. PICK j \in {NoJob, Job("clone", keyOwner, FALSE)} : EndCycle(m, rewind[m], j, FALSE)
    BY <1>7 DEF CloneCycle
  <2>2. /\ server[m] = "empty" /\ keyOwner' \in {keyOwner, NoMember}
        /\ UNCHANGED <<server, checkpointed, newCheckpoint>>
    BY <1>7 DEF CloneCycle
  <2>3. j \in JobRecords /\ j.kind \in {"none", "clone"}
    <3>1. CASE j = NoJob
      BY <3>1, NoJobType
    <3>2. CASE j = Job("clone", keyOwner, FALSE)
      <4>1. keyOwner \in Members \cup {NoMember}
        BY <1>t DEF RewindTypes
      <4>. QED
        BY <3>2, <4>1 DEF Job, JobRecords, JobKinds
    <3>. QED
      BY <2>1, <3>1, <3>2
  <2>. QED
    BY <1>t, <1>n, <1>2, <2>1, <2>2, <2>3 DEF RewindTypes, Stopped
<1>8. CASE BusyCycle(m)
  <2>1. /\ EndCycle(m, rewind[m], job[m], keyOwner = m) /\ job[m].kind # "promoted"
        /\ UNCHANGED <<keyOwner, server, checkpointed, newCheckpoint>>
    BY <1>8 DEF BusyCycle
  <2>2. job[m] \in JobRecords /\ (keyOwner = m) \in BOOLEAN
    BY <1>t DEF RewindTypes
  <2>e. CycleEffect(m, rewind[m], job[m], keyOwner = m)
    BY <1>t, <1>n, <2>1, <2>2, EndCycleEffect
  <2>3. RewindTypes'
    BY <1>t, <2>1, <2>e DEF RewindTypes, CycleEffect
  <2>4. TaskOK(m)'
    BY <1>t, <2>1, <2>e DEF TaskOK, IsMaster, CycleEffect
  <2>5. ReadyOK(m)'
    BY <1>t, <2>1, <2>e DEF ReadyOK, SaysReady, ReadySource, CycleEffect
  <2>6. \A o \in Members \ {m} : TaskOK(o)' /\ ReadyOK(o)'
    BY <2>1, <2>e, OthersKeep DEF ReadySource, CycleEffect
  <2>. QED
    BY <2>3, <2>4, <2>5, <2>6, StepOf
<1>. QED
  BY <1>1, <1>3, <1>4, <1>5, <1>6, <1>7, <1>8 DEF Cycle

(* What a task does to its own member, when it does not end in a new primary. *)
LEMMA TaskStep ==
    ASSUME RewindInv, NEW m \in Members, NEW j \in JobRecords,
           job' = [job EXCEPT ![m] = j],
           server' \in [Members -> Running \cup Stopped],
           \A o \in Members \ {m} : server'[o] = server[o],
           server[m] # "primary", server'[m] # "primary",
           checkpointed' \in {checkpointed, checkpointed \ {m}},
           rewind' \in [Members -> RewindStates],
           \A o \in Members \ {m} : rewind'[o] = rewind[o],
           newCheckpoint' \in [Members -> {"none", "running", "done", "failed"}],
           \A o \in Members \ {m} : newCheckpoint'[o] = newCheckpoint[o],
           UNCHANGED <<keyOwner, status>>,
           j.kind \notin {"promote", "promoted", "rewind", "reinitialize"},
           j.kind # "none" => server'[m] \in Stopped,
           j.kind = "copy" => /\ j.leader \in Members
                              /\ j.ready => j.leader # m /\ ReadySource(j.leader)
    PROVE  RewindInv'
<1>1. RewindTypes'
  BY DEF RewindInv, RewindTypes
<1>2. job'[m] = j /\ \A o \in Members \ {m} : job'[o] = job[o]
  BY DEF RewindInv, RewindTypes
<1>3. TaskOK(m)'
  BY <1>2 DEF TaskOK
<1>4. ReadyOK(m)'
  BY <1>2 DEF ReadyOK, ReadySource
<1>5. \A o \in Members \ {m} : TaskOK(o)' /\ ReadyOK(o)'
  BY <1>2, OthersKeep DEF ReadySource
<1>. QED
  BY <1>1, <1>3, <1>4, <1>5, StepOf

(* The background tasks. *)
LEMMA WorkKeepsRewind ==
    ASSUME RewindInv, ~StaleStatus, NEW m \in Members, Work(m)
    PROVE  RewindInv'
<1>t. RewindTypes /\ TaskOK(m) /\ ReadyOK(m)
  BY DEF RewindInv
<1>n. /\ server[m] \in Running \cup Stopped /\ job[m] \in JobRecords
      /\ keyOwner \in Members \cup {NoMember} /\ job[m].leader \in Members \cup {NoMember}
  BY <1>t DEF RewindTypes, JobRecords
<1>s. server[m] \in Stopped => server[m] # "primary"
  BY DEF Stopped
<1>1. CASE Promote(m)
  <2>1. /\ job[m].kind = "promote" /\ server[m] = "replica"
        /\ server' = [server EXCEPT ![m] = "primary"]
        /\ checkpointed' = checkpointed \ {m}
        /\ job' = [job EXCEPT ![m].kind = "promoted"]
        /\ UNCHANGED <<keyOwner, status, rewind, newCheckpoint>>
    BY <1>1 DEF Promote
  <2>2. [job[m] EXCEPT !.kind = "promoted"] \in JobRecords
        /\ [job[m] EXCEPT !.kind = "promoted"].kind = "promoted"
    BY <1>n DEF JobRecords, JobKinds
  <2>3. /\ job'[m].kind = "promoted" /\ server'[m] = "primary"
        /\ \A o \in Members \ {m} : job'[o] = job[o] /\ server'[o] = server[o]
    BY <1>t, <2>1, <2>2 DEF RewindTypes
  <2>4. RewindTypes'
    BY <1>t, <2>1, <2>2 DEF RewindTypes, Running
  <2>5. ~status'[m].ready
    BY <1>t, <2>1 DEF TaskOK
  <2>6. TaskOK(m)' /\ ReadyOK(m)'
    BY <2>3, <2>5 DEF TaskOK, ReadyOK, SaysReady
  <2>7. \A o \in Members \ {m} : TaskOK(o)' /\ ReadyOK(o)'
    BY <2>1, <2>3, OthersKeep DEF ReadySource
  <2>. QED
    BY <2>4, <2>6, <2>7, StepOf
<1>2. CASE Promoted(m)
  <2>1. /\ job[m].kind = "promoted"
        /\ rewind' = [rewind EXCEPT ![m] = "INITIAL"]
        /\ newCheckpoint' = [newCheckpoint EXCEPT ![m] = "none"]
        /\ job' = [job EXCEPT ![m] = NoJob]
        /\ UNCHANGED <<keyOwner, status, server, checkpointed>>
    BY <1>2 DEF Promoted, Done
  <2>2. /\ job'[m] = NoJob /\ rewind'[m] = "INITIAL" /\ newCheckpoint'[m] = "none"
        /\ \A o \in Members \ {m} : /\ job'[o] = job[o] /\ rewind'[o] = rewind[o]
                                    /\ newCheckpoint'[o] = newCheckpoint[o]
    BY <1>t, <2>1 DEF RewindTypes
  <2>3. RewindTypes'
    BY <1>t, <2>1, NoJobType DEF RewindTypes, RewindStates
  <2>4. ~status'[m].ready
    BY <1>t, <2>1 DEF TaskOK
  <2>5. TaskOK(m)' /\ ReadyOK(m)'
    BY <2>2, <2>4, NoJobType DEF TaskOK, ReadyOK, SaysReady
  <2>6. \A o \in Members \ {m} : TaskOK(o)' /\ ReadyOK(o)'
    BY <2>1, <2>2, OthersKeep DEF ReadySource
  <2>. QED
    BY <2>3, <2>5, <2>6, StepOf
<1>3. CASE PromoteFails(m)
  <2>1. /\ job[m].kind = "promote" /\ server[m] # "replica"
        /\ job' = [job EXCEPT ![m] = NoJob]
        /\ UNCHANGED <<keyOwner, status, server, checkpointed, rewind, newCheckpoint>>
    BY <1>3 DEF PromoteFails, Done
  <2>2. server[m] # "primary"
    BY <1>t, <2>1 DEF TaskOK
  <2>. QED
    BY <1>t, <2>1, <2>2, NoJobType, TaskStep DEF RewindTypes
<1>4. CASE Start(m)
  <2>1. /\ job' = [job EXCEPT ![m] = NoJob]
        /\ server' \in {server, [server EXCEPT ![m] = "replica"]}
        /\ checkpointed' \in {checkpointed, checkpointed \ {m}}
        /\ UNCHANGED <<keyOwner, status, rewind, newCheckpoint>>
        /\ job[m].kind = "start"
    BY <1>4 DEF Start, Done
  <2>2. server[m] # "primary"
    BY <1>t, <1>s, <2>1 DEF TaskOK
  <2>3. /\ server' \in [Members -> Running \cup Stopped] /\ server'[m] # "primary"
        /\ \A o \in Members \ {m} : server'[o] = server[o]
    BY <1>t, <2>1, <2>2 DEF RewindTypes, Running
  <2>. QED
    BY <1>t, <2>1, <2>2, <2>3, NoJobType, TaskStep DEF RewindTypes
<1>5. CASE SingleUser(m)
  <2>1. /\ job' = [job EXCEPT ![m] = NoJob]
        /\ server' \in {server, [server EXCEPT ![m] = "shutdown"]}
        /\ UNCHANGED <<keyOwner, status, checkpointed, rewind, newCheckpoint>>
        /\ job[m].kind = "single user"
    BY <1>5 DEF SingleUser, Done
  <2>2. server[m] # "primary"
    BY <1>t, <1>s, <2>1 DEF TaskOK
  <2>3. /\ server' \in [Members -> Running \cup Stopped] /\ server'[m] # "primary"
        /\ \A o \in Members \ {m} : server'[o] = server[o]
    BY <1>t, <2>1, <2>2 DEF RewindTypes, Stopped
  <2>. QED
    BY <1>t, <2>1, <2>2, <2>3, NoJobType, TaskStep DEF RewindTypes
(* The server after it was stopped for the task. *)
<1>a. ASSUME server[m] # "primary", server' = [server EXCEPT ![m] = AfterStop(@)]
      PROVE  /\ server' \in [Members -> Running \cup Stopped] /\ server'[m] \in Stopped
             /\ server'[m] # "primary"
             /\ \A o \in Members \ {m} : server'[o] = server[o]
  <2>1. AfterStop(server[m]) \in Stopped
    BY <1>n, <1>a DEF AfterStop, Running, Stopped
  <2>2. server' = [server EXCEPT ![m] = AfterStop(server[m])]
    BY <1>a
  <2>. QED
    BY <1>t, <2>1, <2>2 DEF RewindTypes, Stopped
<1>6. CASE PrepareRewind(m)
  <2>. DEFINE l == job[m].leader
              ready == status[l].master /\ status[l].ready
              j == IF ready /\ server[l] = "primary" THEN Job("copy", l, ready) ELSE NoJob
  <2>1. /\ job' = [job EXCEPT ![m] = j] /\ job[m].kind = "rewind"
        /\ server' = [server EXCEPT ![m] = AfterStop(@)]
        /\ UNCHANGED <<keyOwner, status, checkpointed, rewind, newCheckpoint>>
    BY <1>6 DEF PrepareRewind
  <2>2. server[m] # "primary" /\ l \in Members
    BY <1>t, <2>1 DEF TaskOK
  <2>3. ready \in BOOLEAN
    OBVIOUS
  <2>4. ready /\ server[l] = "primary" => ReadySource(l) /\ l # m
    <3>1. ReadyOK(l)
      BY <2>2 DEF RewindInv
    <3>. QED
      BY <2>2, <3>1 DEF ReadyOK, SaysReady, ReadySource
  <2>. HIDE DEF l
  <2>5. /\ j \in JobRecords /\ j.kind \in {"none", "copy"}
        /\ j.kind = "copy" => /\ j.leader \in Members
                              /\ j.ready => j.leader # m /\ ReadySource(j.leader)
    <3>1. CASE ready /\ server[l] = "primary"
      <4>1. j = Job("copy", l, ready)
        BY <3>1
      <4>. HIDE DEF j, ready
      <4>2. j \in JobRecords /\ j.kind = "copy" /\ j.leader = l
        BY <2>2, <2>3, <4>1 DEF Job, JobRecords, JobKinds
      <4>. QED
        BY <2>2, <2>4, <3>1, <4>2
    <3>2. CASE ~(ready /\ server[l] = "primary")
      BY <3>2, NoJobType
    <3>. QED
      BY <3>1, <3>2
  <2>. HIDE DEF j, ready
  <2>. QED
    BY <1>t, <1>a, <2>1, <2>2, <2>5, TaskStep DEF RewindTypes
<1>7. CASE CopyFromLeader(m)
  <2>1. /\ job' = [job EXCEPT ![m] = NoJob]
        /\ server' \in {server, [server EXCEPT ![m] = "archive"]}
        /\ rewind' = [rewind EXCEPT ![m] = "SUCCESS"]
        /\ UNCHANGED <<keyOwner, status, checkpointed, newCheckpoint>>
        /\ server[m] \in {"shutdown", "recovery"}
    BY <1>7 DEF CopyFromLeader, Done
  <2>2. /\ server' \in [Members -> Running \cup Stopped] /\ server'[m] # "primary"
        /\ \A o \in Members \ {m} : server'[o] = server[o]
    BY <1>t, <2>1 DEF RewindTypes, Stopped
  <2>3. rewind' \in [Members -> RewindStates] /\ \A o \in Members \ {m} : rewind'[o] = rewind[o]
    BY <1>t, <2>1 DEF RewindTypes, RewindStates
  <2>. QED
    BY <1>t, <2>1, <2>2, <2>3, NoJobType, TaskStep DEF RewindTypes
<1>8. CASE CopyFails(m)
  <2>1. /\ job' = [job EXCEPT ![m] = NoJob] /\ job[m].kind = "copy"
        /\ server' \in {server, [server EXCEPT ![m] = "empty"]}
        /\ rewind' \in {rewind, [rewind EXCEPT ![m] = "INITIAL"],
                        [rewind EXCEPT ![m] = "FAILED"]}
        /\ UNCHANGED <<keyOwner, status, checkpointed, newCheckpoint>>
    BY <1>8 DEF CopyFails, Done
  <2>2. server[m] # "primary"
    BY <1>t, <1>s, <2>1 DEF TaskOK
  <2>3. /\ server' \in [Members -> Running \cup Stopped] /\ server'[m] # "primary"
        /\ \A o \in Members \ {m} : server'[o] = server[o]
    BY <1>t, <2>1, <2>2 DEF RewindTypes, Stopped
  <2>4. rewind' \in [Members -> RewindStates] /\ \A o \in Members \ {m} : rewind'[o] = rewind[o]
    BY <1>t, <2>1 DEF RewindTypes, RewindStates
  <2>. QED
    BY <1>t, <2>1, <2>2, <2>3, <2>4, NoJobType, TaskStep DEF RewindTypes
<1>9. CASE Reinitialize(m)
  <2>1. /\ job' = [job EXCEPT ![m] = [job[m] EXCEPT !.kind = "clone"]]
        /\ server' = [server EXCEPT ![m] = AfterStop(@)]
        /\ UNCHANGED <<keyOwner, status, checkpointed, rewind, newCheckpoint>>
        /\ job[m].kind = "reinitialize"
    BY <1>9 DEF Reinitialize
  <2>2. server[m] # "primary"
    BY <1>t, <2>1 DEF TaskOK
  <2>3. /\ [job[m] EXCEPT !.kind = "clone"] \in JobRecords
        /\ [job[m] EXCEPT !.kind = "clone"].kind = "clone"
    BY <1>n DEF JobRecords, JobKinds
  <2>. QED
    BY <1>t, <1>a, <2>1, <2>2, <2>3, TaskStep DEF RewindTypes
<1>10. CASE Clone(m)
  <2>1. PICK j \in {NoJob, [job[m] EXCEPT !.kind = "cloned"]}, v \in {"archive", "empty"} :
          /\ job' = [job EXCEPT ![m] = j]
          /\ server' = [server EXCEPT ![m] = v]
    BY <1>10 DEF Clone, Done
  <2>2. /\ rewind' = [rewind EXCEPT ![m] = "INITIAL"]
        /\ newCheckpoint' = [newCheckpoint EXCEPT ![m] = "none"]
        /\ UNCHANGED <<keyOwner, status, checkpointed>> /\ job[m].kind = "clone"
    BY <1>10 DEF Clone
  <2>3. server[m] # "primary"
    BY <1>t, <1>s, <2>2 DEF TaskOK
  <2>4. j \in JobRecords /\ j.kind \in {"none", "cloned"}
    BY <1>n, <2>1, NoJobType DEF JobRecords, JobKinds
  <2>5. /\ server' \in [Members -> Running \cup Stopped]
        /\ server'[m] \in Stopped /\ server'[m] # "primary"
        /\ \A o \in Members \ {m} : server'[o] = server[o]
    BY <1>t, <2>1 DEF RewindTypes, Stopped
  <2>6. /\ rewind' \in [Members -> RewindStates]
        /\ newCheckpoint' \in [Members -> {"none", "running", "done", "failed"}]
        /\ \A o \in Members \ {m} : rewind'[o] = rewind[o]
                                    /\ newCheckpoint'[o] = newCheckpoint[o]
    BY <1>t, <2>2 DEF RewindTypes, RewindStates
  <2>. QED
    BY <1>t, <2>1, <2>2, <2>3, <2>4, <2>5, <2>6, TaskStep
(* Both end in the start of the server. *)
<1>j. ASSUME NEW k \in {keyOwner, NoMember}
      PROVE  Job("start", k, FALSE) \in JobRecords /\ Job("start", k, FALSE).kind = "start"
  BY <1>n DEF Job, JobRecords, JobKinds
<1>11. CASE StartCopy(m)
  <2>1. PICK k \in {keyOwner, NoMember} : job' = [job EXCEPT ![m] = Job("start", k, FALSE)]
    BY <1>11 DEF StartCopy
  <2>2. job[m].kind = "cloned"
        /\ UNCHANGED <<keyOwner, status, server, checkpointed, rewind, newCheckpoint>>
    BY <1>11 DEF StartCopy
  <2>3. server[m] \in Stopped /\ server[m] # "primary"
    BY <1>t, <1>s, <2>2 DEF TaskOK
  <2>. QED
    BY <1>t, <1>j, <2>1, <2>2, <2>3, TaskStep DEF RewindTypes
<1>12. CASE AfterDemotion(m)
  <2>1. PICK j \in {NoJob, Job("start", keyOwner, FALSE), Job("start", NoMember, FALSE)} :
          job' = [job EXCEPT ![m] = j]
    BY <1>12 DEF AfterDemotion
  <2>2. /\ rewind' = [rewind EXCEPT ![m] = Decided(m, keyOwner, rewind[m])]
        /\ job[m].kind = "demoted"
        /\ UNCHANGED <<keyOwner, status, server, checkpointed, newCheckpoint>>
    BY <1>12 DEF AfterDemotion
  <2>3. server[m] \in Stopped /\ server[m] # "primary"
    BY <1>t, <1>s, <2>2 DEF TaskOK
  <2>4. j \in JobRecords /\ j.kind \in {"none", "start"}
    BY <1>j, <2>1, NoJobType
  <2>5. Decided(m, keyOwner, rewind[m]) \in RewindStates
    BY <1>t, <1>n, StateTypes DEF RewindTypes
  <2>6. rewind' \in [Members -> RewindStates] /\ \A o \in Members \ {m} : rewind'[o] = rewind[o]
    BY <1>t, <2>2, <2>5 DEF RewindTypes
  <2>. QED
    BY <1>t, <2>1, <2>2, <2>3, <2>4, <2>6, TaskStep DEF RewindTypes
<1>. QED
  BY <1>1, <1>2, <1>3, <1>4, <1>5, <1>6, <1>7, <1>8, <1>9, <1>10, <1>11, <1>12 DEF Work

(* Postgres itself and what goes wrong. *)
LEMMA FaultsKeepRewind ==
    ASSUME RewindInv, NEW m \in Members,
           \/ Checkpoint(m) \/ CheckpointEnds(m)
           \/ ServerCrash(m) \/ RestartPatroni(m) \/ LoseKey(m)
           \/ DemoteAtOnce(m) \/ DemoteGracefully(m)
    PROVE  RewindInv'
<1>t. RewindTypes /\ TaskOK(m) /\ ReadyOK(m)
  BY DEF RewindInv
<1>n. rewind[m] \in RewindStates /\ job[m] \in JobRecords
  BY <1>t DEF RewindTypes
<1>1. CASE Checkpoint(m)
  <2>1. /\ checkpointed' = checkpointed \cup {m}
        /\ UNCHANGED <<keyOwner, status, server, rewind, newCheckpoint, job>>
    BY <1>1 DEF Checkpoint
  <2>2. RewindTypes'
    BY <1>t, <2>1 DEF RewindTypes
  <2>3. ASSUME NEW n \in Members PROVE TaskOK(n)' /\ ReadyOK(n)'
    <3>1. TaskOK(n) /\ ReadyOK(n)
      BY DEF RewindInv
    <3>2. TaskOK(n)'
      BY <2>1, <3>1 DEF TaskOK
    <3>3. ReadyOK(n)'
      BY <2>1, <3>1 DEF ReadyOK, SaysReady, ReadySource
    <3>. QED
      BY <3>2, <3>3
  <2>. QED
    BY <2>2, <2>3 DEF RewindInv
<1>2. CASE CheckpointEnds(m)
  <2>1. /\ UNCHANGED <<keyOwner, status, server, rewind, job>>
        /\ checkpointed' \in {checkpointed, checkpointed \cup {m}}
        /\ newCheckpoint' \in [Members -> {"none", "running", "done", "failed"}]
        /\ newCheckpoint'[m] = "done" => m \in checkpointed'
        /\ \A o \in Members \ {m} : newCheckpoint'[o] = newCheckpoint[o]
    BY <1>2, <1>t DEF CheckpointEnds, RewindTypes
  <2>2. RewindTypes'
    BY <1>t, <2>1 DEF RewindTypes
  <2>3. TaskOK(m)' /\ ReadyOK(m)'
    BY <1>t, <2>1 DEF TaskOK, ReadyOK, SaysReady, ReadySource, RewindInv
  <2>4. \A o \in Members \ {m} : TaskOK(o)' /\ ReadyOK(o)'
    BY <2>1, OthersKeep DEF ReadySource
  <2>. QED
    BY <2>2, <2>3, <2>4, StepOf
<1>3. CASE ServerCrash(m)
  <2>1. /\ server[m] \in Running
        /\ job' = WithJob(m, job[m], TRUE)
        /\ UNCHANGED <<keyOwner, status, checkpointed, rewind, newCheckpoint>>
    BY <1>3 DEF ServerCrash
  <2>2. /\ server'[m] = IF server[m] = "primary" THEN "production" ELSE "archive"
        /\ server' \in [Members -> Running \cup Stopped]
        /\ \A o \in Members \ {m} : server'[o] = server[o]
    BY <1>3, <1>t DEF ServerCrash, RewindTypes, Stopped
  <2>3. /\ job' \in [Members -> JobRecords] /\ job'[m] = job[m]
        /\ \A o \in Members \ {m} :
             /\ job'[o].kind = job[o].kind /\ job'[o].leader = job[o].leader
             /\ job'[o].ready => job[o].ready
             /\ job[o].kind = "copy" /\ job[o].leader = m => ~job'[o].ready
    BY <1>t, <1>n, <2>1, WithJobEffect, ZenonT(30)
  <2>4. RewindTypes'
    BY <1>t, <2>1, <2>2, <2>3 DEF RewindTypes
  <2>5. TaskOK(m)' /\ ReadyOK(m)'
    BY <1>t, <2>1, <2>2, <2>3 DEF TaskOK, ReadyOK, Running, Stopped
  <2>6. \A o \in Members \ {m} : TaskOK(o)' /\ ReadyOK(o)'
    BY <2>1, <2>2, <2>3, OthersKeep
  <2>. QED
    BY <2>4, <2>5, <2>6, StepOf
<1>4. CASE RestartPatroni(m)
  <2>1. /\ rewind' = [rewind EXCEPT ![m] = "INITIAL"]
        /\ newCheckpoint' = [newCheckpoint EXCEPT ![m] = "none"]
        /\ UNCHANGED <<keyOwner, status, server, checkpointed, job>>
    BY <1>4 DEF RestartPatroni
  <2>2. /\ rewind'[m] = "INITIAL" /\ newCheckpoint'[m] = "none"
        /\ \A o \in Members \ {m} : rewind'[o] = rewind[o]
                                    /\ newCheckpoint'[o] = newCheckpoint[o]
    BY <1>t, <2>1 DEF RewindTypes
  <2>3. RewindTypes'
    BY <1>t, <2>1 DEF RewindTypes, RewindStates
  <2>4. TaskOK(m)' /\ ReadyOK(m)'
    BY <1>t, <2>1, <2>2 DEF TaskOK, ReadyOK, SaysReady, ReadySource
  <2>5. \A o \in Members \ {m} : TaskOK(o)' /\ ReadyOK(o)'
    BY <2>1, <2>2, OthersKeep DEF ReadySource
  <2>. QED
    BY <2>3, <2>4, <2>5, StepOf
<1>5. CASE LoseKey(m)
  BY <1>5 DEF LoseKey, RewindInv, RewindTypes, TaskOK, ReadyOK, SaysReady, ReadySource
<1>6. CASE DemoteAtOnce(m) \/ DemoteGracefully(m)
  <2>1. PICK k \in {"start", "demoted"}, v \in {"production", "shutdown"} :
          /\ EndCycle(m, Triggered(rewind[m]), Job(k, NoMember, FALSE), FALSE)
          /\ server' = [server EXCEPT ![m] = v]
    BY <1>6 DEF DemoteAtOnce, DemoteGracefully
  <2>2. /\ server[m] = "primary" /\ keyOwner' = NoMember
        /\ UNCHANGED <<checkpointed, newCheckpoint>>
    BY <1>6 DEF DemoteAtOnce, DemoteGracefully
  <2>3. Job(k, NoMember, FALSE) \in JobRecords /\ Job(k, NoMember, FALSE).kind = k
    BY DEF Job, JobRecords, JobKinds
  <2>4. Triggered(rewind[m]) \in RewindStates
    BY <1>t, <1>n, StateTypes
  <2>5. /\ server' \in [Members -> Running \cup Stopped]
        /\ server'[m] \in Stopped /\ server'[m] # "primary"
        /\ \A o \in Members \ {m} : server'[o] = server[o]
    BY <1>t, <2>1 DEF RewindTypes, Stopped
  <2>e. CycleEffect(m, Triggered(rewind[m]), Job(k, NoMember, FALSE), FALSE)
    BY <1>t, <2>1, <2>3, <2>4, EndCycleEffect
  <2>6. RewindTypes'
    BY <1>t, <2>2, <2>5, <2>e DEF RewindTypes, CycleEffect
  <2>7. TaskOK(m)' /\ ReadyOK(m)'
    BY <2>3, <2>5, <2>e DEF TaskOK, ReadyOK, CycleEffect
  <2>8. \A o \in Members \ {m} : TaskOK(o)' /\ ReadyOK(o)'
    BY <2>2, <2>5, <2>e, OthersKeep DEF CycleEffect
  <2>. QED
    BY <2>6, <2>7, <2>8, StepOf
<1>. QED
  BY <1>1, <1>2, <1>3, <1>4, <1>5, <1>6

(* The tasks and what is said of the checkpoint fit the servers: an inductive invariant
   if a leader's status is used as fast as it was read. *)
THEOREM RewindInductive ==
    ASSUME ~StaleStatus
    PROVE  RewindSpec => []RewindInv
<1>1. RewindInit => RewindInv
  <2>. SUFFICES ASSUME RewindInit PROVE RewindInv
    OBVIOUS
  <2>1. RewindTypes
    BY RewindAssumption, NoJobType
    DEF RewindInit, RewindTypes, RewindStates, Running
  <2>2. \A m \in Members : TaskOK(m) /\ ReadyOK(m)
    BY NoJobType DEF RewindInit, TaskOK, ReadyOK, SaysReady
  <2>. QED
    BY <2>1, <2>2 DEF RewindInv
<1>2. RewindInv /\ [RewindNext]_rewindVars => RewindInv'
  <2>. SUFFICES ASSUME RewindInv, [RewindNext]_rewindVars PROVE RewindInv'
    OBVIOUS
  <2>1. ASSUME NEW m \in Members, Commit(m) \/ Stream(m) PROVE RewindInv'
    <3>1. UNCHANGED <<keyOwner, status, server, checkpointed, rewind, newCheckpoint, job>>
      BY <2>1 DEF Commit, Stream
    <3>. QED
      BY <3>1 DEF RewindInv, RewindTypes, TaskOK, ReadyOK, SaysReady, ReadySource
  <2>2. ASSUME NEW m \in Members, Cycle(m) \/ BusyCycle(m) PROVE RewindInv'
    BY <2>2, CyclesKeepRewind
  <2>3. ASSUME NEW m \in Members, Work(m) PROVE RewindInv'
    BY <2>3, WorkKeepsRewind
  <2>4. ASSUME NEW m \in Members,
               \/ Checkpoint(m) \/ CheckpointEnds(m)
               \/ ServerCrash(m) \/ RestartPatroni(m) \/ LoseKey(m)
               \/ DemoteAtOnce(m) \/ DemoteGracefully(m)
        PROVE  RewindInv'
    BY <2>4, FaultsKeepRewind
  <2>5. CASE UNCHANGED rewindVars
    BY <2>5 DEF rewindVars, RewindInv, RewindTypes, TaskOK, ReadyOK, SaysReady, ReadySource
  <2>. QED
    BY <2>1, <2>2, <2>3, <2>4, <2>5 DEF RewindNext
<1>. QED
  BY <1>1, <1>2, PTL DEF RewindSpec

(* pg_rewind copies only from a primary whose pg_control has its timeline, through any
   crashes, failed checkpoints and changes of the leader, if the status of the leader does
   not change between the look at it and its use. *)
THEOREM RewindFromCheckpoint ==
    ASSUME ~StaleStatus
    PROVE  RewindSpec => []RewindAfterCheckpoint
<1>1. RewindInv => RewindAfterCheckpoint
  BY DEF RewindInv, RewindAfterCheckpoint, ReadyOK, ReadySource
<1>. QED
  BY <1>1, RewindInductive, PTL

-----------------------------------------------------------------------------
(* WALs: what holds of one, of two and of those of a cluster. *)

Records == Nat \X Members

(* Timelines never go back in a WAL, and each of them has a record. *)
Shape(w) ==
    /\ w \in Seq(Records) /\ w # <<>> /\ w[1][1] >= 1
    /\ \A i, j \in DOMAIN w : i <= j => w[i][1] <= w[j][1]
    /\ \A t \in 1..Timeline(w) : \E i \in DOMAIN w : w[i][1] = t

(* Where a timeline is in both, one has all of the other up to there. *)
Agree(v, w) ==
    \A i \in DOMAIN v, k \in DOMAIN w :
        i <= k /\ v[i][1] = w[k][1] => \A j \in 1..i : v[j] = w[j]

(* IsPrefix, record by record. *)
Part(v, w) == Len(v) <= Len(w) /\ \A i \in 1..Len(v) : v[i] = w[i]

LEMMA ShapeFacts ==
    ASSUME NEW w, Shape(w)
    PROVE  /\ Len(w) \in Nat /\ Len(w) >= 1 /\ DOMAIN w = 1..Len(w)
           /\ Timeline(w) = w[Len(w)][1] /\ Timeline(w) \in Nat /\ Timeline(w) >= 1
           /\ \A i \in DOMAIN w : w[i] \in Records /\ w[i][1] \in Nat
<1>1. w \in Seq(Records) /\ w # <<>>
  BY DEF Shape
<1>2. Len(w) \in Nat /\ Len(w) >= 1 /\ DOMAIN w = 1..Len(w)
  BY <1>1, EmptySeq, LenProperties
<1>3. \A i \in DOMAIN w : w[i] \in Records
  BY <1>1, <1>2, ElementOfSeq
<1>4. \A i \in DOMAIN w : w[i][1] \in Nat
  BY <1>3 DEF Records
<1>5. Timeline(w) = w[Len(w)][1]
  BY DEF Timeline, Last
<1>6. Timeline(w) \in Nat /\ Timeline(w) >= 1
  BY <1>2, <1>4, <1>5 DEF Shape
<1>. QED
  BY <1>2, <1>3, <1>4, <1>5, <1>6

LEMMA PrefixIsPart ==
    ASSUME NEW v \in Seq(Records), NEW w \in Seq(Records)
    PROVE  IsPrefix(v, w) <=> Part(v, w)
<1>1. /\ Len(v) \in Nat /\ Len(w) \in Nat /\ DOMAIN v = 1..Len(v) /\ DOMAIN w = 1..Len(w)
      /\ v = [i \in 1..Len(v) |-> v[i]]
  BY LenProperties, IsASeq
<1>2. SubSeq(v, 1, Len(v)) = v
  BY SubSeqFull
<1>3. CASE Len(v) <= Len(w)
  <2>1. SubSeq(w, 1, Len(v)) = [i \in 1..Len(v) |-> w[i]]
    BY <1>1, <1>3
  <2>. QED
    BY <1>1, <1>2, <2>1 DEF IsPrefix, Part
<1>4. CASE ~(Len(v) <= Len(w))
  BY <1>4 DEF IsPrefix, Part
<1>. QED
  BY <1>3, <1>4

LEMMA PartShape ==
    ASSUME NEW w, Shape(w), NEW v \in Seq(Records), v # <<>>, Part(v, w)
    PROVE  Shape(v)
<1>1. /\ Len(v) \in Nat /\ Len(v) >= 1 /\ DOMAIN v = 1..Len(v)
      /\ Timeline(v) = v[Len(v)][1]
  BY EmptySeq, LenProperties DEF Timeline, Last
<1>2. /\ Len(w) \in Nat /\ DOMAIN w = 1..Len(w) /\ Timeline(w) \in Nat
      /\ Timeline(w) = w[Len(w)][1] /\ \A i \in DOMAIN w : w[i][1] \in Nat
  BY ShapeFacts
<1>3. Len(v) <= Len(w) /\ \A i \in 1..Len(v) : v[i] = w[i]
  BY DEF Part
<1>4. v[1][1] >= 1 /\ \A i, j \in DOMAIN v : i <= j => v[i][1] <= v[j][1]
  BY <1>1, <1>2, <1>3 DEF Shape
<1>5. ASSUME NEW t \in 1..Timeline(v) PROVE \E i \in DOMAIN v : v[i][1] = t
  <2>1. w[Len(v)][1] <= Timeline(w) /\ Timeline(v) = w[Len(v)][1]
    BY <1>1, <1>2, <1>3 DEF Shape
  <2>0. t \in 1..Timeline(w)
    BY <1>1, <1>2, <1>3, <2>1
  <2>2. PICK i \in DOMAIN w : w[i][1] = t
    BY <2>0 DEF Shape
  <2>3. CASE i <= Len(v)
    BY <1>1, <1>2, <1>3, <2>2, <2>3
  <2>4. CASE ~(i <= Len(v))
    <3>1. w[Len(v)][1] <= w[i][1]
      BY <1>1, <1>2, <1>3, <2>4, SMTT(30) DEF Shape
    <3>2. v[Len(v)][1] = t
      BY <1>1, <1>2, <1>3, <2>1, <2>2, <3>1
    <3>. QED
      BY <1>1, <3>2
  <2>. QED
    BY <2>3, <2>4
<1>. QED
  BY <1>4, <1>5 DEF Shape

LEMMA PartAgrees ==
    ASSUME NEW x, NEW y, Shape(x), Shape(y), Agree(x, y),
           NEW v \in Seq(Records), NEW w \in Seq(Records), Part(v, x), Part(w, y)
    PROVE  Agree(v, w)
<1>1. /\ Len(v) \in Nat /\ DOMAIN v = 1..Len(v) /\ Len(w) \in Nat /\ DOMAIN w = 1..Len(w)
      /\ Len(x) \in Nat /\ DOMAIN x = 1..Len(x) /\ Len(y) \in Nat /\ DOMAIN y = 1..Len(y)
  BY LenProperties, ShapeFacts
<1>2. SUFFICES ASSUME NEW i \in DOMAIN v, NEW k \in DOMAIN w, i <= k, v[i][1] = w[k][1],
                      NEW j \in 1..i
               PROVE  v[j] = w[j]
  BY DEF Agree
<1>3. i \in DOMAIN x /\ k \in DOMAIN y /\ x[i][1] = y[k][1]
  BY <1>1, <1>2 DEF Part
<1>4. x[j] = y[j]
  BY <1>2, <1>3 DEF Agree
<1>. QED
  BY <1>1, <1>2, <1>4 DEF Part

LEMMA AppendFacts ==
    ASSUME NEW w, Shape(w), NEW r \in Records
    PROVE  /\ Append(w, r) \in Seq(Records) /\ Append(w, r) # <<>>
           /\ Len(Append(w, r)) = Len(w) + 1
           /\ \A i \in 1..Len(w) : Append(w, r)[i] = w[i]
           /\ Append(w, r)[Len(w) + 1] = r /\ Timeline(Append(w, r)) = r[1]
           /\ Part(w, Append(w, r))
<1>1. w \in Seq(Records) /\ Len(w) \in Nat /\ Len(w) >= 1
  BY ShapeFacts DEF Shape
<1>2. /\ Append(w, r) \in Seq(Records) /\ Append(w, r) # <<>>
      /\ Len(Append(w, r)) = Len(w) + 1
      /\ \A i \in 1..Len(w) : Append(w, r)[i] = w[i]
      /\ Append(w, r)[Len(w) + 1] = r
  BY <1>1, AppendProperties
<1>. QED
  BY <1>1, <1>2 DEF Timeline, Last, Part

LEMMA AppendShape ==
    ASSUME NEW w, Shape(w), NEW r \in Records, r[1] \in {Timeline(w), Timeline(w) + 1}
    PROVE  Shape(Append(w, r))
<1>. DEFINE v == Append(w, r)
            n == Len(w)
<1>1. /\ v \in Seq(Records) /\ v # <<>> /\ Len(v) = n + 1 /\ Timeline(v) = r[1]
      /\ \A i \in 1..n : v[i] = w[i]
      /\ v[n + 1] = r
  BY AppendFacts
<1>2. /\ n \in Nat /\ n >= 1 /\ DOMAIN w = 1..n /\ Timeline(w) \in Nat
      /\ Timeline(w) = w[n][1] /\ \A i \in DOMAIN w : w[i][1] \in Nat
  BY ShapeFacts
<1>3. DOMAIN v = 1..(n + 1)
  BY <1>1, LenProperties
<1>. HIDE DEF v, n
<1>4. v[1][1] >= 1
  BY <1>1, <1>2 DEF Shape
<1>5. ASSUME NEW i \in 1..(n + 1), NEW j \in 1..(n + 1), i <= j PROVE v[i][1] <= v[j][1]
  <2>1. \A h \in 1..n : w[h][1] <= Timeline(w)
    BY <1>2 DEF Shape
  <2>2. CASE j <= n
    BY <1>1, <1>2, <1>5, <2>2 DEF Shape
  <2>3. CASE j = n + 1 /\ i <= n
    <3>1. i \in 1..n /\ v[i] = w[i] /\ v[j] = r
      BY <1>1, <1>2, <2>3
    <3>. QED
      BY <1>2, <2>1, <3>1
  <2>4. CASE j = n + 1 /\ i = n + 1
    BY <1>1, <1>2, <2>4
  <2>. QED
    BY <1>2, <1>5, <2>2, <2>3, <2>4
<1>6. ASSUME NEW t \in 1..Timeline(v) PROVE \E i \in 1..(n + 1) : v[i][1] = t
  <2>1. CASE t = r[1]
    BY <1>1, <1>2, <2>1
  <2>2. CASE t # r[1]
    <3>1. PICK i \in 1..n : w[i][1] = t
      BY <1>1, <1>2, <2>2, SMTT(30) DEF Shape
    <3>. QED
      BY <1>1, <1>2, <3>1
  <2>. QED
    BY <2>1, <2>2
<1>. QED
  BY <1>1, <1>3, <1>4, <1>5, <1>6 DEF Shape, v

(* The WALs of a cluster. *)
WalsOK ==
    /\ wal = [m \in Members |-> wal[m]] /\ \A m \in Members : Shape(wal[m])
    /\ \A m, o \in Members : Agree(wal[m], wal[o])

(* Nobody has more of the last timeline of m than m. *)
Longest(m) ==
    \A o \in Members : \A k \in DOMAIN wal[o] :
        wal[o][k][1] = Timeline(wal[m]) => k <= Len(wal[m])

(* A step that adds no record: a WAL is cut, or replaced by a part of another one. *)
LEMMA NoRecordAdded ==
    ASSUME WalsOK, wal' = [m \in Members |-> wal'[m]],
           \A m \in Members : /\ wal'[m] \in Seq(Records) /\ wal'[m] # <<>>
                              /\ \E p \in Members : Part(wal'[m], wal[p])
    PROVE  /\ WalsOK'
           /\ \A m \in Members : Longest(m) /\ wal'[m] = wal[m] => Longest(m)'
<1>1. ASSUME NEW m \in Members PROVE Shape(wal'[m])
  BY PartShape DEF WalsOK
<1>2. ASSUME NEW m \in Members, NEW o \in Members PROVE Agree(wal'[m], wal'[o])
  <2>1. PICK p \in Members : Part(wal'[m], wal[p])
    OBVIOUS
  <2>2. PICK q \in Members : Part(wal'[o], wal[q])
    OBVIOUS
  <2>3. Shape(wal[p]) /\ Shape(wal[q]) /\ Agree(wal[p], wal[q])
    BY DEF WalsOK
  <2>4. wal'[m] \in Seq(Records) /\ wal'[o] \in Seq(Records)
    OBVIOUS
  <2>. QED
    BY <2>1, <2>2, <2>3, <2>4, PartAgrees
<1>3. ASSUME NEW m \in Members, Longest(m), wal'[m] = wal[m] PROVE Longest(m)'
  <2>1. SUFFICES ASSUME NEW o \in Members, NEW k \in DOMAIN wal'[o],
                        wal'[o][k][1] = Timeline(wal'[m])
                 PROVE  k <= Len(wal'[m])
    BY DEF Longest
  <2>2. PICK p \in Members : Part(wal'[o], wal[p])
    OBVIOUS
  <2>3. k \in DOMAIN wal[p] /\ wal[p][k] = wal'[o][k]
    <3>1. Shape(wal'[o]) /\ Shape(wal[p])
      BY <1>1 DEF WalsOK
    <3>2. /\ DOMAIN wal'[o] = 1..Len(wal'[o]) /\ Len(wal'[o]) \in Nat
          /\ DOMAIN wal[p] = 1..Len(wal[p]) /\ Len(wal[p]) \in Nat
      BY <3>1, ShapeFacts
    <3>3. k \in 1..Len(wal'[o]) /\ Len(wal'[o]) <= Len(wal[p])
          /\ \A i \in 1..Len(wal'[o]) : wal'[o][i] = wal[p][i]
      BY <2>2, <3>2 DEF Part
    <3>4. k \in 1..Len(wal[p])
      <4>1. \A i, a, b \in Nat : i \in 1..a /\ a <= b => i \in 1..b
        OBVIOUS
      <4>2. k \in Nat
        BY <3>3
      <4>. QED
        BY <3>2, <3>3, <4>1, <4>2
    <3>. QED
      BY <3>2, <3>3, <3>4, Zenon
  <2>. QED
    BY <1>3, <2>1, <2>3 DEF Longest
<1>. QED
  BY <1>1, <1>2, <1>3 DEF WalsOK

LEMMA AppendAgrees ==
    ASSUME NEW w, Shape(w), NEW v, Shape(v), Agree(v, w), Agree(w, v),
           NEW r \in Records,
           \A k \in DOMAIN v : v[k][1] = r[1] => k <= Len(w) /\ r[1] = Timeline(w)
    PROVE  Agree(Append(w, r), v) /\ Agree(v, Append(w, r))
<1>. DEFINE x == Append(w, r)
            n == Len(w)
<1>1. /\ x \in Seq(Records) /\ Len(x) = n + 1 /\ x[n + 1] = r
      /\ \A i \in 1..n : x[i] = w[i]
  BY AppendFacts
<1>2. /\ n \in Nat /\ n >= 1 /\ DOMAIN w = 1..n /\ Timeline(w) = w[n][1]
      /\ Len(v) \in Nat /\ DOMAIN v = 1..Len(v)
  BY ShapeFacts
<1>3. DOMAIN x = 1..(n + 1)
  BY <1>1, LenProperties
<1>. HIDE DEF x, n
<1>4. ASSUME NEW i \in DOMAIN x, NEW k \in DOMAIN v, i <= k, x[i][1] = v[k][1],
             NEW j \in 1..i
      PROVE  x[j] = v[j]
  <2>1. i \in 1..n
    <3>. SUFFICES ASSUME i = n + 1 PROVE FALSE
      BY <1>2, <1>3, <1>4
    <3>. QED
      BY <1>1, <1>2, <1>4 DEF n
  <2>2. x[i] = w[i] /\ x[j] = w[j]
    BY <1>1, <1>2, <1>4, <2>1
  <2>3. w[j] = v[j]
    BY <1>2, <1>4, <2>1, <2>2 DEF Agree
  <2>. QED
    BY <2>2, <2>3
<1>5. ASSUME NEW i \in DOMAIN v, NEW k \in DOMAIN x, i <= k, v[i][1] = x[k][1],
             NEW j \in 1..i
      PROVE  v[j] = x[j]
  <2>1. CASE k <= n
    <3>1. k \in DOMAIN w /\ x[k] = w[k] /\ x[j] = w[j]
      BY <1>1, <1>2, <1>3, <1>5, <2>1
    <3>2. v[j] = w[j]
      BY <1>5, <3>1 DEF Agree
    <3>. QED
      BY <3>1, <3>2
  <2>2. CASE k = n + 1
    <3>1. i <= n /\ r[1] = w[n][1] /\ v[i][1] = r[1]
      BY <1>1, <1>2, <1>5, <2>2 DEF n
    <3>2. n \in DOMAIN w /\ v[i][1] = w[n][1] /\ x[j] = w[j]
      BY <1>1, <1>2, <1>5, <3>1
    <3>3. v[j] = w[j]
      BY <1>5, <3>1, <3>2 DEF Agree
    <3>. QED
      BY <3>2, <3>3
  <2>. QED
    BY <1>2, <1>3, <1>5, <2>1, <2>2
<1>. QED
  BY <1>4, <1>5 DEF Agree, x

(* The members of G, who have the WAL of m, get its next record, which is on its own
   timeline, of which m has the most, or on a new one. *)
LEMMA RecordAdded ==
    ASSUME WalsOK, NEW m \in Members, NEW G \in SUBSET Members, m \in G,
           \A o \in G : wal[o] = wal[m],
           NEW r \in Records,
           \/ r[1] = Timeline(wal[m]) /\ Longest(m)
           \/ /\ r[1] = Timeline(wal[m]) + 1
              /\ \A o \in Members : Timeline(wal[o]) <= Timeline(wal[m]),
           wal' = [o \in Members |-> IF o \in G THEN Append(wal[m], r) ELSE wal[o]]
    PROVE  /\ WalsOK' /\ Longest(m)' /\ Timeline(wal'[m]) = r[1]
           /\ \A o \in Members : Part(wal[o], wal'[o])
           /\ \A o \in Members \ G : Longest(o) /\ Timeline(wal[o]) # r[1] => Longest(o)'
<1>. DEFINE w == wal[m]
            x == Append(w, r)
<1>1. /\ Shape(w) /\ \A o \in Members : Shape(wal[o])
      /\ \A o \in Members : Agree(w, wal[o]) /\ Agree(wal[o], w)
  BY DEF WalsOK
<1>2. /\ x \in Seq(Records) /\ x # <<>> /\ Len(x) = Len(w) + 1
      /\ x[Len(w) + 1] = r /\ Timeline(x) = r[1] /\ Part(w, x)
      /\ \A i \in 1..Len(w) : x[i] = w[i]
  BY <1>1, AppendFacts
<1>3. Shape(x)
  BY <1>1, AppendShape
<1>4. /\ Len(w) \in Nat /\ Timeline(w) \in Nat
      /\ DOMAIN w = 1..Len(w) /\ \A i \in DOMAIN w : w[i][1] \in Nat
      /\ DOMAIN x = 1..(Len(w) + 1)
  BY <1>1, <1>2, <1>3, ShapeFacts
<1>5. ASSUME NEW o \in Members, NEW k \in DOMAIN wal[o], wal[o][k][1] = r[1]
      PROVE  k <= Len(w) /\ r[1] = Timeline(w)
  <2>1. CASE r[1] = Timeline(w) /\ Longest(m)
    BY <1>5, <2>1 DEF Longest
  <2>2. CASE r[1] = Timeline(w) + 1 /\ Timeline(wal[o]) <= Timeline(w)
    <3>1. /\ Len(wal[o]) \in DOMAIN wal[o] /\ k <= Len(wal[o])
          /\ wal[o][Len(wal[o])][1] = Timeline(wal[o])
          /\ Timeline(wal[o]) \in Nat /\ wal[o][k][1] \in Nat
      BY <1>1, ShapeFacts
    <3>2. wal[o][k][1] <= Timeline(wal[o])
      BY <1>1, <3>1 DEF Shape
    <3>. QED
      BY <1>4, <1>5, <2>2, <3>1, <3>2
  <2>. QED
    BY <2>1, <2>2
<1>. HIDE DEF x, w
<1>6. \A o \in Members : Agree(x, wal[o]) /\ Agree(wal[o], x)
  BY <1>1, <1>5, AppendAgrees DEF x
<1>7. \A o \in Members : wal'[o] = IF o \in G THEN x ELSE wal[o]
  BY DEF x, w
<1>8. Agree(x, x)
  BY DEF Agree
<1>9. WalsOK'
  <2>1. wal' = [o \in Members |-> wal'[o]]
    BY <1>7 DEF x, w
  <2>. QED
    BY <1>1, <1>3, <1>6, <1>7, <1>8, <2>1 DEF WalsOK
<1>10. Timeline(wal'[m]) = r[1]
  BY <1>2, <1>7
<1>11. Longest(m)'
  <2>1. SUFFICES ASSUME NEW o \in Members, NEW k \in DOMAIN wal'[o], wal'[o][k][1] = r[1]
                 PROVE  k <= Len(wal'[m])
    BY <1>10 DEF Longest
  <2>2. wal'[m] = x
    BY <1>7
  <2>3. CASE o \in G
    BY <1>2, <1>4, <1>7, <2>1, <2>2, <2>3
  <2>4. CASE o \notin G
    <3>1. k \in DOMAIN wal[o] /\ wal[o][k][1] = r[1]
      BY <1>7, <2>1, <2>4
    <3>2. k <= Len(w) /\ k \in Nat
      BY <1>1, <1>5, <3>1, ShapeFacts
    <3>. QED
      BY <1>2, <1>4, <2>2, <3>2
  <2>. QED
    BY <2>3, <2>4
<1>12. ASSUME NEW o \in Members PROVE Part(wal[o], wal'[o])
  <2>1. CASE o \in G
    BY <1>2, <1>7, <2>1 DEF w
  <2>2. CASE o \notin G
    <3>1. Len(wal[o]) \in Nat
      BY <1>1, ShapeFacts
    <3>. QED
      BY <1>7, <2>2, <3>1 DEF Part
  <2>. QED
    BY <2>1, <2>2
<1>13. ASSUME NEW o \in Members \ G, Longest(o), Timeline(wal[o]) # r[1] PROVE Longest(o)'
  <2>1. wal'[o] = wal[o]
    BY <1>7
  <2>2. SUFFICES ASSUME NEW p \in Members, NEW k \in DOMAIN wal'[p],
                        wal'[p][k][1] = Timeline(wal[o])
                 PROVE  k <= Len(wal[o])
    BY <2>1 DEF Longest
  <2>3. CASE p \in G
    <3>1. wal'[p] = x /\ k # Len(w) + 1
      BY <1>2, <1>7, <1>13, <2>2, <2>3
    <3>2. k \in DOMAIN w /\ w[k][1] = Timeline(wal[o])
      BY <1>2, <1>4, <2>2, <3>1
    <3>. QED
      BY <1>13, <3>2 DEF Longest, w
  <2>4. CASE p \notin G
    BY <1>7, <1>13, <2>2, <2>4 DEF Longest
  <2>. QED
    BY <2>3, <2>4
<1>. QED
  BY <1>9, <1>10, <1>11, <1>12, <1>13

(* Where timeline t ends in w, if a record at n or before is not on it or an earlier one. *)
LEMMA SwitchpointBefore ==
    ASSUME NEW w, Shape(w), NEW t \in Nat, NEW n \in DOMAIN w, w[n][1] > t
    PROVE  Switchpoint(t, w) \in Nat /\ Switchpoint(t, w) < n
<1>. DEFINE S == {i \in DOMAIN w : w[i][1] <= t}
<1>1. Len(w) \in Nat /\ DOMAIN w = 1..Len(w) /\ \A i \in DOMAIN w : w[i][1] \in Nat
  BY ShapeFacts
<1>2. S \subseteq 1..(n - 1)
  <2>1. SUFFICES ASSUME NEW i \in DOMAIN w, w[i][1] <= t, i >= n PROVE FALSE
    BY <1>1
  <2>2. w[n][1] <= w[i][1]
    BY <2>1 DEF Shape
  <2>. QED
    BY <1>1, <2>1, <2>2
<1>3. n - 1 \in Nat /\ IsFiniteSet(1..(n - 1)) /\ Cardinality(1..(n - 1)) = n - 1
  <2>1. n - 1 \in Nat
    BY <1>1
  <2>. QED
    BY <2>1, FS_Interval
<1>4. IsFiniteSet(S) /\ Cardinality(S) <= n - 1
  BY <1>2, <1>3, FS_Subset
<1>5. Cardinality(S) \in Nat
  BY <1>4, FS_CardinalityType
<1>. QED
  BY <1>1, <1>4, <1>5 DEF Switchpoint

(* The decision is right: if the leader l has all there is of its timeline, and it is the
   newest, then a member that needs no rewind has a part of the WAL of l. *)
THEOREM NotNeededIsPart ==
    ASSUME WalsOK, NEW m \in Members, NEW l \in Members, Longest(l),
           Timeline(wal[m]) <= Timeline(wal[l]), ~RewindNeeded(m, l)
    PROVE  Part(wal[m], wal[l])
<1>. DEFINE v == wal[m]
            w == wal[l]
            n == Len(v)
            t == Timeline(v)
<1>1. Shape(v) /\ Shape(w) /\ Agree(v, w)
  BY DEF WalsOK
<1>2. /\ n \in Nat /\ n >= 1 /\ DOMAIN v = 1..n /\ t = v[n][1] /\ t \in Nat /\ t >= 1
      /\ Len(w) \in Nat /\ DOMAIN w = 1..Len(w) /\ Timeline(w) \in Nat
      /\ Timeline(w) = w[Len(w)][1] /\ Len(w) \in DOMAIN w
      /\ \A i \in DOMAIN w : w[i][1] \in Nat
  BY <1>1, ShapeFacts
<1>. HIDE DEF v, w, n, t
<1>3. ASSUME NEW k \in DOMAIN w, n <= k, w[k][1] = t PROVE Part(v, w)
  <2>1. n \in DOMAIN v /\ v[n][1] = w[k][1] /\ k <= Len(w)
    BY <1>2, <1>3
  <2>2. \A j \in 1..n : v[j] = w[j]
    BY <1>1, <1>3, <2>1 DEF Agree
  <2>3. n <= Len(w)
    BY <1>2, <1>3, <2>1
  <2>. QED
    BY <2>2, <2>3 DEF Part, n
<1>4. CASE t = Timeline(w)
  <2>1. n <= Len(w)
    <3>1. n \in DOMAIN v /\ v[n][1] = Timeline(w)
      BY <1>2, <1>4
    <3>. QED
      BY <3>1 DEF Longest, v, w
  <2>. QED
    BY <1>2, <1>3, <1>4, <2>1 DEF v, w
<1>5. CASE t < Timeline(w)
  <2>0. t \in 1..Timeline(w)
    BY <1>2, <1>5
  <2>1. PICK p \in DOMAIN w : w[p][1] = t
    BY <1>1, <2>0 DEF Shape
  <2>2. n = Switchpoint(t, w) \/ ~(n > Switchpoint(t, w))
    <3>1. InHistory(t, w)
      BY <2>1 DEF InHistory
    <3>. QED
      BY <1>5, <3>1 DEF RewindNeeded, CheckpointEnd, v, w, n, t
  <2>3. CASE p >= n
    BY <1>2, <1>3, <2>1, <2>3 DEF v, w
  <2>4. CASE p < n
    <3>1. Switchpoint(t, w) < n \/ (n \in DOMAIN w /\ w[n][1] <= t)
      <4>1. CASE n \in DOMAIN w /\ w[n][1] > t
        BY <1>1, <1>2, <4>1, SwitchpointBefore
      <4>2. CASE n \notin DOMAIN w
        <5>1. Len(w) < n /\ w[Len(w)][1] > t
          BY <1>2, <1>5, <4>2
        <5>2. Switchpoint(t, w) \in Nat /\ Switchpoint(t, w) < Len(w)
          BY <1>1, <1>2, <5>1, SwitchpointBefore
        <5>. QED
          BY <1>2, <5>1, <5>2
      <4>. QED
        BY <1>2, <4>1, <4>2
    <3>2. CASE n \in DOMAIN w /\ w[n][1] <= t
      <4>1. w[p][1] <= w[n][1]
        BY <1>1, <1>2, <2>4, <3>2 DEF Shape
      <4>. QED
        BY <1>2, <1>3, <2>1, <3>2, <4>1 DEF v, w
    <3>3. CASE Switchpoint(t, w) < n /\ ~(n \in DOMAIN w /\ w[n][1] <= t)
      <4>1. Switchpoint(t, w) \in Nat
        <5>1. w[Len(w)][1] > t
          BY <1>2, <1>5
        <5>. QED
          BY <1>1, <1>2, <5>1, SwitchpointBefore
      <4>. QED
        BY <1>2, <2>2, <3>3, <4>1
    <3>. QED
      BY <3>1, <3>2, <3>3
  <2>. QED
    BY <1>2, <2>3, <2>4
<1>. QED
  BY <1>2, <1>4, <1>5 DEF v, w, t

-----------------------------------------------------------------------------
(* What a step of one member leaves alone. *)

(* The other variables that the argument needs. *)
MoreTypes ==
    /\ settings \in Settings /\ source \in [Members -> Members \cup {NoMember}]
    /\ recovering \subseteq Members /\ started \subseteq Members

(* Only the owner of the key is a primary or becomes one; it neither rewinds nor clones;
   a base backup ends in the term that it was begun in, or before the next. *)
JobOK(m) ==
    /\ server[m] = "primary" => keyOwner = m
    /\ job[m].kind \in {"promote", "promoted"} => keyOwner = m
    /\ keyOwner = m =>
         job[m].kind \in {"none", "promote", "promoted", "start", "single user"}
    /\ job[m].kind = "single user" => server[m] = "production"
    /\ job[m].kind = "demoted" /\ CanAct => rewind[m] \in {"CHECK", "NEED"}
    /\ job[m].kind \in {"rewind", "copy", "reinitialize", "clone", "cloned"} =>
         job[m].leader \in Members \ {m}
    /\ job[m].kind \in {"reinitialize", "clone", "cloned"} =>
         keyOwner \in {job[m].leader, NoMember}
    /\ job[m].kind = "cloned" => rewind[m] = "INITIAL"

(* A member after its rewind: until it has started and taken note of that. *)
SuccessOK(m) ==
    rewind[m] = "SUCCESS" =>
        /\ server[m] \in {"archive", "replica"} /\ job[m].kind \in {"none", "start"}
        /\ server[m] = "replica" \/ job[m].kind = "start" => m \in recovering
        /\ keyOwner # m

(* A step of m leaves alone what the others are and do. *)
Same(o) ==
    /\ server'[o] = server[o] /\ status'[o] = status[o] /\ source'[o] = source[o]
    /\ rewind'[o] = rewind[o]
    /\ job'[o].kind = job[o].kind /\ job'[o].leader = job[o].leader
    /\ o \in recovering' <=> o \in recovering
    /\ o \in started' <=> o \in started

(* Who has written the end of its WAL itself, and the owner of the key while it is
   published as a leader. *)
Author(m) == IsMaster(m) \/ (keyOwner = m /\ status[m].master)

Elected(m) == keyOwner = NoMember /\ ElectionCycle(m)

StepEffect(m) ==
    /\ \A o \in Members \ {m} : Same(o)
    /\ MoreTypes' /\ settings' = settings
    /\ \/ keyOwner' = keyOwner
       \/ keyOwner = m /\ keyOwner' = NoMember
       \/ Elected(m) /\ keyOwner' = m
    /\ Author(m)' => Author(m) \/ Promote(m)

LEMMA EndCycleSelf ==
    ASSUME RewindInv, NEW m \in Members, NEW s, NEW j, NEW leads \in BOOLEAN,
           EndCycle(m, s, j, leads)
    PROVE  /\ rewind'[m] = s /\ job'[m] = j
           /\ status'[m].master => leads /\ IsMaster(m)
           /\ \A o \in Members \ {m} :
                /\ rewind'[o] = rewind[o] /\ status'[o] = status[o]
                /\ job'[o].kind = job[o].kind /\ job'[o].leader = job[o].leader
<1>1. /\ rewind'[m] = s /\ status'[m].master = (leads /\ IsMaster(m))
      /\ \A o \in Members \ {m} : rewind'[o] = rewind[o] /\ status'[o] = status[o]
  BY DEF EndCycle, RewindInv, RewindTypes
<1>2. job'[m] = j
  BY DEF EndCycle, WithJob
<1>3. ASSUME NEW o \in Members \ {m}
      PROVE  job'[o].kind = job[o].kind /\ job'[o].leader = job[o].leader
  <2>1. job[o] \in JobRecords
    BY DEF RewindInv, RewindTypes
  <2>2. job'[o] \in {job[o], [job[o] EXCEPT !.ready = FALSE]}
    BY DEF EndCycle, WithJob
  <2>. QED
    BY <2>1, <2>2 DEF JobRecords
<1>. QED
  BY <1>1, <1>2, <1>3

(* The cycles of the HA loop. *)
LEMMA CycleStep ==
    ASSUME RewindInv, MoreTypes, NEW m \in Members, NEW s, NEW j, NEW leads \in BOOLEAN,
           EndCycle(m, s, j, leads), UNCHANGED <<settings, server>>,
           source' \in {source, [source EXCEPT ![m] = keyOwner]},
           recovering' \in {recovering, recovering \cup {m}, recovering \ {m}},
           started' \in {started, started \cup {m}},
           \/ keyOwner' = keyOwner
           \/ keyOwner = m /\ keyOwner' = NoMember
           \/ Elected(m) /\ keyOwner' = m
    PROVE  StepEffect(m)
<1>1. /\ status'[m].master => IsMaster(m)
      /\ \A o \in Members \ {m} :
           /\ rewind'[o] = rewind[o] /\ status'[o] = status[o]
           /\ job'[o].kind = job[o].kind /\ job'[o].leader = job[o].leader
  BY EndCycleSelf
<1>2. MoreTypes'
  BY DEF MoreTypes, RewindInv, RewindTypes
<1>3. Author(m)' => Author(m)
  BY <1>1 DEF Author, IsMaster
<1>4. \A o \in Members \ {m} : Same(o)
  BY <1>1 DEF Same, MoreTypes
<1>. QED
  BY <1>2, <1>3, <1>4 DEF StepEffect

LEMMA CyclesEffect ==
    ASSUME RewindInv, MoreTypes, NEW m \in Members, Cycle(m) \/ BusyCycle(m)
    PROVE  StepEffect(m)
<1>0. RecoveryEnds(m) => recovering' \in {recovering, recovering \cup {m}, recovering \ {m}}
  BY DEF RecoveryEnds
<1>1. CASE LeaderCycle(m)
  BY <1>0, <1>1, CycleStep DEF LeaderCycle
<1>2. CASE ElectionCycle(m)
  <2>1. keyOwner = m \/ Elected(m)
    BY <1>2 DEF ElectionCycle, Elected
  <2>. QED
    BY <1>0, <1>2, <2>1, CycleStep DEF ElectionCycle
<1>3. CASE FollowCycle(m)
  <2>1. PICK s, j : EndCycle(m, s, j, FALSE)
    BY <1>3 DEF FollowCycle
  <2>2. /\ UNCHANGED <<keyOwner, settings, server>> /\ RecoveryEnds(m)
        /\ source' \in {source, [source EXCEPT ![m] = keyOwner]}
        /\ started' \in {started, started \cup {m}}
    BY <1>3 DEF FollowCycle
  <2>. QED
    BY <1>0, <2>1, <2>2, CycleStep
<1>4. CASE GiveUpCycle(m)
  BY <1>4, CycleStep DEF GiveUpCycle
<1>5. CASE RecoverCycle(m)
  <2>1. PICK s, j : EndCycle(m, s, j, keyOwner = m)
    BY <1>5 DEF RecoverCycle
  <2>2. /\ UNCHANGED <<keyOwner, settings, server, source, started>>
        /\ recovering' \in {recovering, recovering \cup {m}, recovering \ {m}}
    BY <1>5 DEF RecoverCycle
  <2>. QED
    BY <2>1, <2>2, CycleStep
<1>6. CASE CloneCycle(m)
  <2>1. PICK s, j : EndCycle(m, s, j, FALSE)
    BY <1>6 DEF CloneCycle
  <2>2. /\ UNCHANGED <<settings, server, source, recovering, started>>
        /\ keyOwner' = keyOwner \/ (keyOwner = m /\ keyOwner' = NoMember)
    BY <1>6 DEF CloneCycle
  <2>. QED
    BY <2>1, <2>2, CycleStep
<1>7. CASE BusyCycle(m)
  BY <1>7, CycleStep DEF BusyCycle
<1>. QED
  BY <1>1, <1>2, <1>3, <1>4, <1>5, <1>6, <1>7 DEF Cycle

(* The tasks. *)
LEMMA WorkEffect ==
    ASSUME RewindInv, MoreTypes, NEW m \in Members, JobOK(m), Work(m)
    PROVE  StepEffect(m)
<1>t. /\ RewindTypes /\ job[m] \in JobRecords /\ job[m].leader \in Members \cup {NoMember}
      /\ TaskOK(m)
  BY DEF RewindInv, RewindTypes, JobRecords
<1>1. UNCHANGED <<settings, keyOwner, status, recovering, started>>
  BY DEF Work, Promote, Promoted, PromoteFails, Start, SingleUser, PrepareRewind,
         CopyFromLeader, CopyFails, Reinitialize, Clone, StartCopy, AfterDemotion
<1>2. source' \in [Members -> Members \cup {NoMember}]
      /\ \A o \in Members \ {m} : source'[o] = source[o]
  <2>1. CASE Start(m)
    BY <1>t, <2>1 DEF Start, MoreTypes
  <2>2. CASE ~Start(m)
    BY <2>2 DEF Work, Promote, Promoted, PromoteFails, SingleUser, PrepareRewind,
         CopyFromLeader, CopyFails, Reinitialize, Clone, StartCopy, AfterDemotion, MoreTypes
  <2>. QED
    BY <2>1, <2>2
<1>3. \A o \in Members \ {m} : server'[o] = server[o]
  BY <1>t DEF Work, Promote, Promoted, PromoteFails, Start, SingleUser, PrepareRewind,
         CopyFromLeader, CopyFails, Reinitialize, Clone, StartCopy, AfterDemotion, RewindTypes
<1>4. \A o \in Members \ {m} : rewind'[o] = rewind[o]
  BY <1>t DEF Work, Promote, Promoted, PromoteFails, Start, SingleUser, PrepareRewind,
         CopyFromLeader, CopyFails, Reinitialize, Clone, StartCopy, AfterDemotion, RewindTypes
<1>5. \A o \in Members \ {m} : job'[o] = job[o]
  <2>1. \E j : job' = [job EXCEPT ![m] = j]
    BY DEF Work, Promote, Promoted, PromoteFails, Start, SingleUser, PrepareRewind, Done,
         CopyFromLeader, CopyFails, Reinitialize, Clone, StartCopy, AfterDemotion
  <2>. QED
    BY <1>t, <2>1 DEF RewindTypes
<1>6. IsMaster(m)' => IsMaster(m) \/ Promote(m)
  <2>1. CASE Start(m) \/ CopyFromLeader(m) \/ Clone(m)
    BY <1>t, <2>1 DEF Start, CopyFromLeader, Clone, IsMaster, RewindTypes
  <2>2. CASE SingleUser(m)
    BY <2>2 DEF SingleUser, IsMaster, JobOK
  <2>3. CASE PrepareRewind(m) \/ Reinitialize(m)
    BY <1>t, <2>3 DEF PrepareRewind, Reinitialize, AfterStop, IsMaster, RewindTypes
  <2>4. CASE CopyFails(m)
    BY <1>t, <2>4 DEF CopyFails, IsMaster, RewindTypes
  <2>5. CASE Promoted(m) \/ PromoteFails(m) \/ StartCopy(m) \/ AfterDemotion(m)
    BY <1>t, <2>5 DEF Promoted, PromoteFails, StartCopy, AfterDemotion, IsMaster
  <2>. QED
    BY <2>1, <2>2, <2>3, <2>4, <2>5 DEF Work
<1>. QED
  BY <1>1, <1>2, <1>3, <1>4, <1>5, <1>6 DEF StepEffect, Same, MoreTypes, Author

Acts(m) ==
    \/ Commit(m) \/ Stream(m) \/ Checkpoint(m) \/ CheckpointEnds(m)
    \/ Cycle(m) \/ BusyCycle(m) \/ Work(m)
    \/ ServerCrash(m) \/ RestartPatroni(m) \/ LoseKey(m)
    \/ DemoteAtOnce(m) \/ DemoteGracefully(m)

LEMMA StepHasEffect ==
    ASSUME RewindInv, MoreTypes, NEW m \in Members, JobOK(m), Acts(m)
    PROVE  StepEffect(m)
<1>t. RewindTypes
  BY DEF RewindInv
<1>1. CASE Commit(m) \/ Stream(m) \/ Checkpoint(m) \/ CheckpointEnds(m)
  BY <1>1 DEF Commit, Stream, Checkpoint, CheckpointEnds, StepEffect, Same, MoreTypes,
              Author, IsMaster
<1>2. CASE LoseKey(m)
  BY <1>2 DEF LoseKey, StepEffect, Same, MoreTypes, Author, IsMaster
<1>3. CASE ServerCrash(m)
  <2>1. /\ server' = [server EXCEPT ![m] = IF @ = "primary" THEN "production" ELSE "archive"]
        /\ job' = WithJob(m, job[m], TRUE)
        /\ UNCHANGED <<settings, keyOwner, status, source, rewind, recovering, started>>
    BY <1>3 DEF ServerCrash
  <2>2. \A o \in Members \ {m} : job'[o].kind = job[o].kind /\ job'[o].leader = job[o].leader
    <3>1. SUFFICES ASSUME NEW o \in Members \ {m}
                   PROVE  job'[o].kind = job[o].kind /\ job'[o].leader = job[o].leader
      OBVIOUS
    <3>2. job'[o] \in {job[o], [job[o] EXCEPT !.ready = FALSE]} /\ job[o] \in JobRecords
      BY <1>t, <2>1 DEF WithJob, RewindTypes
    <3>. QED
      BY <3>2 DEF JobRecords
  <2>3. IsMaster(m)' => IsMaster(m)
    BY <1>t, <2>1 DEF IsMaster, RewindTypes
  <2>4. \A o \in Members \ {m} : server'[o] = server[o]
    BY <1>t, <2>1 DEF RewindTypes
  <2>. QED
    BY <2>1, <2>2, <2>3, <2>4 DEF StepEffect, Same, MoreTypes, Author
<1>4. CASE RestartPatroni(m)
  BY <1>t, <1>4 DEF RestartPatroni, StepEffect, Same, MoreTypes, Author, IsMaster, RewindTypes
<1>5. CASE DemoteAtOnce(m) \/ DemoteGracefully(m)
  <2>1. PICK j, v : EndCycle(m, Triggered(rewind[m]), j, FALSE)
                    /\ server' = [server EXCEPT ![m] = v]
    BY <1>5 DEF DemoteAtOnce, DemoteGracefully
  <2>2. /\ server[m] = "primary" /\ keyOwner = m /\ keyOwner' = NoMember
        /\ UNCHANGED <<settings, source, recovering, started>>
    BY <1>5 DEF DemoteAtOnce, DemoteGracefully
  <2>3. /\ \A o \in Members \ {m} :
             /\ rewind'[o] = rewind[o] /\ status'[o] = status[o] /\ server'[o] = server[o]
             /\ job'[o].kind = job[o].kind /\ job'[o].leader = job[o].leader
    BY <1>t, <2>1, EndCycleSelf DEF RewindTypes
  <2>. QED
    BY <2>2, <2>3 DEF StepEffect, Same, MoreTypes, Author, IsMaster
<1>. QED
  BY <1>1, <1>2, <1>3, <1>4, <1>5, CyclesEffect, WorkEffect DEF Acts

-----------------------------------------------------------------------------
(* Who writes, and that nobody has more of the timeline of a member that does. *)

AuthorsOK ==
    \A m \in Members : Author(m) =>
        /\ Longest(m)
        /\ \A o \in Members \ {m} : Author(o) => Timeline(wal[o]) # Timeline(wal[m])

OwnerIsNewest ==
    keyOwner # NoMember =>
        \A o \in Members : Timeline(wal[o]) <= Timeline(wal[keyOwner])

WalInv == WalsOK /\ AuthorsOK /\ OwnerIsNewest

LEMMA PartTimeline ==
    ASSUME NEW v, NEW w, Shape(v), Shape(w), Part(v, w)
    PROVE  Timeline(v) <= Timeline(w)
<1>1. /\ Len(v) \in Nat /\ Len(v) >= 1 /\ Len(w) \in Nat /\ DOMAIN w = 1..Len(w)
      /\ Timeline(v) = v[Len(v)][1] /\ Timeline(w) = w[Len(w)][1]
      /\ Len(v) <= Len(w) /\ \A i \in 1..Len(v) : v[i] = w[i]
  BY ShapeFacts DEF Part
<1>2. Len(v) \in DOMAIN w /\ Len(w) \in DOMAIN w /\ v[Len(v)] = w[Len(v)]
  BY <1>1
<1>. QED
  BY <1>1, <1>2 DEF Shape

LEMMA AuthorsBefore ==
    ASSUME NEW m \in Members, StepEffect(m), NEW o \in Members, Author(o)'
    PROVE  Author(o) \/ (o = m /\ Promote(m))
<1>1. CASE o = m
  BY <1>1 DEF StepEffect
<1>2. CASE o # m
  <2>1. keyOwner' = o => keyOwner = o
    BY <1>2, NoMemberAssumption DEF StepEffect
  <2>2. server'[o] = server[o] /\ status'[o] = status[o]
    BY <1>2 DEF StepEffect, Same
  <2>. QED
    BY <2>1, <2>2 DEF Author, IsMaster
<1>. QED
  BY <1>1, <1>2

LEMMA WalsSame ==
    ASSUME WalInv, ~Orphans, NEW m \in Members, StepEffect(m), ~Promote(m), wal' = wal
    PROVE  WalInv'
<1>1. WalsOK' /\ \A o \in Members : Longest(o) => Longest(o)'
  BY DEF WalInv, WalsOK, Longest
<1>2. AuthorsOK'
  BY <1>1, AuthorsBefore DEF WalInv, AuthorsOK
<1>3. OwnerIsNewest'
  <2>1. CASE Elected(m) /\ keyOwner' = m
    <3>1. \A o \in Members : Timeline(wal[o]) <= Timeline(wal[m])
      BY <2>1, NoMemberAssumption DEF Elected, ElectionCycle
    <3>. QED
      BY <2>1, <3>1 DEF OwnerIsNewest
  <2>2. CASE keyOwner' \in {keyOwner, NoMember}
    BY <2>2 DEF WalInv, OwnerIsNewest
  <2>. QED
    BY <2>1, <2>2 DEF StepEffect
<1>. QED
  BY <1>1, <1>2, <1>3 DEF WalInv

(* The WAL of m is cut, replaced by a part of another or streams from it. *)
LEMMA WalReplaced ==
    ASSUME WalInv, NEW m \in Members, StepEffect(m), ~Promote(m), keyOwner' = keyOwner,
           keyOwner \in Members \cup {NoMember},
           NEW v \in Seq(Records), v # <<>>, NEW p \in Members, Part(v, wal[p]),
           wal' = [wal EXCEPT ![m] = v], ~Author(m)', keyOwner = m => Part(wal[m], v)
    PROVE  WalInv'
<1>1. /\ wal = [o \in Members |-> wal[o]] /\ \A o \in Members : Shape(wal[o])
  BY DEF WalInv, WalsOK
<1>2. wal'[m] = v /\ \A o \in Members \ {m} : wal'[o] = wal[o]
  BY <1>1
<1>3. \A o \in Members : /\ wal'[o] \in Seq(Records) /\ wal'[o] # <<>>
                         /\ \E q \in Members : Part(wal'[o], wal[q])
  <2>1. \A o \in Members : Part(wal[o], wal[o]) /\ wal[o] \in Seq(Records) /\ wal[o] # <<>>
    BY <1>1, ShapeFacts DEF Part, Shape
  <2>. QED
    BY <1>2, <2>1
<1>4. WalsOK' /\ \A o \in Members : Longest(o) /\ wal'[o] = wal[o] => Longest(o)'
  <2>1. wal' = [o \in Members |-> wal'[o]]
    BY <1>1
  <2>2. WalsOK
    BY DEF WalInv
  <2>. QED
    BY <1>3, <2>1, <2>2, NoRecordAdded
<1>5. AuthorsOK'
  BY <1>2, <1>4, AuthorsBefore DEF WalInv, AuthorsOK
<1>6. ASSUME keyOwner # NoMember, NEW o \in Members
      PROVE  Timeline(wal'[o]) <= Timeline(wal'[keyOwner])
  <2>0. /\ Shape(v) /\ \A q \in Members : Timeline(wal[q]) \in Nat
        /\ Timeline(v) \in Nat /\ Timeline(v) <= Timeline(wal[p])
        /\ Part(wal[m], v) => Timeline(wal[m]) <= Timeline(v)
    BY <1>1, <1>2, <1>4, ShapeFacts, PartTimeline DEF WalsOK
  <2>1. \A q \in Members : Timeline(wal[q]) <= Timeline(wal[keyOwner])
    BY <1>6 DEF WalInv, OwnerIsNewest
  <2>2. keyOwner \in Members
    BY <1>6
  <2>3. CASE keyOwner = m
    BY <1>2, <2>0, <2>1, <2>3
  <2>4. CASE keyOwner # m
    BY <1>2, <2>0, <2>1, <2>2, <2>4
  <2>. QED
    BY <2>3, <2>4
<1>. QED
  BY <1>4, <1>5, <1>6 DEF WalInv, OwnerIsNewest

(* m, who has written the end of its WAL, writes on. *)
LEMMA WalContinued ==
    ASSUME WalInv, NEW m \in Members, StepEffect(m), ~Promote(m),
           keyOwner' \in {keyOwner, NoMember}, keyOwner \in Members \cup {NoMember},
           Author(m), NEW G \in SUBSET Members, m \in G,
           \A o \in G : wal[o] = wal[m] /\ (o # m => ~Author(o)),
           wal' = [o \in Members |-> IF o \in G THEN Append1(m) ELSE wal[o]]
    PROVE  WalInv' /\ \A o \in Members : Part(wal[o], wal'[o])
<1>. DEFINE r == <<Timeline(wal[m]), m>>
<1>1. WalsOK /\ \A o \in Members : Shape(wal[o])
  BY DEF WalInv, WalsOK
<1>2. r \in Records /\ r[1] = Timeline(wal[m]) /\ Longest(m) /\ Append1(m) = Append(wal[m], r)
  BY <1>1, ShapeFacts DEF WalInv, AuthorsOK, Append1, Records
<1>. HIDE DEF r
<1>3. /\ WalsOK' /\ Longest(m)' /\ Timeline(wal'[m]) = r[1]
      /\ \A o \in Members : Part(wal[o], wal'[o])
      /\ \A o \in Members \ G : Longest(o) /\ Timeline(wal[o]) # r[1] => Longest(o)'
  <2>1. wal' = [o \in Members |-> IF o \in G THEN Append(wal[m], r) ELSE wal[o]]
    BY <1>2
  <2>. QED
    BY <1>1, <1>2, <2>1, RecordAdded
<1>4. \A o \in Members : Timeline(wal'[o]) = Timeline(wal[o])
  <2>1. SUFFICES ASSUME NEW o \in Members PROVE Timeline(wal'[o]) = Timeline(wal[o])
    OBVIOUS
  <2>2. CASE o \in G
    <3>1. wal'[o] = wal'[m] /\ wal[o] = wal[m]
      BY <2>2
    <3>. QED
      BY <1>2, <1>3, <3>1
  <2>3. CASE o \notin G
    BY <2>3
  <2>. QED
    BY <2>2, <2>3
<1>5. \A o \in Members : Author(o)' => Author(o)
  BY AuthorsBefore
<1>6. ASSUME NEW o \in Members, Author(o)' PROVE Longest(o)'
  <2>1. CASE o = m
    BY <1>3, <2>1
  <2>2. CASE o # m
    <3>1. o \notin G /\ Longest(o) /\ Timeline(wal[o]) # r[1]
      BY <1>2, <1>5, <1>6, <2>2 DEF WalInv, AuthorsOK
    <3>. QED
      BY <1>3, <3>1
  <2>. QED
    BY <2>1, <2>2
<1>7. AuthorsOK'
  BY <1>4, <1>5, <1>6 DEF WalInv, AuthorsOK
<1>8. OwnerIsNewest'
  BY <1>4 DEF WalInv, OwnerIsNewest
<1>. QED
  BY <1>3, <1>7, <1>8 DEF WalInv

LEMMA WalPromoted ==
    ASSUME WalInv, RewindInv, NEW m \in Members, StepEffect(m), Promote(m), keyOwner = m
    PROVE  WalInv' /\ \A o \in Members : Part(wal[o], wal'[o])
<1>. DEFINE r == <<Timeline(wal[m]) + 1, m>>
<1>1. WalsOK /\ wal = [o \in Members |-> wal[o]] /\ \A o \in Members : Shape(wal[o])
  BY DEF WalInv, WalsOK
<1>2. /\ r \in Records /\ r[1] = Timeline(wal[m]) + 1
      /\ \A o \in Members : Timeline(wal[o]) \in Nat /\ Timeline(wal[o]) <= Timeline(wal[m])
  BY <1>1, ShapeFacts, NoMemberAssumption DEF WalInv, OwnerIsNewest, Records
<1>3. wal' = [wal EXCEPT ![m] = Append(wal[m], r)] /\ keyOwner' = m
  BY DEF Promote
<1>. HIDE DEF r
<1>4. /\ WalsOK' /\ Longest(m)' /\ Timeline(wal'[m]) = r[1]
      /\ \A o \in Members : Part(wal[o], wal'[o])
      /\ \A o \in Members \ {m} : Longest(o) /\ Timeline(wal[o]) # r[1] => Longest(o)'
  <2>1. wal' = [o \in Members |-> IF o \in {m} THEN Append(wal[m], r) ELSE wal[o]]
    BY <1>1, <1>3
  <2>2. \A o \in {m} : wal[o] = wal[m]
    OBVIOUS
  <2>. QED
    BY <1>1, <1>2, <2>1, <2>2, RecordAdded
<1>5. \A o \in Members \ {m} : wal'[o] = wal[o]
  BY <1>1, <1>3
<1>6. \A o \in Members \ {m} : Author(o)' => Author(o) /\ Longest(o)'
  BY <1>2, <1>4, AuthorsBefore DEF WalInv, AuthorsOK
<1>7. AuthorsOK'
  BY <1>2, <1>4, <1>5, <1>6 DEF WalInv, AuthorsOK
<1>8. OwnerIsNewest'
  BY <1>2, <1>3, <1>4, <1>5 DEF OwnerIsNewest
<1>. QED
  BY <1>4, <1>7, <1>8 DEF WalInv

-----------------------------------------------------------------------------
(* What a member without anything to decide may rely on. *)

Follows(m) ==
    /\ server[m] = "replica" => source[m] = keyOwner
    /\ job[m].kind = "start" => job[m].leader = keyOwner

(* A member that will follow the owner of the key without another look at its WAL. *)
Sure(m) ==
    \/ rewind[m] = "SUCCESS" \/ job[m].kind = "cloned"
    \/ /\ CanAct /\ rewind[m] \in {"INITIAL", "NOT_NEED"}
       /\ \/ server[m] = "replica" /\ source[m] = keyOwner /\ m \in started
          \/ job[m].kind = "start" /\ job[m].leader = keyOwner

ClaimOK(m) ==
    keyOwner \notin {m, NoMember} =>
        /\ rewind[m] = "SUCCESS" => Follows(m)
        /\ Sure(m) => Part(wal[m], wal[keyOwner])

Safe(m) == JobOK(m) /\ SuccessOK(m) /\ ClaimOK(m)

SettledInv == MoreTypes /\ WalInv /\ \A m \in Members : Safe(m)

LEMMA PartTransitive ==
    ASSUME NEW u, NEW v, NEW w, Shape(u), Shape(v), Shape(w), Part(u, v), Part(v, w)
    PROVE  Part(u, w)
<1>1. Len(u) \in Nat /\ Len(v) \in Nat /\ Len(w) \in Nat
  BY ShapeFacts
<1>. QED
  BY <1>1 DEF Part

LEMMA PartReflexive ==
    ASSUME NEW w, Shape(w)
    PROVE  Part(w, w)
<1>1. Len(w) \in Nat
  BY ShapeFacts
<1>. QED
  BY <1>1 DEF Part

LEMMA OthersSafe ==
    ASSUME RewindInv, SettledInv, WalInv', ~LateTasks, ~MissedTerms,
           NEW m \in Members, StepEffect(m),
           \/ keyOwner' # keyOwner
           \/ /\ \A o \in Members \ {m} : wal'[o] = wal[o]
              /\ keyOwner = m => Part(wal[m], wal'[m])
    PROVE  \A o \in Members \ {m} : Safe(o)'
<1>. SUFFICES ASSUME NEW o \in Members \ {m} PROVE Safe(o)'
  OBVIOUS
<1>1. JobOK(o) /\ SuccessOK(o) /\ ClaimOK(o) /\ Same(o) /\ o # m /\ (CanAct' <=> CanAct)
  BY DEF SettledInv, Safe, StepEffect, CanAct
<1>. USE NoMemberAssumption
<1>2. CASE Elected(m) /\ keyOwner' = m
  <2>1. /\ keyOwner = NoMember
        /\ server[o] = "replica" => source[o] # m
        /\ job[o].kind = "start" => job[o].leader # m
        /\ job[o].kind \notin {"reinitialize", "clone", "cloned"}
        /\ rewind[o] # "SUCCESS"
    BY <1>2 DEF Elected, ElectionCycle, TermSeen
  <2>2. JobOK(o)'
    BY <1>1, <1>2, <2>1 DEF JobOK, Same
  <2>3. SuccessOK(o)' /\ ClaimOK(o)'
    BY <1>1, <1>2, <2>1 DEF SuccessOK, ClaimOK, Sure, Same
  <2>. QED
    BY <2>2, <2>3 DEF Safe
<1>3. CASE keyOwner = m /\ keyOwner' = NoMember
  <2>1. JobOK(o)'
    BY <1>1, <1>3 DEF JobOK, Same
  <2>2. SuccessOK(o)' /\ ClaimOK(o)'
    BY <1>1, <1>3 DEF SuccessOK, ClaimOK, Same
  <2>. QED
    BY <2>1, <2>2 DEF Safe
<1>4. CASE keyOwner' = keyOwner
  <2>1. JobOK(o)' /\ SuccessOK(o)'
    BY <1>1, <1>4 DEF JobOK, SuccessOK, Same
  <2>2. ASSUME keyOwner \notin {o, NoMember}
        PROVE  (rewind'[o] = "SUCCESS" => Follows(o)')
               /\ (Sure(o)' => Part(wal'[o], wal'[keyOwner]))
    <3>1. Follows(o)' <=> Follows(o)
      BY <1>1, <1>4 DEF Follows, Same
    <3>2. Sure(o)' <=> Sure(o)
      BY <1>1, <1>4 DEF Sure, Same
    <3>0. keyOwner \in Members /\ \A q \in Members : Shape(wal[q]) /\ Shape(wal'[q])
      BY <2>2 DEF RewindInv, RewindTypes, SettledInv, WalInv, WalsOK
    <3>3. wal'[o] = wal[o] /\ Part(wal[keyOwner], wal'[keyOwner])
      BY <1>4, <3>0, PartReflexive
    <3>4. Shape(wal[o]) /\ Shape(wal[keyOwner]) /\ Shape(wal'[keyOwner])
      BY <3>0
    <3>5. Sure(o) => Part(wal[o], wal'[keyOwner])
      BY <1>1, <2>2, <3>3, <3>4, PartTransitive DEF ClaimOK
    <3>. QED
      BY <1>1, <2>2, <3>1, <3>2, <3>3, <3>5 DEF ClaimOK, Same
  <2>. QED
    BY <1>4, <2>1, <2>2 DEF Safe, ClaimOK
<1>. QED
  BY <1>2, <1>3, <1>4 DEF StepEffect

(* A member that finds that it needs no rewind has a part of the WAL of the leader. *)
LEMMA DecidedRight ==
    ASSUME SettledInv, NEW m \in Members, NEW s, keyOwner \in Members \cup {NoMember},
           Decided(m, keyOwner, s) # s
    PROVE  /\ Decided(m, keyOwner, s) \in {"NEED", "NOT_NEED"} /\ s = "CHECK"
           /\ keyOwner \in Members \ {m}
           /\ Decided(m, keyOwner, s) = "NOT_NEED" => Part(wal[m], wal[keyOwner])
<1>1. /\ s = "CHECK" /\ keyOwner \in Members \ {m} /\ status[keyOwner].master
      /\ Decided(m, keyOwner, s) = IF RewindNeeded(m, keyOwner) THEN "NEED" ELSE "NOT_NEED"
  BY DEF Decided, Checked
<1>2. ASSUME ~RewindNeeded(m, keyOwner) PROVE Part(wal[m], wal[keyOwner])
  <2>1. WalsOK /\ Longest(keyOwner) /\ Timeline(wal[m]) <= Timeline(wal[keyOwner])
    BY <1>1, NoMemberAssumption DEF SettledInv, WalInv, AuthorsOK, OwnerIsNewest, Author
  <2>. QED
    BY <1>1, <1>2, <2>1, NotNeededIsPart
<1>. QED
  BY <1>1, <1>2

LEMMA StepSafe ==
    ASSUME RewindInv, SettledInv, WalInv', ~LateTasks, ~MissedTerms,
           NEW m \in Members, StepEffect(m), Safe(m)',
           \/ keyOwner' # keyOwner
           \/ /\ \A o \in Members \ {m} : wal'[o] = wal[o]
              /\ keyOwner = m => Part(wal[m], wal'[m])
    PROVE  SettledInv'
<1>1. \A o \in Members \ {m} : Safe(o)'
  BY OthersSafe
<1>2. MoreTypes'
  BY DEF StepEffect
<1>. QED
  BY <1>1, <1>2 DEF SettledInv

LEMMA StepWithoutWal ==
    ASSUME RewindInv, SettledInv, ~LateTasks, ~MissedTerms, ~Orphans,
           NEW m \in Members, StepEffect(m), ~Promote(m), Safe(m)', wal' = wal
    PROVE  SettledInv'
<1>1. WalInv'
  BY WalsSame DEF SettledInv
<1>2. Part(wal[m], wal'[m])
  BY PartReflexive DEF SettledInv, WalInv, WalsOK
<1>. QED
  BY <1>1, <1>2, StepSafe

LEMMA EndCycleOwn ==
    ASSUME RewindInv, NEW m \in Members, NEW s, NEW j, NEW leads, EndCycle(m, s, j, leads)
    PROVE  rewind'[m] = s /\ job'[m] = j
BY DEF EndCycle, WithJob, RewindInv, RewindTypes

(* The cycles of the HA loop. *)
LEMMA CyclesKeepSafe ==
    ASSUME RewindInv, RewindInv', SettledInv, NEW m \in Members, StepEffect(m),
           Cycle(m) \/ BusyCycle(m)
    PROVE  Safe(m)'
<1>. USE NoMemberAssumption
<1>t. /\ RewindTypes /\ TaskOK(m) /\ MoreTypes
      /\ JobOK(m) /\ SuccessOK(m) /\ ClaimOK(m)
      /\ keyOwner \in Members \cup {NoMember} /\ job[m] \in JobRecords
      /\ NoJob.kind = "none"
  BY NoJobType DEF RewindInv, RewindTypes, SettledInv, Safe
<1>c. CanAct' <=> CanAct
  BY DEF StepEffect, CanAct
<1>r. Recovered(m) \in {"INITIAL", rewind[m]}
      /\ (m \in recovering => Recovered(m) # "SUCCESS")
  BY DEF Recovered
<1>j. \A k, l : Job(k, l, FALSE).kind = k /\ Job(k, l, FALSE).leader = l
  BY DEF Job
<1>1. CASE LeaderCycle(m)
  <2>1. PICK s : EndCycle(m, s, NoJob, TRUE) /\ s \in {"INITIAL", "CHECKPOINT", Recovered(m)}
    BY <1>1 DEF LeaderCycle, AfterPromotion
  <2>2. keyOwner = m /\ keyOwner' = m
    BY <1>1 DEF LeaderCycle
  <2>3. rewind'[m] = s /\ job'[m] = NoJob
    BY <2>1, EndCycleOwn
  <2>4. rewind'[m] # "SUCCESS"
    BY <1>t, <1>r, <2>1, <2>2, <2>3 DEF SuccessOK
  <2>. QED
    BY <1>t, <2>2, <2>3, <2>4 DEF Safe, JobOK, SuccessOK, ClaimOK
<1>2. CASE ElectionCycle(m)
  <2>1. /\ EndCycle(m, Recovered(m), Job("promote", NoMember, FALSE), TRUE)
        /\ server[m] = "replica" /\ keyOwner' = m /\ server' = server
    BY <1>2 DEF ElectionCycle
  <2>2. rewind'[m] = Recovered(m) /\ job'[m].kind = "promote"
    BY <2>1, EndCycleOwn, <1>j
  <2>3. rewind'[m] # "SUCCESS"
    BY <1>t, <1>r, <2>1, <2>2 DEF SuccessOK
  <2>. QED
    BY <1>t, <2>1, <2>2, <2>3 DEF Safe, JobOK, SuccessOK, ClaimOK
<1>3. CASE FollowCycle(m)
  <2>. DEFINE s == Decided(m, keyOwner, Recovered(m))
  <2>1. /\ server[m] = "replica" /\ job[m] = NoJob /\ keyOwner # m
        /\ UNCHANGED <<server, keyOwner, wal>>
    BY <1>3 DEF FollowCycle
  <2>2. Recovered(m) # "SUCCESS"
    BY <1>t, <1>r, <2>1 DEF SuccessOK
  <2>3. s # Recovered(m) =>
          /\ s \in {"NEED", "NOT_NEED"} /\ keyOwner \in Members \ {m}
          /\ s = "NOT_NEED" => Part(wal[m], wal[keyOwner])
    BY <1>t, DecidedRight
  <2>4. CASE s = "NEED" /\ keyOwner # NoMember /\ EndCycle(m, s, Remedy(keyOwner), FALSE)
    <3>1. /\ Remedy(keyOwner).kind \in {"rewind", "reinitialize"}
          /\ Remedy(keyOwner).leader = keyOwner
      BY <1>t, <2>4, RemedyType
    <3>2. rewind'[m] = "NEED" /\ job'[m] = Remedy(keyOwner)
      BY <2>4, EndCycleOwn
    <3>3. JobOK(m)' /\ SuccessOK(m)'
      BY <1>t, <2>1, <2>4, <3>1, <3>2 DEF JobOK, SuccessOK
    <3>4. ~Sure(m)'
      BY <3>1, <3>2 DEF Sure
    <3>. QED
      BY <3>2, <3>3, <3>4 DEF Safe, ClaimOK
  <2>5. CASE /\ source' = [source EXCEPT ![m] = keyOwner]
             /\ EndCycle(m, IF source[m] # keyOwner \/ m \notin started
                            THEN Triggered(s) ELSE s, NoJob, FALSE)
    <3>1. /\ job'[m] = NoJob
          /\ rewind'[m] = IF source[m] # keyOwner \/ m \notin started
                          THEN Triggered(s) ELSE s
      BY <2>5, EndCycleOwn
    <3>2. s # "SUCCESS" /\ rewind'[m] # "SUCCESS"
      BY <2>2, <2>3, <3>1 DEF Triggered
    <3>3. JobOK(m)' /\ SuccessOK(m)'
      BY <1>t, <2>1, <3>1, <3>2 DEF JobOK, SuccessOK
    <3>4. ASSUME keyOwner \notin {m, NoMember}, Sure(m)' PROVE Part(wal[m], wal[keyOwner])
      <4>1. CanAct /\ rewind'[m] \in {"INITIAL", "NOT_NEED"}
        BY <1>t, <1>c, <3>1, <3>2, <3>4 DEF Sure
      <4>2. source[m] = keyOwner /\ m \in started /\ rewind'[m] = s
        BY <3>1, <4>1 DEF Triggered
      <4>3. CASE s = Recovered(m)
        <5>1. Sure(m)
          BY <1>r, <2>1, <4>1, <4>2, <4>3 DEF Sure, Recovered
        <5>. QED
          BY <1>t, <3>4, <5>1 DEF ClaimOK
      <4>4. CASE s # Recovered(m)
        BY <2>3, <4>1, <4>2, <4>4
      <4>. QED
        BY <4>3, <4>4
    <3>. QED
      BY <2>1, <3>2, <3>3, <3>4 DEF Safe, ClaimOK
  <2>. QED
    BY <1>3, <2>4, <2>5 DEF FollowCycle
<1>4. CASE GiveUpCycle(m)
  <2>1. /\ EndCycle(m, rewind[m], NoJob, FALSE) /\ server[m] \in Stopped /\ job[m] = NoJob
        /\ keyOwner' = IF keyOwner = m THEN NoMember ELSE keyOwner
        /\ UNCHANGED <<server, wal>>
    BY <1>4 DEF GiveUpCycle
  <2>2. rewind'[m] = rewind[m] /\ job'[m] = NoJob
    BY <2>1, EndCycleOwn
  <2>3. server[m] \notin {"primary", "replica"}
    BY <2>1 DEF Stopped
  <2>4. JobOK(m)' /\ SuccessOK(m)'
    BY <1>t, <2>1, <2>2, <2>3 DEF JobOK, SuccessOK
  <2>5. Sure(m)' => rewind[m] = "SUCCESS"
    BY <1>t, <2>1, <2>2, <2>3 DEF Sure
  <2>6. ClaimOK(m)'
    BY <1>t, <2>1, <2>2, <2>3, <2>5 DEF ClaimOK, Sure, Follows
  <2>. QED
    BY <2>4, <2>6 DEF Safe
<1>5. CASE RecoverCycle(m)
  <2>. DEFINE trig == IF Executed(rewind[m]) THEN rewind[m] ELSE Triggered(rewind[m])
              s == Decided(m, keyOwner, trig)
  <2>1. server[m] \in Stopped /\ job[m] = NoJob /\ UNCHANGED <<server, keyOwner, wal>>
    BY <1>5 DEF RecoverCycle
  <2>2. server[m] \notin {"primary", "replica"}
    BY <2>1 DEF Stopped
  <2>3. s # trig =>
          /\ s \in {"NEED", "NOT_NEED"} /\ trig = "CHECK" /\ keyOwner \in Members \ {m}
          /\ s = "NOT_NEED" => Part(wal[m], wal[keyOwner])
    BY <1>t, DecidedRight
  <2>4. CASE /\ EndCycle(m, rewind[m], Job("single user", NoMember, FALSE), keyOwner = m)
             /\ server[m] = "production"
    <3>0. rewind'[m] = rewind[m] /\ job'[m] = Job("single user", NoMember, FALSE)
      BY <2>4, EndCycleOwn
    <3>1. rewind'[m] = rewind[m] /\ job'[m].kind = "single user"
      BY <3>0, <1>j
    <3>2. rewind'[m] # "SUCCESS"
      BY <1>t, <2>4, <3>1 DEF SuccessOK
    <3>3. JobOK(m)' /\ SuccessOK(m)' /\ ~Sure(m)'
      BY <2>1, <2>4, <3>1, <3>2 DEF JobOK, SuccessOK, Sure
    <3>. QED
      BY <3>2, <3>3 DEF Safe, ClaimOK
  <2>5. CASE /\ EndCycle(m, rewind[m], Job("start", NoMember, FALSE), keyOwner = m)
             /\ keyOwner = m
    <3>0. rewind'[m] = rewind[m] /\ job'[m] = Job("start", NoMember, FALSE)
      BY <2>5, EndCycleOwn
    <3>1. rewind'[m] = rewind[m] /\ job'[m].kind = "start"
      BY <3>0, <1>j
    <3>. QED
      BY <1>t, <2>1, <2>2, <2>5, <3>1 DEF Safe, JobOK, SuccessOK, ClaimOK
  <2>6. CASE /\ EndCycle(m, s, Remedy(keyOwner), keyOwner = m)
             /\ keyOwner \notin {m, NoMember} /\ s = "NEED"
    <3>1. /\ Remedy(keyOwner).kind \in {"rewind", "reinitialize"}
          /\ Remedy(keyOwner).leader = keyOwner
      BY <1>t, <2>6, RemedyType
    <3>2. rewind'[m] = "NEED" /\ job'[m] = Remedy(keyOwner)
      BY <2>6, EndCycleOwn
    <3>3. JobOK(m)' /\ SuccessOK(m)' /\ ~Sure(m)'
      BY <1>t, <2>1, <2>2, <2>6, <3>1, <3>2 DEF JobOK, SuccessOK, Sure
    <3>. QED
      BY <3>2, <3>3 DEF Safe, ClaimOK
  <2>7. CASE /\ EndCycle(m, s, Job("start", keyOwner, FALSE), keyOwner = m)
             /\ keyOwner # m /\ recovering' = recovering \cup {m}
    <3>0. rewind'[m] = s /\ job'[m] = Job("start", keyOwner, FALSE)
      BY <2>7, EndCycleOwn
    <3>1. rewind'[m] = s /\ job'[m].kind = "start" /\ job'[m].leader = keyOwner
      BY <3>0, <1>j
    <3>2. s = "SUCCESS" => rewind[m] = "SUCCESS"
      BY <2>3 DEF Executed, Triggered
    <3>3. JobOK(m)' /\ SuccessOK(m)'
      BY <1>t, <2>1, <2>2, <2>7, <3>1, <3>2 DEF JobOK, SuccessOK
    <3>4. Follows(m)'
      BY <2>1, <2>2, <3>1 DEF Follows
    <3>5. ASSUME keyOwner # NoMember, Sure(m)' PROVE Part(wal[m], wal[keyOwner])
      <4>1. CASE rewind[m] = "SUCCESS"
        BY <1>t, <2>7, <3>5, <4>1 DEF ClaimOK, Sure
      <4>2. CASE rewind[m] # "SUCCESS"
        <5>1. CanAct /\ s \in {"INITIAL", "NOT_NEED"}
          BY <1>c, <2>1, <2>2, <3>1, <3>2, <3>5, <4>2 DEF Sure
        <5>2. trig \notin {"INITIAL", "NOT_NEED"}
          BY <4>2, <5>1 DEF Executed, Triggered
        <5>. QED
          BY <2>3, <5>1, <5>2
      <4>. QED
        BY <4>1, <4>2
    <3>. QED
      BY <2>1, <3>3, <3>4, <3>5 DEF Safe, ClaimOK
  <2>. QED
    BY <1>5, <2>4, <2>5, <2>6, <2>7 DEF RecoverCycle
<1>6. CASE CloneCycle(m)
  <2>1. PICK j : /\ EndCycle(m, rewind[m], j, FALSE)
                 /\ j = IF keyOwner = m THEN NoJob ELSE Job("clone", keyOwner, FALSE)
    BY <1>6 DEF CloneCycle
  <2>2. /\ server[m] = "empty" /\ keyOwner # NoMember
        /\ keyOwner' = IF keyOwner = m THEN NoMember ELSE keyOwner
        /\ UNCHANGED <<server, wal>>
    BY <1>6 DEF CloneCycle
  <2>3. /\ rewind'[m] = rewind[m] /\ job'[m] = j /\ rewind[m] # "SUCCESS"
        /\ j.kind \in {"none", "clone"}
        /\ j.kind = "clone" => keyOwner # m /\ j.leader = keyOwner
    BY <1>t, <2>1, <2>2, EndCycleOwn, <1>j DEF SuccessOK
  <2>4. JobOK(m)' /\ SuccessOK(m)' /\ ~Sure(m)'
    BY <1>t, <2>2, <2>3 DEF JobOK, SuccessOK, Sure
  <2>. QED
    BY <2>3, <2>4 DEF Safe, ClaimOK
<1>7. CASE BusyCycle(m)
  <2>1. /\ EndCycle(m, rewind[m], job[m], keyOwner = m)
        /\ UNCHANGED <<server, keyOwner, wal, source, recovering, started>>
    BY <1>7 DEF BusyCycle
  <2>2. rewind'[m] = rewind[m] /\ job'[m] = job[m]
    BY <2>1, EndCycleOwn
  <2>. QED
    BY <1>t, <1>c, <2>1, <2>2 DEF Safe, JobOK, SuccessOK, ClaimOK, Sure, Follows
<1>. QED
  BY <1>1, <1>2, <1>3, <1>4, <1>5, <1>6, <1>7 DEF Cycle

(* The tasks that leave the WALs alone. *)
LEMMA QuietWorkKeepsSafe ==
    ASSUME RewindInv, RewindInv', SettledInv, NEW m \in Members, StepEffect(m), wal' = wal,
           \/ Promoted(m) \/ PromoteFails(m) \/ Start(m) \/ PrepareRewind(m)
           \/ CopyFails(m) \/ Reinitialize(m) \/ StartCopy(m) \/ AfterDemotion(m)
    PROVE  Safe(m)'
<1>. USE NoMemberAssumption
<1>t. /\ RewindTypes /\ TaskOK(m) /\ MoreTypes
      /\ JobOK(m) /\ SuccessOK(m) /\ ClaimOK(m)
      /\ keyOwner \in Members \cup {NoMember} /\ job[m] \in JobRecords
      /\ NoJob.kind = "none"
  BY NoJobType DEF RewindInv, RewindTypes, SettledInv, Safe
<1>c. CanAct' <=> CanAct
  BY DEF StepEffect, CanAct
<1>j. \A k, l, r : Job(k, l, r).kind = k /\ Job(k, l, r).leader = l
  BY DEF Job
<1>s. "primary" \notin Stopped /\ "replica" \notin Stopped
  BY DEF Stopped
<1>a. \A k, l : /\ [job[m] EXCEPT !.kind = k].kind = k
                /\ [job[m] EXCEPT !.kind = k].leader = job[m].leader
  BY <1>t DEF JobRecords
<1>1. CASE Promoted(m)
  <2>1. /\ rewind'[m] = "INITIAL" /\ job'[m] = NoJob /\ keyOwner' = keyOwner
        /\ server' = server /\ keyOwner = m
    BY <1>t, <1>1 DEF Promoted, Done, RewindTypes, JobOK
  <2>. QED
    BY <1>t, <2>1 DEF Safe, JobOK, SuccessOK, ClaimOK
<1>2. CASE PromoteFails(m)
  <2>1. /\ rewind'[m] = rewind[m] /\ job'[m] = NoJob /\ keyOwner' = keyOwner
        /\ server' = server /\ keyOwner = m
    BY <1>t, <1>2 DEF PromoteFails, Done, RewindTypes, JobOK
  <2>. QED
    BY <1>t, <2>1 DEF Safe, JobOK, SuccessOK, ClaimOK
<1>3. CASE Start(m)
  <2>1. /\ rewind'[m] = rewind[m] /\ job'[m] = NoJob /\ keyOwner' = keyOwner
        /\ UNCHANGED <<recovering, started>> /\ job[m].kind = "start"
        /\ \/ server'[m] = "replica" /\ source'[m] = job[m].leader
           \/ server'[m] = server[m]
    BY <1>t, <1>3 DEF Start, Done, RewindTypes, MoreTypes
  <2>2. server[m] \notin {"primary", "replica"}
    BY <1>t, <1>s, <2>1 DEF TaskOK
  <2>3. JobOK(m)' /\ SuccessOK(m)'
    BY <1>t, <2>1, <2>2 DEF JobOK, SuccessOK
  <2>4. Sure(m)' => Sure(m)
    BY <1>t, <1>c, <2>1, <2>2 DEF Sure
  <2>5. keyOwner \notin {m, NoMember} /\ rewind'[m] = "SUCCESS" => Follows(m)'
    BY <1>t, <2>1, <2>2 DEF Follows, ClaimOK
  <2>. QED
    BY <1>t, <2>1, <2>3, <2>4, <2>5 DEF Safe, ClaimOK
(* A task after which the server is down, and nothing is going to be started. *)
<1>4. ASSUME server'[m] \notin {"primary", "replica"},
             job'[m].kind \in {"none", "copy", "clone"},
             job'[m].kind \in {"copy", "clone"} => job'[m].leader = job[m].leader,
             job'[m].kind = "clone" => job[m].kind = "reinitialize",
             rewind'[m] # "SUCCESS", keyOwner' = keyOwner,
             job[m].kind \in {"rewind", "copy", "reinitialize"}
      PROVE  Safe(m)'
  <2>1. JobOK(m)' /\ SuccessOK(m)'
    BY <1>t, <1>4 DEF JobOK, SuccessOK
  <2>2. ~Sure(m)'
    BY <1>4 DEF Sure
  <2>. QED
    BY <1>4, <2>1, <2>2 DEF Safe, ClaimOK
<1>5. CASE PrepareRewind(m)
  <2>1. /\ job[m].kind = "rewind" /\ rewind'[m] = rewind[m] /\ keyOwner' = keyOwner
        /\ server'[m] = AfterStop(server[m])
        /\ job'[m] = NoJob \/ (\E r : job'[m] = Job("copy", job[m].leader, r))
    BY <1>t, <1>5 DEF PrepareRewind, RewindTypes
  <2>2. server'[m] \notin {"primary", "replica"}
    BY <1>t, <1>s, <2>1 DEF AfterStop, TaskOK
  <2>3. rewind[m] # "SUCCESS"
    BY <1>t, <2>1 DEF SuccessOK
  <2>4. job'[m].kind \in {"none", "copy"}
        /\ (job'[m].kind = "copy" => job'[m].leader = job[m].leader)
    BY <1>t, <1>j, <2>1
  <2>. QED
    BY <1>4, <2>1, <2>2, <2>3, <2>4
<1>6. CASE CopyFails(m)
  <2>1. /\ job[m].kind = "copy" /\ rewind'[m] \in {rewind[m], "INITIAL", "FAILED"}
        /\ keyOwner' = keyOwner /\ server'[m] \in {server[m], "empty"} /\ job'[m] = NoJob
    BY <1>t, <1>6 DEF CopyFails, Done, RewindTypes
  <2>2. server'[m] \notin {"primary", "replica"}
    BY <1>t, <1>s, <2>1 DEF TaskOK
  <2>3. rewind'[m] # "SUCCESS"
    BY <1>t, <2>1 DEF SuccessOK
  <2>. QED
    BY <1>t, <1>4, <2>1, <2>2, <2>3
<1>7. CASE Reinitialize(m)
  <2>1. /\ job[m].kind = "reinitialize" /\ rewind'[m] = rewind[m] /\ keyOwner' = keyOwner
        /\ server'[m] = AfterStop(server[m])
        /\ job'[m] = [job[m] EXCEPT !.kind = "clone"]
    BY <1>t, <1>7 DEF Reinitialize, RewindTypes
  <2>2. server'[m] \notin {"primary", "replica"}
    BY <1>t, <1>s, <2>1 DEF AfterStop, TaskOK
  <2>3. rewind[m] # "SUCCESS"
    BY <1>t, <2>1 DEF SuccessOK
  <2>. QED
    BY <1>4, <1>a, <2>1, <2>2, <2>3
<1>8. CASE StartCopy(m)
  <2>1. /\ job[m].kind = "cloned" /\ UNCHANGED <<server, keyOwner, source, started>>
        /\ rewind'[m] = rewind[m]
        /\ job'[m] = Job("start", IF keyOwner = m THEN NoMember ELSE keyOwner, FALSE)
    BY <1>t, <1>8 DEF StartCopy, RewindTypes
  <2>k. job'[m].kind = "start"
    BY <2>1 DEF Job
  <2>2. job'[m].kind = "start" /\ rewind[m] = "INITIAL" /\ keyOwner # m
    BY <1>t, <2>1, <2>k DEF JobOK
  <2>3. JobOK(m)' /\ SuccessOK(m)'
    BY <1>t, <2>1, <2>2 DEF JobOK, SuccessOK
  <2>4. keyOwner # NoMember => Part(wal[m], wal[keyOwner])
    BY <1>t, <2>1, <2>2 DEF ClaimOK, Sure
  <2>. QED
    BY <2>1, <2>2, <2>3, <2>4 DEF Safe, ClaimOK
<1>9. CASE AfterDemotion(m)
  <2>. DEFINE s == Decided(m, keyOwner, rewind[m])
  <2>1. /\ job[m].kind = "demoted" /\ UNCHANGED <<server, keyOwner>>
        /\ rewind'[m] = s
        /\ \/ job'[m] = NoJob
           \/ job'[m] = Job("start", IF keyOwner = m THEN NoMember ELSE keyOwner, FALSE)
    BY <1>t, <1>9 DEF AfterDemotion, RewindTypes
  <2>k. job'[m].kind \in {"none", "start"}
    BY <1>t, <2>1 DEF Job
  <2>2. server[m] \notin {"primary", "replica"} /\ keyOwner # m /\ rewind[m] # "SUCCESS"
    BY <1>t, <1>s, <2>1 DEF TaskOK, JobOK, SuccessOK
  <2>3. s # rewind[m] => /\ s \in {"NEED", "NOT_NEED"}
                         /\ s = "NOT_NEED" => Part(wal[m], wal[keyOwner])
    BY <1>t, DecidedRight
  <2>4. s # "SUCCESS"
    BY <2>2, <2>3
  <2>5. JobOK(m)' /\ SuccessOK(m)'
    BY <1>t, <2>1, <2>2, <2>4, <2>k DEF JobOK, SuccessOK
  <2>6. ASSUME Sure(m)' PROVE Part(wal[m], wal[keyOwner])
    <3>1. CanAct /\ s \in {"INITIAL", "NOT_NEED"}
      BY <1>c, <2>1, <2>2, <2>4, <2>6, <2>k DEF Sure
    <3>. QED
      BY <1>t, <2>1, <2>3, <3>1 DEF JobOK
  <2>. QED
    BY <2>1, <2>4, <2>5, <2>6 DEF Safe, ClaimOK
<1>. QED
  BY <1>1, <1>2, <1>3, <1>5, <1>6, <1>7, <1>8, <1>9

(* What else leaves the WALs alone. *)
LEMMA QuietFaultsKeepSafe ==
    ASSUME RewindInv, RewindInv', SettledInv, NEW m \in Members, StepEffect(m), wal' = wal,
           \/ Checkpoint(m) \/ CheckpointEnds(m) \/ ServerCrash(m) \/ RestartPatroni(m)
           \/ LoseKey(m) \/ DemoteAtOnce(m)
    PROVE  Safe(m)'
<1>. USE NoMemberAssumption
<1>t. /\ RewindTypes /\ TaskOK(m) /\ MoreTypes
      /\ JobOK(m) /\ SuccessOK(m) /\ ClaimOK(m)
      /\ keyOwner \in Members \cup {NoMember} /\ job[m] \in JobRecords
      /\ NoJob.kind = "none"
  BY NoJobType DEF RewindInv, RewindTypes, SettledInv, Safe
<1>c. CanAct' <=> CanAct
  BY DEF StepEffect, CanAct
<1>1. CASE Checkpoint(m) \/ CheckpointEnds(m)
  <2>1. UNCHANGED <<server, keyOwner, source, rewind, job, recovering, started>>
    BY <1>1 DEF Checkpoint, CheckpointEnds
  <2>. QED
    BY <1>t, <1>c, <2>1 DEF Safe, JobOK, SuccessOK, ClaimOK, Sure, Follows
<1>2. CASE ServerCrash(m)
  <2>1. /\ server[m] \in Running /\ UNCHANGED <<keyOwner, source, rewind, recovering, started>>
        /\ server'[m] = IF server[m] = "primary" THEN "production" ELSE "archive"
        /\ job'[m] = job[m]
    BY <1>t, <1>2 DEF ServerCrash, RewindTypes, WithJob
  <2>2. /\ job[m].kind \notin {"start", "cloned", "single user"}
        /\ server[m] = "primary" => rewind[m] # "SUCCESS"
    BY <1>t, <2>1 DEF TaskOK, SuccessOK, Running, Stopped
  <2>3. JobOK(m)' /\ SuccessOK(m)'
    BY <1>t, <1>c, <2>1, <2>2 DEF JobOK, SuccessOK, Running
  <2>4. Sure(m)' => rewind[m] = "SUCCESS"
    BY <2>1, <2>2 DEF Sure
  <2>5. Follows(m)'
    BY <2>1, <2>2 DEF Follows
  <2>. QED
    BY <1>t, <2>1, <2>3, <2>4, <2>5 DEF Safe, ClaimOK, Sure
<1>3. CASE RestartPatroni(m)
  <2>1. /\ job[m] = NoJob /\ UNCHANGED <<keyOwner, server, source, job>>
        /\ rewind'[m] = "INITIAL" /\ m \notin started'
    BY <1>t, <1>3 DEF RestartPatroni, RewindTypes
  <2>2. JobOK(m)' /\ SuccessOK(m)' /\ ~Sure(m)'
    BY <1>t, <2>1 DEF JobOK, SuccessOK, Sure
  <2>. QED
    BY <2>1, <2>2 DEF Safe, ClaimOK
<1>4. CASE LoseKey(m)
  <2>1. /\ keyOwner = m /\ keyOwner' = NoMember /\ server[m] # "primary"
        /\ job[m].kind \notin {"promote", "promoted"}
        /\ UNCHANGED <<server, rewind, job, recovering>>
    BY <1>4 DEF LoseKey
  <2>. QED
    BY <1>t, <1>c, <2>1 DEF Safe, JobOK, SuccessOK, ClaimOK
<1>5. CASE DemoteAtOnce(m)
  <2>1. /\ EndCycle(m, Triggered(rewind[m]), Job("start", NoMember, FALSE), FALSE)
        /\ keyOwner = m /\ keyOwner' = NoMember /\ server'[m] = "production"
    BY <1>t, <1>5 DEF DemoteAtOnce, RewindTypes
  <2>2. rewind'[m] = Triggered(rewind[m]) /\ job'[m] = Job("start", NoMember, FALSE)
    BY <2>1, EndCycleOwn
  <2>3. rewind'[m] # "SUCCESS" /\ job'[m].kind = "start"
    BY <1>t, <2>1, <2>2 DEF SuccessOK, Triggered, Job
  <2>. QED
    BY <1>t, <2>1, <2>3 DEF Safe, JobOK, SuccessOK, ClaimOK
<1>. QED
  BY <1>1, <1>2, <1>3, <1>4, <1>5

(* The steps that write a WAL. *)
LEMMA WritesKeepSettled ==
    ASSUME RewindInv, RewindInv', SettledInv, ~LateTasks, ~MissedTerms, ~Orphans,
           NEW m \in Members, StepEffect(m),
           \/ Commit(m) \/ Stream(m) \/ Promote(m) \/ SingleUser(m)
           \/ CopyFromLeader(m) \/ Clone(m) \/ DemoteGracefully(m)
    PROVE  SettledInv'
<1>. USE NoMemberAssumption
<1>t. /\ RewindTypes /\ TaskOK(m) /\ ReadyOK(m) /\ MoreTypes /\ WalInv
      /\ JobOK(m) /\ SuccessOK(m) /\ ClaimOK(m)
      /\ keyOwner \in Members \cup {NoMember} /\ job[m] \in JobRecords
      /\ NoJob.kind = "none"
  BY NoJobType DEF RewindInv, RewindTypes, SettledInv, Safe
<1>w. /\ wal = [o \in Members |-> wal[o]] /\ \A o \in Members : Shape(wal[o])
      /\ \A o \in Members : Part(wal[o], wal[o]) /\ wal[o] \in Seq(Records) /\ wal[o] # <<>>
  BY <1>t, PartReflexive DEF WalInv, WalsOK, Shape
<1>c. CanAct' <=> CanAct
  BY DEF StepEffect, CanAct
<1>s. "primary" \notin Stopped /\ "replica" \notin Stopped
  BY DEF Stopped
<1>1. CASE Commit(m)
  <2>1. /\ server[m] = "primary" /\ keyOwner = m /\ keyOwner' = m
        /\ wal' = [wal EXCEPT ![m] = Append1(m)]
        /\ UNCHANGED <<server, rewind, job, recovering>>
    BY <1>1 DEF Commit
  <2>2. wal' = [o \in Members |-> IF o \in {m} THEN Append1(m) ELSE wal[o]]
    BY <1>w, <2>1
  <2>3. Author(m) /\ ~Promote(m)
    BY <2>1 DEF Author, IsMaster, Promote
  <2>4. WalInv' /\ \A o \in Members : Part(wal[o], wal'[o])
    BY <1>t, <2>1, <2>2, <2>3, WalContinued, ZenonT(30)
  <2>5. Safe(m)'
    BY <1>t, <1>c, <2>1 DEF Safe, JobOK, SuccessOK, ClaimOK
  <2>. QED
    BY <1>w, <2>1, <2>4, <2>5, StepSafe
<1>2. CASE Stream(m)
  <2>. DEFINE p == source[m]
              n == Len(wal[m])
              v == SubSeq(wal[p], 1, n + 1)
  <2>1. /\ server[m] = "replica" /\ p \in Members /\ wal' = [wal EXCEPT ![m] = v]
        /\ IsStrictPrefix(wal[m], wal[p])
        /\ UNCHANGED <<server, keyOwner, status, source, rewind, job, recovering, started,
                       settings>>
    BY <1>t, <1>2 DEF Stream, MoreTypes
  <2>2. Part(wal[m], wal[p]) /\ wal[m] # wal[p]
    BY <1>w, <2>1, PrefixIsPart DEF IsStrictPrefix
  <2>s. Shape(wal[m]) /\ Shape(wal[p]) /\ wal[m] \in Seq(Records) /\ wal[p] \in Seq(Records)
    BY <1>w, <2>1
  <2>. HIDE DEF p
  <2>3. /\ n \in Nat /\ n >= 1 /\ Len(wal[p]) \in Nat
        /\ DOMAIN wal[m] = 1..n /\ DOMAIN wal[p] = 1..Len(wal[p])
        /\ wal[m] = [i \in 1..n |-> wal[m][i]]
        /\ wal[p] = [i \in 1..Len(wal[p]) |-> wal[p][i]]
        /\ Timeline(wal[p]) = wal[p][Len(wal[p])][1] /\ Timeline(wal[m]) = wal[m][n][1]
        /\ \A i \in DOMAIN wal[p] : wal[p][i][1] \in Nat
    <3>1. wal[m] = [i \in 1..n |-> wal[m][i]]
      BY <2>s, IsASeq
    <3>2. wal[p] = [i \in 1..Len(wal[p]) |-> wal[p][i]]
      BY <2>s, IsASeq
    <3>. QED
      BY <2>s, <3>1, <3>2, ShapeFacts
  <2>. HIDE DEF n
  <2>4. n + 1 <= Len(wal[p])
    <3>1. n <= Len(wal[p]) /\ \A i \in 1..n : wal[m][i] = wal[p][i]
      BY <2>2 DEF Part, n
    <3>2. n # Len(wal[p])
      BY <2>2, <2>3, <3>1
    <3>. QED
      BY <2>3, <3>1, <3>2
  <2>5. /\ v \in Seq(Records) /\ Len(v) = n + 1
        /\ \A i \in 1..(n + 1) : v[i] = wal[p][i]
    <3>1. \A i \in 1..(n + 1) : wal[p][i] \in Records
      BY <1>w, <2>1, <2>3, <2>4, ElementOfSeq
    <3>. QED
      BY <1>w, <2>1, <2>3, <2>4, <3>1, SubSeqProperties
  <2>6. Part(v, wal[p]) /\ v # <<>>
    <3>1. Len(v) # 0
      BY <2>3, <2>5
    <3>2. v # <<>>
      BY <2>5, <3>1, EmptySeq
    <3>. QED
      BY <2>3, <2>4, <2>5, <3>2 DEF Part
  <2>7. Part(wal[m], v)
    BY <2>2, <2>3, <2>5 DEF Part, n
  <2>. HIDE DEF v
  <2>8. ~Author(m)
    <3>1. SUFFICES ASSUME keyOwner = m, status[m].master PROVE FALSE
      BY <2>1 DEF Author, IsMaster
    <3>2. Longest(m) /\ Timeline(wal[p]) <= Timeline(wal[m])
      BY <1>t, <2>1, <3>1 DEF WalInv, AuthorsOK, OwnerIsNewest, Author
    <3>3. /\ n + 1 \in DOMAIN wal[p] /\ Timeline(wal[p]) = wal[p][Len(wal[p])][1]
          /\ Timeline(wal[m]) = wal[p][n][1] /\ n \in DOMAIN wal[p]
          /\ Len(wal[p]) \in DOMAIN wal[p]
      <4>1. wal[m][n] = wal[p][n]
        BY <2>2, <2>3 DEF Part, n
      <4>. QED
        BY <2>3, <2>4, <4>1
    <3>4. /\ wal[p][n][1] <= wal[p][n + 1][1] /\ wal[p][n + 1][1] <= Timeline(wal[p])
          /\ wal[p][n + 1][1] \in Nat /\ Timeline(wal[m]) \in Nat /\ Timeline(wal[p]) \in Nat
      BY <2>s, <2>3, <2>4, <3>3, SMTT(30) DEF Shape
    <3>5. wal[p][n + 1][1] = Timeline(wal[m])
      BY <3>2, <3>3, <3>4
    <3>6. n + 1 <= n
      BY <2>1, <3>2, <3>3, <3>5 DEF Longest, n
    <3>. QED
      BY <2>3, <3>6
  <2>9. ~Author(m)' /\ ~Promote(m)
    <3>1. Author(m)' <=> Author(m)
      BY <2>1 DEF Author, IsMaster
    <3>2. job[m].kind = "promote" => ~Promote(m)
      BY <2>1, <1>t DEF Promote, RewindTypes
    <3>. QED
      BY <2>8, <3>1, <3>2 DEF Promote
  <2>10. WalInv'
    BY <1>t, <2>1, <2>5, <2>6, <2>7, <2>9, WalReplaced
  <2>11. wal'[m] = v /\ \A o \in Members \ {m} : wal'[o] = wal[o]
    BY <1>w, <2>1
  <2>12. ASSUME keyOwner \notin {m, NoMember}, Sure(m)' PROVE Part(wal'[m], wal'[keyOwner])
    <3>1. job[m].kind \notin {"start", "cloned"}
      BY <1>t, <1>s, <2>1 DEF TaskOK
    <3>2. source[m] = keyOwner
      BY <1>t, <1>c, <2>1, <2>12, <3>1 DEF Sure, ClaimOK, Follows
    <3>. QED
      BY <1>t, <2>6, <2>11, <2>12, <3>2 DEF p
  <2>13. Safe(m)'
    <3>1. JobOK(m)' /\ SuccessOK(m)'
      BY <1>t, <1>c, <2>1 DEF JobOK, SuccessOK
    <3>. QED
      BY <1>t, <2>1, <2>12, <3>1 DEF Safe, ClaimOK, Follows
  <2>. QED
    BY <2>7, <2>10, <2>11, <2>13, StepSafe
<1>3. CASE Promote(m)
  <2>1. /\ job[m].kind = "promote" /\ keyOwner = m /\ keyOwner' = m
        /\ server'[m] = "primary" /\ job'[m] = [job[m] EXCEPT !.kind = "promoted"]
        /\ rewind' = rewind
        /\ \A o \in Members \ {m} : wal'[o] = wal[o]
    BY <1>t, <1>w, <1>3 DEF Promote, RewindTypes, JobOK
  <2>2. job'[m].kind = "promoted"
    BY <1>t, <2>1 DEF JobRecords
  <2>3. Safe(m)'
    BY <1>t, <2>1, <2>2 DEF Safe, JobOK, SuccessOK, ClaimOK
  <2>4. WalInv' /\ \A o \in Members : Part(wal[o], wal'[o])
    BY <1>t, <1>3, <2>1, WalPromoted
  <2>. QED
    BY <2>1, <2>3, <2>4, StepSafe
<1>4. CASE SingleUser(m)
  <2>1. /\ job[m].kind = "single user" /\ server[m] = "production" /\ job'[m] = NoJob
        /\ UNCHANGED <<keyOwner, status, rewind>> /\ rewind[m] # "SUCCESS"
        /\ server'[m] \in {server[m], "shutdown"}
        /\ wal' \in {wal, [wal EXCEPT ![m] = Append1(m)]}
    BY <1>t, <1>4 DEF SingleUser, Done, RewindTypes, JobOK, SuccessOK
  <2>2. JobOK(m)' /\ SuccessOK(m)' /\ ~Sure(m)'
    BY <1>t, <2>1 DEF JobOK, SuccessOK, Sure
  <2>3. Safe(m)'
    BY <2>1, <2>2 DEF Safe, ClaimOK
  <2>4. Author(m) /\ ~Promote(m)
    BY <2>1 DEF Author, IsMaster, Promote
  <2>5. CASE wal' = [wal EXCEPT ![m] = Append1(m)]
    <3>1. wal' = [o \in Members |-> IF o \in {m} THEN Append1(m) ELSE wal[o]]
      BY <1>w, <2>5
    <3>2. WalInv' /\ \A o \in Members : Part(wal[o], wal'[o])
      BY <1>t, <2>1, <2>4, <3>1, WalContinued, ZenonT(30)
    <3>. QED
      BY <1>w, <2>3, <2>5, <3>2, StepSafe
  <2>6. CASE wal' = wal
    <3>1. WalInv'
      BY <1>t, <2>4, <2>6, WalsSame
    <3>. QED
      BY <1>w, <2>3, <2>6, <3>1, StepSafe
  <2>. QED
    BY <2>1, <2>5, <2>6
<1>5. CASE CopyFromLeader(m)
  <2>. DEFINE l == job[m].leader
  <2>1. /\ job[m].kind = "copy" /\ server[l] = "primary" /\ l \in checkpointed
        /\ server'[m] = "archive" /\ job'[m] = NoJob /\ rewind'[m] = "SUCCESS"
        /\ wal' = [wal EXCEPT ![m] = wal[l]] /\ UNCHANGED <<keyOwner, status>>
    BY <1>t, <1>5 DEF CopyFromLeader, Done, RewindTypes, ReadyOK, ReadySource
  <2>2. l \in Members /\ l # m /\ keyOwner = l
    <3>1. l \in Members /\ l # m
      BY <1>t, <2>1 DEF JobOK
    <3>2. JobOK(l)
      BY <3>1 DEF SettledInv, Safe
    <3>. QED
      BY <2>1, <3>1, <3>2 DEF JobOK
  <2>. HIDE DEF l
  <2>3. wal'[m] = wal[l] /\ \A o \in Members \ {m} : wal'[o] = wal[o]
    BY <1>w, <2>1
  <2>4. ~Author(m)' /\ ~Promote(m)
    BY <2>1, <2>2 DEF Author, IsMaster, Promote
  <2>5. WalInv'
    BY <1>t, <1>w, <2>1, <2>2, <2>4, WalReplaced
  <2>6. JobOK(m)' /\ SuccessOK(m)'
    BY <1>t, <2>1, <2>2 DEF JobOK, SuccessOK
  <2>7. Follows(m)' /\ Part(wal'[m], wal'[keyOwner])
    BY <1>t, <1>w, <2>1, <2>2, <2>3 DEF Follows
  <2>8. Safe(m)'
    BY <2>1, <2>6, <2>7 DEF Safe, ClaimOK
  <2>. QED
    BY <2>1, <2>2, <2>3, <2>5, <2>8, StepSafe
<1>6. CASE Clone(m)
  <2>. DEFINE l == job[m].leader
  <2>1. /\ job[m].kind = "clone" /\ rewind'[m] = "INITIAL" /\ UNCHANGED <<keyOwner, status>>
        /\ \/ /\ server'[m] = "archive" /\ wal' = [wal EXCEPT ![m] = wal[l]]
              /\ job'[m] = [job[m] EXCEPT !.kind = "cloned"]
           \/ server'[m] = "empty" /\ job'[m] = NoJob /\ wal' = wal
    BY <1>t, <1>6 DEF Clone, Done, RewindTypes
  <2>2. l \in Members /\ l # m /\ keyOwner \in {l, NoMember} /\ keyOwner # m
    BY <1>t, <2>1 DEF JobOK
  <2>3. ~Author(m)' /\ ~Promote(m)
    BY <2>1, <2>2 DEF Author, IsMaster, Promote
  <2>4. CASE /\ server'[m] = "archive" /\ wal' = [wal EXCEPT ![m] = wal[l]]
             /\ job'[m] = [job[m] EXCEPT !.kind = "cloned"]
    <3>1. job'[m].kind = "cloned" /\ job'[m].leader = l
      BY <1>t, <2>4 DEF JobRecords
    <3>. HIDE DEF l
    <3>2. wal'[m] = wal[l] /\ \A o \in Members \ {m} : wal'[o] = wal[o]
      BY <1>w, <2>4
    <3>3. WalInv'
      BY <1>t, <1>w, <2>1, <2>2, <2>3, <2>4, WalReplaced
    <3>4. JobOK(m)' /\ SuccessOK(m)'
      BY <1>t, <2>1, <2>2, <2>4, <3>1 DEF JobOK, SuccessOK
    <3>5. keyOwner # NoMember => Part(wal'[m], wal'[keyOwner])
      BY <1>w, <2>2, <3>2
    <3>6. Safe(m)'
      BY <2>1, <3>4, <3>5 DEF Safe, ClaimOK
    <3>. QED
      BY <2>1, <2>2, <3>2, <3>3, <3>6, StepSafe
  <2>5. CASE server'[m] = "empty" /\ job'[m] = NoJob /\ wal' = wal
    <3>1. JobOK(m)' /\ SuccessOK(m)' /\ ~Sure(m)'
      BY <1>t, <2>1, <2>2, <2>5 DEF JobOK, SuccessOK, Sure
    <3>2. Safe(m)'
      BY <2>1, <3>1 DEF Safe, ClaimOK
    <3>. QED
      BY <2>3, <2>5, <3>2, StepWithoutWal
  <2>. QED
    BY <2>1, <2>4, <2>5
<1>7. CASE DemoteGracefully(m)
  <2>1. PICK R \in SUBSET {o \in Members : server[o] = "replica" /\ source[o] = m
                                           /\ wal[o] = wal[m]} :
           wal' = [o \in Members |-> IF o \in R \cup {m} THEN Append1(m) ELSE wal[o]]
    BY <1>7 DEF DemoteGracefully
  <2>2. /\ keyOwner = m /\ keyOwner' = NoMember /\ server[m] = "primary"
        /\ server'[m] = "shutdown"
        /\ EndCycle(m, Triggered(rewind[m]), Job("demoted", NoMember, FALSE), FALSE)
    BY <1>t, <1>7 DEF DemoteGracefully, RewindTypes
  <2>3. Author(m) /\ ~Promote(m)
    BY <2>2 DEF Author, IsMaster, Promote
  <2>4. \A o \in R \cup {m} : wal[o] = wal[m] /\ (o # m => ~Author(o))
    BY <2>1, <2>2 DEF Author, IsMaster
  <2>5. WalInv'
    <3>1. (R \cup {m}) \in SUBSET Members
      BY <2>1
    <3>. QED
      BY <1>t, <2>1, <2>2, <2>3, <2>4, <3>1, WalContinued
  <2>6. rewind'[m] = Triggered(rewind[m]) /\ job'[m] = Job("demoted", NoMember, FALSE)
    BY <2>2, EndCycleOwn
  <2>7. /\ job'[m].kind = "demoted" /\ rewind'[m] # "SUCCESS"
        /\ CanAct => rewind'[m] \in {"CHECK", "NEED"}
    BY <1>t, <2>2, <2>6 DEF Triggered, SuccessOK, Job
  <2>8. Safe(m)'
    BY <1>t, <1>c, <2>2, <2>7 DEF Safe, JobOK, SuccessOK, ClaimOK
  <2>. QED
    BY <2>2, <2>5, <2>8, StepSafe
<1>. QED
  BY <1>1, <1>2, <1>3, <1>4, <1>5, <1>6, <1>7

(* Any step. *)
LEMMA StepKeepsSettled ==
    ASSUME RewindInv, RewindInv', SettledInv, ~LateTasks, ~MissedTerms, ~Orphans,
           NEW m \in Members, Acts(m)
    PROVE  SettledInv'
<1>1. StepEffect(m)
  BY StepHasEffect DEF SettledInv, Safe
<1>2. CASE \/ Commit(m) \/ Stream(m) \/ Promote(m) \/ SingleUser(m)
           \/ CopyFromLeader(m) \/ Clone(m) \/ DemoteGracefully(m)
  BY <1>1, <1>2, WritesKeepSettled
<1>3. CASE /\ ~Promote(m)
           /\ \/ Cycle(m) \/ BusyCycle(m)
              \/ Promoted(m) \/ PromoteFails(m) \/ Start(m) \/ PrepareRewind(m)
              \/ CopyFails(m) \/ Reinitialize(m) \/ StartCopy(m) \/ AfterDemotion(m)
              \/ Checkpoint(m) \/ CheckpointEnds(m) \/ ServerCrash(m)
              \/ RestartPatroni(m) \/ LoseKey(m) \/ DemoteAtOnce(m)
  <2>1. wal' = wal
    BY <1>3 DEF Cycle, LeaderCycle, ElectionCycle, FollowCycle, GiveUpCycle, RecoverCycle,
       CloneCycle, BusyCycle, Promoted, PromoteFails, Start, PrepareRewind, CopyFails,
       Reinitialize, StartCopy, AfterDemotion, Checkpoint, CheckpointEnds, ServerCrash,
       RestartPatroni, LoseKey, DemoteAtOnce
  <2>2. Safe(m)'
    BY <1>1, <1>3, <2>1, CyclesKeepSafe, QuietWorkKeepsSafe, QuietFaultsKeepSafe
  <2>. QED
    BY <1>1, <1>3, <2>1, <2>2, StepWithoutWal
<1>. QED
  BY <1>2, <1>3 DEF Acts, Work

LEMMA SettledAtFirst ==
    ASSUME RewindInit
    PROVE  SettledInv
<1>. USE RewindAssumption, NoMemberAssumption
<1>. DEFINE w == <<<<1, Founder>>>>
<1>1. /\ wal = [m \in Members |-> w] /\ keyOwner = Founder
      /\ server = [m \in Members |-> IF m = Founder THEN "primary" ELSE "replica"]
      /\ status = [m \in Members |-> [master |-> m = Founder, ready |-> m = Founder]]
  BY DEF RewindInit
<1>2. /\ w \in Seq(Records) /\ w # <<>> /\ Len(w) = 1 /\ DOMAIN w = {1} /\ w[1] = <<1, Founder>>
      /\ w[1][1] = 1 /\ Timeline(w) = 1
  BY DEF Records, Timeline, Last
<1>. HIDE DEF w
<1>3. Shape(w) /\ Agree(w, w)
  BY <1>2 DEF Shape, Agree
<1>4. WalsOK
  BY <1>1, <1>3 DEF WalsOK
<1>5. \A m \in Members : Longest(m)
  BY <1>1, <1>2 DEF Longest
<1>6. \A m \in Members : Author(m) => m = Founder
  BY <1>1 DEF Author, IsMaster
<1>7. AuthorsOK
  BY <1>5, <1>6 DEF AuthorsOK
<1>8. OwnerIsNewest
  BY <1>1, <1>2 DEF OwnerIsNewest
<1>9. MoreTypes
  BY DEF RewindInit, MoreTypes
<1>10. ASSUME NEW m \in Members PROVE Safe(m)
  <2>1. /\ job[m] = NoJob /\ NoJob.kind = "none" /\ rewind[m] # "SUCCESS"
        /\ server[m] = "primary" => keyOwner = m
    BY NoJobType DEF RewindInit
  <2>2. JobOK(m) /\ SuccessOK(m)
    BY <2>1 DEF JobOK, SuccessOK
  <2>3. Part(wal[m], wal[Founder])
    BY <1>1, <1>3, PartReflexive
  <2>. QED
    BY <1>1, <2>1, <2>2, <2>3 DEF Safe, ClaimOK
<1>. QED
  BY <1>4, <1>7, <1>8, <1>9, <1>10 DEF SettledInv, WalInv

(* Types, tasks, WALs and what is said of them together. *)
THEOREM SettledInductive ==
    ASSUME ~StaleStatus, ~LateTasks, ~MissedTerms, ~Orphans
    PROVE  RewindSpec => [](RewindInv /\ SettledInv)
<1>1. RewindInit => SettledInv
  BY SettledAtFirst
<1>2. RewindInv /\ RewindInv' /\ SettledInv /\ [RewindNext]_rewindVars => SettledInv'
  <2>. SUFFICES ASSUME RewindInv, RewindInv', SettledInv, [RewindNext]_rewindVars
                PROVE  SettledInv'
    OBVIOUS
  <2>1. ASSUME NEW m \in Members, Acts(m) PROVE SettledInv'
    BY <2>1, StepKeepsSettled
  <2>2. CASE UNCHANGED rewindVars
    <3>1. MoreTypes' = MoreTypes
      BY <2>2 DEF rewindVars, MoreTypes
    <3>2. WalInv' = WalInv
      BY <2>2 DEF rewindVars, WalInv, WalsOK, AuthorsOK, OwnerIsNewest, Longest, Author, IsMaster
    <3>3. \A m \in Members : Safe(m)' = Safe(m)
      BY <2>2 DEF rewindVars, Safe, JobOK, SuccessOK, ClaimOK, Sure, Follows, CanAct
    <3>. QED
      BY <3>1, <3>2, <3>3 DEF SettledInv
  <2>. QED
    BY <2>1, <2>2 DEF RewindNext, Acts
<1>3. RewindSpec => []RewindInv
  BY RewindInductive
<1>. QED
  BY <1>1, <1>2, <1>3, PTL DEF RewindSpec

(* A replica that follows the leader and is done with its decisions has nothing that the
   leader has not, through any failures and changes of the leader, if whoever is elected
   has the newest timeline and nothing of the term before is still under way. *)
THEOREM NobodyStaysDiverged ==
    ASSUME ~StaleStatus, ~LateTasks, ~MissedTerms, ~Orphans
    PROVE  RewindSpec => []NobodySettlesDiverged
<1>1. RewindInv /\ SettledInv => NobodySettlesDiverged
  <2>. SUFFICES ASSUME RewindInv, SettledInv, NEW m \in Members,
                       keyOwner \notin {m, NoMember}, CanAct,
                       server[m] = "replica", source[m] = keyOwner, m \in started,
                       rewind[m] \in {"INITIAL", "NOT_NEED", "SUCCESS"}
                PROVE  ~Diverged(m, keyOwner)
    BY DEF NobodySettlesDiverged
  <2>1. Part(wal[m], wal[keyOwner])
    BY DEF SettledInv, Safe, ClaimOK, Sure
  <2>2. keyOwner \in Members
    BY DEF RewindInv, RewindTypes
  <2>3. wal[m] \in Seq(Records) /\ wal[keyOwner] \in Seq(Records)
    BY <2>2 DEF SettledInv, WalInv, WalsOK, Shape
  <2>. QED
    BY <2>1, <2>3, PrefixIsPart DEF Diverged
<1>. QED
  BY <1>1, SettledInductive, PTL

-----------------------------------------------------------------------------
(* The leader key. *)

(* The leader key and the primaries, as LeaderLease sees them. This module begins when
   a leader has been elected, in the middle of a behaviour of the lease. *)
writers == {m \in Members : server[m] = "primary"}

Lease == INSTANCE LeaderLease WITH Nodes <- Members, NoNode <- NoMember, owner <- keyOwner
KeepsTheLease == [][Lease!Next]_(Lease!vars)

Promotes(j) == j.kind \in {"promote", "promoted"}

(* m is a primary or becomes one. *)
Leads(m) == server[m] = "primary" \/ Promotes(job[m])

LeadersOwn == \A m \in Members : Leads(m) => keyOwner = m

LeadEffect(m) ==
    /\ \A o \in Members \ {m} : server'[o] = server[o] /\ Promotes(job'[o]) = Promotes(job[o])
    /\ \/ keyOwner' = keyOwner /\ (Leads(m)' => Leads(m))
       \/ keyOwner = m /\ keyOwner' = NoMember /\ ~Leads(m)'
       \/ keyOwner \in {m, NoMember} /\ keyOwner' = m /\ server' = server

(* The other tasks. *)
LEMMA PassiveJobs ==
    /\ ~Promotes(NoJob) /\ \A l : ~Promotes(Remedy(l))
    /\ \A l, r : /\ ~Promotes(Job("start", l, r)) /\ ~Promotes(Job("demoted", l, r))
                 /\ ~Promotes(Job("single user", l, r)) /\ ~Promotes(Job("clone", l, r))
                 /\ ~Promotes(Job("copy", l, r))
BY DEF Promotes, NoJob, Job, Remedy

LEMMA CycleEndLeads ==
    ASSUME RewindInv, NEW m \in Members, NEW s, NEW j, NEW leads \in BOOLEAN,
           EndCycle(m, s, j, leads)
    PROVE  /\ job'[m] = j
           /\ \A o \in Members \ {m} : Promotes(job'[o]) = Promotes(job[o])
BY EndCycleSelf DEF Promotes

(* A cycle that ends without a promotion. *)
LEMMA PassiveCycle ==
    ASSUME RewindInv, NEW m \in Members, NEW s, NEW j, NEW leads \in BOOLEAN,
           EndCycle(m, s, j, leads), ~Promotes(j),
           \/ server' = server /\ keyOwner' = keyOwner
           \/ /\ keyOwner = m /\ keyOwner' = NoMember
              /\ \E v \in Stopped : server' = [server EXCEPT ![m] = v]
    PROVE  LeadEffect(m)
<1>1. server \in [Members -> Running \cup Stopped] /\ "primary" \notin Stopped
  BY DEF RewindInv, RewindTypes, Stopped
<1>. QED
  BY <1>1, CycleEndLeads DEF LeadEffect, Leads

LEMMA CyclesLead ==
    ASSUME RewindInv, NEW m \in Members, Cycle(m) \/ BusyCycle(m)
    PROVE  LeadEffect(m)
<1>0. /\ server' = server /\ server \in [Members -> Running \cup Stopped]
      /\ TRUE \in BOOLEAN /\ FALSE \in BOOLEAN
      /\ server[m] \in Stopped => \E v \in Stopped : server' = [server EXCEPT ![m] = v]
  <2>1. server' = server
    BY DEF Cycle, LeaderCycle, ElectionCycle, FollowCycle, GiveUpCycle, RecoverCycle,
           CloneCycle, BusyCycle
  <2>2. server \in [Members -> Running \cup Stopped]
    BY DEF RewindInv, RewindTypes
  <2>. QED
    BY <2>1, <2>2
<1>1. CASE LeaderCycle(m)
  <2>1. \E s : EndCycle(m, s, NoJob, TRUE)
    BY <1>1 DEF LeaderCycle
  <2>. QED
    BY <1>0, <1>1, <2>1, PassiveJobs, PassiveCycle DEF LeaderCycle
<1>2. CASE ElectionCycle(m)
  <2>1. PICK s, j : EndCycle(m, s, j, TRUE)
    BY <1>2 DEF ElectionCycle
  <2>2. keyOwner \in {m, NoMember} /\ keyOwner' = m
    BY <1>2 DEF ElectionCycle
  <2>. QED
    BY <1>0, <2>1, <2>2, CycleEndLeads DEF LeadEffect
<1>3. CASE FollowCycle(m)
  <2>1. PICK s : EndCycle(m, s, NoJob, FALSE) \/ EndCycle(m, s, Remedy(keyOwner), FALSE)
    BY <1>3 DEF FollowCycle
  <2>2. keyOwner' = keyOwner
    BY <1>3 DEF FollowCycle
  <2>. QED
    BY <1>0, <2>1, <2>2, PassiveJobs, PassiveCycle
<1>4. CASE GiveUpCycle(m)
  <2>1. /\ EndCycle(m, rewind[m], NoJob, FALSE) /\ server[m] \in Stopped
        /\ keyOwner' = IF keyOwner = m THEN NoMember ELSE keyOwner
    BY <1>4 DEF GiveUpCycle
  <2>. QED
    BY <1>0, <2>1, PassiveJobs, PassiveCycle
<1>5. CASE RecoverCycle(m)
  <2>1. PICK s : \/ EndCycle(m, s, Remedy(keyOwner), keyOwner = m)
                 \/ \E l : EndCycle(m, s, Job("start", l, FALSE), keyOwner = m)
                 \/ \E l : EndCycle(m, s, Job("single user", l, FALSE), keyOwner = m)
    BY <1>5 DEF RecoverCycle
  <2>2. keyOwner' = keyOwner
    BY <1>5 DEF RecoverCycle
  <2>3. (keyOwner = m) \in BOOLEAN
    OBVIOUS
  <2>. QED
    BY <1>0, <2>1, <2>2, <2>3, PassiveJobs, PassiveCycle
<1>6. CASE CloneCycle(m)
  <2>1. PICK j \in {NoJob, Job("clone", keyOwner, FALSE)} : EndCycle(m, rewind[m], j, FALSE)
    BY <1>6 DEF CloneCycle
  <2>2. /\ server[m] \in Stopped
        /\ keyOwner' = IF keyOwner = m THEN NoMember ELSE keyOwner
    BY <1>6 DEF CloneCycle, Stopped
  <2>. QED
    BY <1>0, <2>1, <2>2, PassiveJobs, PassiveCycle
<1>7. CASE BusyCycle(m)
  <2>1. /\ EndCycle(m, rewind[m], job[m], keyOwner = m) /\ (keyOwner = m) \in BOOLEAN
        /\ keyOwner' = keyOwner
    BY <1>7 DEF BusyCycle
  <2>. QED
    BY <1>0, <2>1, CycleEndLeads DEF LeadEffect, Leads
<1>. QED
  BY <1>1, <1>2, <1>3, <1>4, <1>5, <1>6, <1>7 DEF Cycle

LEMMA WorkLeads ==
    ASSUME RewindInv, NEW m \in Members, Work(m)
    PROVE  LeadEffect(m)
<1>t. /\ server \in [Members -> Running \cup Stopped] /\ job \in [Members -> JobRecords]
      /\ TaskOK(m)
  BY DEF RewindInv, RewindTypes
<1>k. \A k : /\ [job[m] EXCEPT !.kind = k].kind = k
             /\ [job EXCEPT ![m].kind = k][m] = [job[m] EXCEPT !.kind = k]
  BY <1>t DEF JobRecords
<1>1. keyOwner' = keyOwner
  BY DEF Work, Promote, Promoted, PromoteFails, Start, SingleUser, PrepareRewind,
         CopyFromLeader, CopyFails, Reinitialize, Clone, StartCopy, AfterDemotion
<1>2. \A o \in Members \ {m} : server'[o] = server[o] /\ job'[o] = job[o]
  BY <1>t
  DEF Work, Promote, Promoted, PromoteFails, Start, SingleUser, PrepareRewind,
      CopyFromLeader, CopyFails, Reinitialize, Clone, StartCopy, AfterDemotion, Done
<1>3. CASE Promote(m) \/ Promoted(m) \/ PromoteFails(m)
  <2>1. Leads(m)
    BY <1>3 DEF Promote, Promoted, PromoteFails, Leads, Promotes
  <2>. QED
    BY <1>1, <1>2, <2>1 DEF LeadEffect
<1>4. CASE ~(Promote(m) \/ Promoted(m) \/ PromoteFails(m))
  <2>1. ~Promotes(job'[m])
    <3>1. CASE \/ Start(m) \/ SingleUser(m) \/ CopyFromLeader(m) \/ CopyFails(m)
      BY <1>t, <3>1, PassiveJobs DEF Start, SingleUser, CopyFromLeader, CopyFails, Done
    <3>2. CASE PrepareRewind(m)
      BY <1>t, <3>2, PassiveJobs DEF PrepareRewind
    <3>3. CASE Reinitialize(m)
      BY <1>k, <3>3 DEF Reinitialize, Promotes
    <3>4. CASE Clone(m)
      BY <1>t, <1>k, <3>4, PassiveJobs DEF Clone, Done, Promotes
    <3>5. CASE StartCopy(m) \/ AfterDemotion(m)
      <4>1. PICK j : /\ job' = [job EXCEPT ![m] = j]
                     /\ j = NoJob \/ \E l : j = Job("start", l, FALSE)
        BY <3>5 DEF StartCopy, AfterDemotion
      <4>2. job'[m] = j
        BY <1>t, <4>1
      <4>. QED
        BY <4>1, <4>2, PassiveJobs
    <3>. QED
      BY <1>4, <3>1, <3>2, <3>3, <3>4, <3>5 DEF Work
  <2>2. server'[m] = "primary" => server[m] = "primary"
    BY <1>t, <1>4
    DEF Work, Start, SingleUser, PrepareRewind, CopyFromLeader, CopyFails, Reinitialize,
        Clone, StartCopy, AfterDemotion, AfterStop
  <2>. QED
    BY <1>1, <1>2, <2>1, <2>2 DEF LeadEffect, Leads
<1>. QED
  BY <1>3, <1>4

LEMMA ActsLead ==
    ASSUME RewindInv, NEW m \in Members, Acts(m)
    PROVE  LeadEffect(m)
<1>t. server \in [Members -> Running \cup Stopped] /\ job \in [Members -> JobRecords]
  BY DEF RewindInv, RewindTypes
<1>1. CASE \/ Commit(m) \/ Stream(m) \/ Checkpoint(m) \/ CheckpointEnds(m) \/ RestartPatroni(m)
  BY <1>1 DEF Commit, Stream, Checkpoint, CheckpointEnds, RestartPatroni, LeadEffect, Leads
<1>2. CASE LoseKey(m)
  BY <1>2 DEF LoseKey, LeadEffect, Leads, Promotes
<1>3. CASE ServerCrash(m)
  <2>1. /\ keyOwner' = keyOwner /\ job' = WithJob(m, job[m], TRUE)
        /\ server' = [server EXCEPT ![m] = IF @ = "primary" THEN "production" ELSE "archive"]
    BY <1>3 DEF ServerCrash
  <2>2. \A o \in Members : Promotes(job'[o]) = Promotes(job[o])
    BY <2>1, <1>t DEF WithJob, JobRecords, Promotes
  <2>. QED
    BY <2>1, <2>2, <1>t DEF LeadEffect, Leads
<1>4. CASE DemoteAtOnce(m)
  <2>1. /\ EndCycle(m, Triggered(rewind[m]), Job("start", NoMember, FALSE), FALSE)
        /\ keyOwner = m /\ keyOwner' = NoMember
        /\ server' = [server EXCEPT ![m] = "production"]
    BY <1>4 DEF DemoteAtOnce
  <2>2. "production" \in Stopped /\ FALSE \in BOOLEAN
    BY DEF Stopped
  <2>. QED
    BY <2>1, <2>2, PassiveJobs, PassiveCycle
<1>5. CASE DemoteGracefully(m)
  <2>1. /\ EndCycle(m, Triggered(rewind[m]), Job("demoted", NoMember, FALSE), FALSE)
        /\ keyOwner = m /\ keyOwner' = NoMember
        /\ server' = [server EXCEPT ![m] = "shutdown"]
    BY <1>5 DEF DemoteGracefully
  <2>2. "shutdown" \in Stopped /\ FALSE \in BOOLEAN
    BY DEF Stopped
  <2>. QED
    BY <2>1, <2>2, PassiveJobs, PassiveCycle
<1>6. CASE Cycle(m) \/ BusyCycle(m)
  BY <1>6, CyclesLead
<1>7. CASE Work(m)
  BY <1>7, WorkLeads
<1>. QED
  BY <1>1, <1>2, <1>3, <1>4, <1>5, <1>6, <1>7 DEF Acts

(* Elections, tasks and failures move the leader key and the roles of Postgres only as
   LeaderLease allows, whatever is late or has been missed: nobody is promoted without the
   key, and the key is not taken from under a primary. (A stale status is excluded because
   RewindInv, on which the types of the tasks rest, is proved without it.) *)
THEOREM RewindKeepsTheLease ==
    ASSUME ~StaleStatus
    PROVE  RewindSpec => KeepsTheLease
<1>1. RewindInit => LeadersOwn
  BY PassiveJobs DEF RewindInit, LeadersOwn, Leads
<1>2. RewindInv /\ LeadersOwn /\ [RewindNext]_rewindVars
        => LeadersOwn' /\ [Lease!Next]_(Lease!vars)
  <2>. SUFFICES ASSUME RewindInv, LeadersOwn, [RewindNext]_rewindVars
                PROVE  LeadersOwn' /\ (Lease!Next \/ UNCHANGED <<keyOwner, writers>>)
    BY DEF Lease!vars
  <2>1. CASE UNCHANGED rewindVars
    BY <2>1 DEF rewindVars, LeadersOwn, Leads, writers
  <2>2. ASSUME NEW m \in Members, LeadEffect(m)
        PROVE  LeadersOwn' /\ (Lease!Next \/ UNCHANGED <<keyOwner, writers>>)
    <3>. USE NoMemberAssumption
    <3>1. LeadersOwn'
      <4>1. ASSUME NEW o \in Members \ {m}, Leads(o)' PROVE keyOwner' = o
        <5>1. Leads(o)
          BY <2>2, <4>1 DEF LeadEffect, Leads
        <5>2. keyOwner = o
          BY <5>1 DEF LeadersOwn
        <5>. QED
          BY <2>2, <5>2 DEF LeadEffect
      <4>2. Leads(m)' => keyOwner' = m
        BY <2>2 DEF LeadEffect, LeadersOwn
      <4>. QED
        BY <4>1, <4>2 DEF LeadersOwn
    <3>. SUFFICES Lease!Next \/ UNCHANGED <<keyOwner, writers>>
      BY <3>1
    <3>2. /\ writers \subseteq {keyOwner} /\ writers' \subseteq {keyOwner'}
          /\ writers \cup writers' \subseteq Members
      BY <3>1 DEF LeadersOwn, Leads, writers
    <3>3. CASE keyOwner' = keyOwner
      <4>1. CASE writers' = writers
        BY <3>3, <4>1
      <4>2. CASE writers = {} /\ writers' = {keyOwner}
        BY <3>2, <3>3, <4>2 DEF Lease!Next, Lease!Promote
      <4>3. CASE writers # {} /\ writers' = {}
        BY <3>3, <4>3 DEF Lease!Next, Lease!StepDown
      <4>. QED
        BY <3>2, <3>3, <4>1, <4>2, <4>3
    <3>4. CASE keyOwner' = NoMember
      <4>1. writers' = {}
        BY <3>2, <3>4
      <4>. QED
        BY <3>4, <4>1 DEF Lease!Next, Lease!StepDown, Lease!Release
    <3>5. CASE keyOwner = NoMember /\ keyOwner' = m /\ server' = server
      <4>1. writers = {} /\ writers' = writers
        BY <3>2, <3>5 DEF writers
      <4>. QED
        BY <3>5, <4>1 DEF Lease!Next, Lease!Acquire
    <3>. QED
      BY <2>2, <3>1, <3>3, <3>4, <3>5 DEF LeadEffect
  <2>. QED
    BY <2>1, <2>2, ActsLead DEF RewindNext, Acts
<1>. QED
  BY <1>1, <1>2, RewindInductive, PTL DEF RewindSpec, KeepsTheLease
=============================================================================
