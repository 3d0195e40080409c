--------------------------- MODULE AsyncExecutor ---------------------------
(***************************************************************************)
(* The executor of the background tasks of one Patroni process             *)
(* (async_executor.py) with its users: the HA loop, which schedules tasks  *)
(* and cancels critical ones (ha.py), and the threads of the REST API that *)
(* serve restart and reinitialize. A task may call a subprocess, which     *)
(* can be cancelled too (postgresql/cancellable.py).                       *)
(*                                                                         *)
(* _thread_lock is held by the HA loop for a whole cycle (loop # "idle");  *)
(* every other thread that takes it does so within one step. A worker is   *)
(* the thread that runs one task. Module Ha takes for granted what this    *)
(* one examines: that there is at most one task at a time, and that a      *)
(* critical task does nothing once it has been cancelled.                  *)
(***************************************************************************)
CONSTANTS
    Workers,       \* the threads that run tasks
    Requests,      \* the threads of the REST API that serve reinitialize
    NoWorker,      \* nobody
    Tasks,         \* the tasks that the loop and restart requests schedule
    Forced          \* the values of "force" in the requests: a set of Booleans

ASSUME NoWorkerAssumption == NoWorker \notin Workers
ASSUME TasksAssumption == Tasks \subseteq {"promote", "restart", "follow"}
ASSUME ForcedAssumption == Forced \subseteq BOOLEAN

VARIABLES
    leader,         \* who owns the leader key: this node, another one, or nobody
    loop,           \* "idle", or the owner of the key that the cycle has seen
    slot,           \* _scheduled_action: the worker it belongs to, or NoWorker
    execCancelled,  \* AsyncExecutor._is_cancelled
    finished,       \* AsyncExecutor._finish_event
    procCancelled,  \* CancellableSubprocess._is_cancelled
    pc,             \* what a worker does next
    job,            \* the task of a worker
    cancelled,      \* is_cancelled of critical_task and of _async_response
    completed,      \* result of critical_task and of _async_response is not None
    revoked,        \* history: the workers whose critical task was cancelled
    request         \* how far a reinitialize request has got

executor == <<slot, execCancelled, finished>>
critical == <<cancelled, completed, revoked>>
executorVars == <<leader, loop, slot, execCancelled, finished, procCancelled, pc, job,
          cancelled, completed, revoked, request>>

Owners == {"nobody", "self", "other"}
CriticalJobs == {"promote", "restart"}
Jobs == CriticalJobs \cup {"none", "follow", "reinitialize"}

ExecutorTypeOK ==
    /\ leader \in Owners
    /\ loop \in Owners \cup {"idle"}
    /\ slot \in Workers \cup {NoWorker}
    /\ execCancelled \in BOOLEAN
    /\ finished \in BOOLEAN
    /\ procCancelled \in BOOLEAN
    /\ pc \in [Workers -> {"free", "start", "reset", "func", "process", "commit", "finish"}]
    /\ job \in [Workers -> Jobs]
    /\ cancelled \in [CriticalJobs -> BOOLEAN]
    /\ completed \in [CriticalJobs -> BOOLEAN]
    /\ revoked \in SUBSET Workers
    /\ request \in [Requests -> {"idle", "checked", "cancel", "kill", "wait",
                                 "waiting", "woken"}]

ExecutorInit ==
    /\ leader \in {"nobody", "other"}
    /\ loop = "idle"
    /\ slot = NoWorker
    /\ execCancelled = FALSE
    /\ finished = FALSE
    /\ procCancelled = FALSE
    /\ pc = [w \in Workers |-> "free"]
    /\ job = [w \in Workers |-> "none"]
    /\ cancelled = [j \in CriticalJobs |-> FALSE]
    /\ completed = [j \in CriticalJobs |-> FALSE]
    /\ revoked = {}
    /\ request = [r \in Requests |-> "idle"]

LockFree == loop = "idle"

-----------------------------------------------------------------------------
(* Mutant: schedule() does not look at the action in progress. *)
ScheduleAnyway(w, action) ==
    /\ pc[w] = "free"
    /\ slot' = w
    /\ execCancelled' = FALSE
    /\ finished' = TRUE
    /\ pc' = [pc EXCEPT ![w] = "start"]
    /\ job' = [job EXCEPT ![w] = action]

(* AsyncExecutor.schedule, and a thread w to run the action. *)
Schedule(w, action) ==
    /\ slot = NoWorker
    /\ pc[w] = "free"
    /\ slot' = w
    /\ execCancelled' = FALSE
    /\ finished' = TRUE
    /\ pc' = [pc EXCEPT ![w] = "start"]
    /\ job' = [job EXCEPT ![w] = action]

(* CriticalTask.cancel of action, which the worker in the slot runs. *)
Revoke(action) ==
    /\ slot # NoWorker /\ job[slot] = action
    /\ ~completed[action]
    /\ cancelled' = [cancelled EXCEPT ![action] = TRUE]
    /\ revoked' = revoked \cup {slot}
    /\ UNCHANGED completed

(* CriticalTask.reset. *)
ResetTask(action) ==
    /\ cancelled' = [cancelled EXCEPT ![action] = FALSE]
    /\ completed' = [completed EXCEPT ![action] = FALSE]

-----------------------------------------------------------------------------
(* AsyncExecutor.run, in the thread of a worker. *)

(* Mutant: the critical task is reset when a task begins. *)
BeginResetsTask(w) ==
    /\ pc[w] = "start" /\ LockFree
    /\ IF execCancelled
       THEN pc' = [pc EXCEPT ![w] = "finish"] /\ UNCHANGED finished
       ELSE pc' = [pc EXCEPT ![w] = "reset"] /\ finished' = FALSE
    /\ ResetTask("restart")
    /\ UNCHANGED <<leader, loop, slot, execCancelled, procCancelled, job, revoked, request>>

(* Mutant: run() returns at once when it is cancelled, outside of the try block. *)
BeginReturns(w) ==
    /\ pc[w] = "start" /\ LockFree
    /\ IF execCancelled
       THEN pc' = [pc EXCEPT ![w] = "free"] /\ UNCHANGED finished
       ELSE pc' = [pc EXCEPT ![w] = "reset"] /\ finished' = FALSE
    /\ UNCHANGED <<leader, loop, slot, execCancelled, procCancelled, job, critical, request>>

Begin(w) ==
    /\ pc[w] = "start" /\ LockFree
    /\ IF execCancelled
       THEN pc' = [pc EXCEPT ![w] = "finish"] /\ UNCHANGED finished
       ELSE pc' = [pc EXCEPT ![w] = "reset"] /\ finished' = FALSE
    /\ UNCHANGED <<leader, loop, slot, execCancelled, procCancelled, job, critical, request>>

ResetIsCancelled(w) ==
    /\ pc[w] = "reset"
    /\ pc' = [pc EXCEPT ![w] = "func"]
    /\ procCancelled' = FALSE
    /\ UNCHANGED <<leader, loop, executor, job, critical, request>>

(* CancellableSubprocess.call, which raises an exception once it is cancelled. *)
CallProcess(w) ==
    /\ pc[w] = "func"
    /\ pc' = [pc EXCEPT ![w] = IF procCancelled THEN "finish" ELSE "process"]
    /\ UNCHANGED <<leader, loop, executor, procCancelled, job, critical, request>>

(* The subprocess ends, by itself or because it was terminated. *)
ProcessEnds(w) ==
    /\ pc[w] = "process"
    /\ pc' \in {[pc EXCEPT ![w] = p] : p \in {"func", "finish"}}
    /\ UNCHANGED <<leader, loop, executor, procCancelled, job, critical, request>>

(* The critical part of promote and of start: unless it is cancelled, the task is
   marked as completed, and Postgres is promoted or started after that, or not. *)
Commit(w) ==
    /\ pc[w] = "func" /\ job[w] \in CriticalJobs
    /\ IF cancelled[job[w]]
       THEN pc' = [pc EXCEPT ![w] = "finish"] /\ UNCHANGED completed
       ELSE /\ completed' = [completed EXCEPT ![job[w]] = TRUE]
            /\ pc' \in {[pc EXCEPT ![w] = p] : p \in {"commit", "finish"}}
    /\ UNCHANGED <<leader, loop, executor, procCancelled, job, cancelled, revoked, request>>

(* The function of the task returns or raises an exception. *)
FuncReturns(w) ==
    /\ pc[w] \in {"func", "commit"}
    /\ pc' = [pc EXCEPT ![w] = "finish"]
    /\ UNCHANGED <<leader, loop, executor, procCancelled, job, critical, request>>

(* Event.set: every thread that waits is woken. *)
Woken == [r \in Requests |-> IF request[r] = "waiting" THEN "woken" ELSE request[r]]

(* Mutant: run() ends without setting the event. *)
FinishQuietly(w) ==
    /\ pc[w] = "finish" /\ LockFree
    /\ pc' = [pc EXCEPT ![w] = "free"]
    /\ job' = [job EXCEPT ![w] = "none"]
    /\ slot' = NoWorker
    /\ ResetTask("restart")
    /\ revoked' = revoked \ {w}
    /\ UNCHANGED <<leader, loop, execCancelled, finished, procCancelled, request>>

(* The finally clause of run(). *)
Finish(w) ==
    /\ pc[w] = "finish" /\ LockFree
    /\ pc' = [pc EXCEPT ![w] = "free"]
    /\ job' = [job EXCEPT ![w] = "none"]
    /\ slot' = NoWorker
    /\ finished' = TRUE
    /\ request' = Woken
    /\ ResetTask("restart")
    /\ revoked' = revoked \ {w}
    /\ UNCHANGED <<leader, loop, execCancelled, procCancelled>>

-----------------------------------------------------------------------------
(* The HA loop. *)

CycleBegins ==
    /\ loop = "idle"
    /\ loop' = leader
    /\ UNCHANGED <<leader, executor, procCancelled, pc, job, critical, request>>

(* The cycle ends without touching the executor. *)
CycleEnds ==
    /\ loop # "idle"
    /\ loop' = "idle"
    /\ UNCHANGED <<leader, executor, procCancelled, pc, job, critical, request>>

(* Nobody owned the key and it is acquired, or the lock is kept: promote. *)
StartPromote(w) ==
    /\ "promote" \in Tasks
    /\ slot = NoWorker
    /\ \/ loop = "self" /\ UNCHANGED leader
       \/ loop = "nobody" /\ leader = "nobody" /\ leader' = "self"
    /\ ResetTask("promote")
    /\ Schedule(w, "promote")
    /\ loop' = "idle"
    /\ UNCHANGED <<procCancelled, revoked, request>>

(* Postgres is started as a replica, or made to follow another node. *)
StartFollow(w) ==
    /\ "follow" \in Tasks
    /\ loop \in Owners /\ slot = NoWorker
    /\ Schedule(w, "follow")
    /\ loop' = "idle"
    /\ UNCHANGED <<leader, procCancelled, critical, request>>

(* handle_long_action_in_progress when the lock is lost, or could not be renewed:
   a promotion is cancelled, and its pre_promote script is killed. *)
CancelPromote ==
    /\ loop # "idle"
    /\ Revoke("promote")
    /\ procCancelled' = TRUE
    /\ loop' = "idle"
    /\ UNCHANGED <<leader, executor, pc, job, request>>

(* The same for the restart of a master, before it is demoted. *)
CancelRestart ==
    /\ loop # "idle"
    /\ Revoke("restart")
    /\ loop' = "idle"
    /\ UNCHANGED <<leader, executor, procCancelled, pc, job, request>>

-----------------------------------------------------------------------------
(* The REST API. *)

(* Ha.restart: schedule under the lock, run in this or in another thread. *)
Restart(w) ==
    /\ "restart" \in Tasks
    /\ LockFree
    /\ Schedule(w, "restart")
    /\ UNCHANGED <<leader, loop, procCancelled, critical, request>>

(* reinitialize: refused without a leader, and on the leader. *)
CheckLeader(r) ==
    /\ request[r] = "idle" /\ LockFree
    /\ leader = "other"
    /\ \E force \in Forced :
         request' = [request EXCEPT ![r] = IF force THEN "cancel" ELSE "checked"]
    /\ UNCHANGED <<leader, loop, executor, procCancelled, pc, job, critical>>

(* AsyncExecutor.cancel, in three parts and a wait. *)
Cancel(r) ==
    /\ request[r] = "cancel" /\ LockFree
    /\ IF slot = NoWorker
       THEN request' = [request EXCEPT ![r] = "checked"] /\ UNCHANGED execCancelled
       ELSE request' = [request EXCEPT ![r] = "kill"] /\ execCancelled' = TRUE
    /\ UNCHANGED <<leader, loop, slot, finished, procCancelled, pc, job, critical>>

CancelProcess(r) ==
    /\ request[r] = "kill"
    /\ procCancelled' = TRUE
    /\ request' = [request EXCEPT ![r] = "wait"]
    /\ UNCHANGED <<leader, loop, executor, pc, job, critical>>

WaitFinished(r) ==
    /\ request[r] = "wait"
    /\ request' = [request EXCEPT ![r] = IF finished THEN "woken" ELSE "waiting"]
    /\ UNCHANGED <<leader, loop, executor, procCancelled, pc, job, critical>>

ResetScheduledAction(r) ==
    /\ request[r] = "woken" /\ LockFree
    /\ slot' = NoWorker
    /\ request' = [request EXCEPT ![r] = "checked"]
    /\ UNCHANGED <<leader, loop, execCancelled, finished, procCancelled, pc, job, critical>>

(* The second half of reinitialize: schedule, unless something is in progress. *)
Reinitialize(r) ==
    /\ request[r] = "checked" /\ LockFree
    /\ \/ \E w \in Workers : Schedule(w, "reinitialize")
       \/ slot # NoWorker /\ UNCHANGED <<executor, pc, job>>
    /\ request' = [request EXCEPT ![r] = "idle"]
    /\ UNCHANGED <<leader, loop, procCancelled, critical>>

-----------------------------------------------------------------------------
(* The key expires or is given back, or another node takes it. *)
LeaderChanges ==
    /\ \/ leader # "nobody" /\ leader' = "nobody"
       \/ leader = "nobody" /\ leader' = "other"
    /\ UNCHANGED <<loop, executor, procCancelled, pc, job, critical, request>>

WorkerStep(w) ==
    \/ Begin(w) \/ ResetIsCancelled(w) \/ CallProcess(w) \/ ProcessEnds(w)
    \/ Commit(w) \/ FuncReturns(w) \/ Finish(w)

RequestStep(r) ==
    \/ Cancel(r) \/ CancelProcess(r) \/ WaitFinished(r) \/ ResetScheduledAction(r)
    \/ Reinitialize(r)

ExecutorNext ==
    \/ \E w \in Workers : WorkerStep(w) \/ StartPromote(w) \/ StartFollow(w) \/ Restart(w)
    \/ \E r \in Requests : CheckLeader(r) \/ RequestStep(r)
    \/ CycleBegins \/ CycleEnds \/ CancelPromote \/ CancelRestart
    \/ LeaderChanges

ExecutorSpec == ExecutorInit /\ [][ExecutorNext]_executorVars

(* A thread that can run does, a cycle ends, a function does not call subprocesses
   for ever, and who waits for the lock gets it, for the loop sleeps between cycles. *)
Fairness ==
    /\ WF_executorVars(CycleEnds)
    /\ \A w \in Workers :
         /\ SF_executorVars(Begin(w) \/ FuncReturns(w) \/ Finish(w))
         /\ WF_executorVars(ResetIsCancelled(w) \/ ProcessEnds(w))
    /\ \A r \in Requests : SF_executorVars(RequestStep(r))

ExecutorFairSpec == ExecutorSpec /\ Fairness

-----------------------------------------------------------------------------
Running(w) == pc[w] \in {"reset", "func", "process", "commit"}

(* The functions of two tasks never run at the same time: "we've got here, so any
   async action has finished" (Ha._run_cycle), "There must be only one such process
   so that AsyncExecutor can easily cancel it" (CancellableExecutor). *)
OneTask == \A v, w \in Workers : Running(v) /\ Running(w) => v = w

(* A cancelled critical task does not promote or start Postgres, whatever ends,
   begins or is reset in the meantime: "When cancel returns True it is guaranteed
   that the background task will notice" (CriticalTask). *)
RevokedNeverCommits == \A w \in revoked : pc[w] # "commit"

(* The executor is never busy with a task that nobody runs: whatever is cancelled,
   refused or finished, the scheduled action is that of a live thread. *)
BusyHasWorker == slot # NoWorker => pc[slot] # "free"

(* reinitialize never works on the leader: 'I am the leader, can not reinitialize'
   (Ha.reinitialize). *)
LeaderIsNotReinitialized ==
    \A w \in Workers : Running(w) /\ job[w] = "reinitialize" => leader # "self"

(* A thread owns the slot from schedule() to the end of run(), and a task whose
   cancel() returned True keeps its flag as long: what OneTask and
   RevokedNeverCommits rest on when nobody calls AsyncExecutor.cancel. *)
SlotInv ==
    /\ \A r \in Requests : request[r] \in {"idle", "checked"}
    /\ \A w \in Workers :
         /\ pc[w] # "free" <=> slot = w
         /\ pc[w] = "commit" => job[w] \in CriticalJobs /\ completed[job[w]]
         /\ w \in revoked =>
               slot = w /\ job[w] \in CriticalJobs /\ cancelled[job[w]] /\ ~completed[job[w]]

ExecInv == ExecutorTypeOK /\ SlotInv

(* A forced reinitialize gets an answer, although it may miss the event that it
   waits for and another task may clear it again. *)
RequestsEnd == \A r \in Requests : request[r] # "idle" ~> request[r] = "idle"
=============================================================================
