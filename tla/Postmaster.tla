----------------------------- MODULE Postmaster -----------------------------
(* How Postgres is stopped (postgresql/__init__.py stop, postmaster.py): a *)
(* signal that the postmaster processes some time later, the safepoint that*)
(* is announced when no user backend is left, and, after a timeout, an     *)
(* immediate shutdown and in the end SIGKILL to the postmaster and its     *)
(* children.  The HA loop disables the watchdog and gives up the leader key*)
(* on the word of these functions.                                         *)
(*                                                                         *)
(* A user backend is a process number; the auxiliary processes are left    *)
(* out, as are single-user mode and Windows.                               *)
EXTENDS Naturals, FiniteSets

CONSTANTS
  Pids,           \* of user backends
  MaxStopMishaps  \* bound: kills from outside, failing calls

ASSUME StopBound == MaxStopMishaps \in Nat

VARIABLES
  phase,       \* of the postmaster: "up", "fast", "immediate", "dead"
  signals,     \* sent to it and not processed
  suspended,   \* by SIGSTOP
  backends,    \* the user backends; each may return a commit
  connection,  \* does Patroni's own connection live
  stopPc, stopMode,
  awaited,     \* was on_safepoint given
  listed,      \* the children as they were listed
  safepoint,   \* on_safepoint was called in this stop
  stopMishaps,
  orphaned,    \* history: the postmaster died before its backends
  misled       \* history: a call failed for a reason other than the stop

stopVars == <<phase, signals, suspended, backends, connection, stopPc, stopMode,
              awaited, listed, safepoint, stopMishaps, orphaned, misled>>

serverProcesses == <<phase, signals, suspended, backends, connection, orphaned>>
locals == <<stopMode, awaited, listed, safepoint>>

StopModes == {"fast", "immediate"}

StopTypeOK ==
  /\ phase \in {"up", "dead"} \union StopModes
  /\ signals \subseteq StopModes
  /\ suspended \in BOOLEAN /\ connection \in BOOLEAN /\ awaited \in BOOLEAN
  /\ safepoint \in BOOLEAN /\ orphaned \in BOOLEAN /\ misled \in BOOLEAN
  /\ backends \subseteq Pids
  /\ listed \subseteq Pids
  /\ stopPc \in {"idle", "signal", "closing", "list", "backends", "safepoint", "wait",
                 "harder", "waitHarder", "waitOut", "suspend", "children", "kill", "killChildren",
                 "stopped", "failed"}
  /\ stopMode \in StopModes
  /\ stopMishaps \in 0..MaxStopMishaps

StopInit ==
  /\ phase = "up"
  /\ signals = {}
  /\ suspended = FALSE
  /\ backends = {}
  /\ connection \in BOOLEAN
  /\ stopPc = "idle"
  /\ stopMode \in StopModes
  /\ awaited \in BOOLEAN
  /\ listed = {}
  /\ safepoint = FALSE
  /\ stopMishaps = MaxStopMishaps
  /\ orphaned = FALSE
  /\ misled = FALSE

StopMishap == stopMishaps > 0 /\ stopMishaps' = stopMishaps - 1

-----------------------------------------------------------------------------
(* Postgres *)

BackendStarts ==
  /\ phase = "up"
  /\ ~suspended
  /\ \E p \in Pids \ backends : backends' = backends \union {p}
  /\ UNCHANGED <<phase, signals, suspended, connection, orphaned, stopPc, locals,
                 stopMishaps, misled>>

BackendEnds ==
  /\ \E p \in backends : backends' = backends \ {p}
  /\ UNCHANGED <<phase, signals, suspended, connection, orphaned, stopPc, locals,
                 stopMishaps, misled>>

\* From then on nobody is let in, and every connection is being terminated.
ProcessSignal ==
  /\ phase \in {"up", "fast"}
  /\ ~suspended
  /\ \E s \in signals :
       /\ phase' = s
       /\ signals' = signals \ {s}
  /\ UNCHANGED <<suspended, backends, connection, orphaned, stopPc, locals,
                 stopMishaps, misled>>

ConnectionTerminated ==
  /\ phase # "up"
  /\ connection
  /\ connection' = FALSE
  /\ UNCHANGED <<phase, signals, suspended, backends, orphaned, stopPc, locals,
                 stopMishaps, misled>>

PostmasterEnds ==
  /\ phase \in StopModes
  /\ ~suspended
  /\ backends = {}
  /\ phase' = "dead"
  /\ signals' = {}
  /\ connection' = FALSE
  /\ UNCHANGED <<suspended, backends, orphaned, stopPc, locals, stopMishaps, misled>>

\* The kernel kills the postmaster alone.
PostmasterKilled ==
  /\ phase # "dead"
  /\ StopMishap
  /\ phase' = "dead"
  /\ signals' = {}
  /\ orphaned' = (backends # {})
  /\ UNCHANGED <<suspended, backends, connection, stopPc, locals, misled>>

-----------------------------------------------------------------------------
(* Postgresql.stop *)

OnSafepoint(next) == safepoint' = awaited /\ stopPc' = next

\* (The safepoint is waited for only if a callback was given.)
\* No postmaster: the safepoint is reached and Postgres is stopped.
DoStop ==
  /\ stopPc = "idle"
  /\ IF phase = "dead" THEN OnSafepoint("stopped")
                       ELSE stopPc' = "signal" /\ UNCHANGED safepoint
  /\ UNCHANGED <<serverProcesses, stopMode, awaited, listed, stopMishaps, misled>>

SignalStop ==
  /\ stopPc = "signal"
  /\ \/ /\ phase # "dead"
        /\ signals' = signals \union {stopMode}
        /\ stopPc' = IF awaited THEN "closing" ELSE "wait"
        /\ UNCHANGED <<safepoint, stopMishaps>>
     \/ /\ phase = "dead"
        /\ OnSafepoint("stopped")
        /\ UNCHANGED <<signals, stopMishaps>>
     \/ /\ StopMishap  \* access denied
        /\ stopPc' = "failed"
        /\ UNCHANGED <<signals, safepoint>>
  /\ UNCHANGED <<phase, suspended, backends, connection, orphaned, stopMode,
                 awaited, listed, misled>>

\* Patroni's own connection is asked again and again until that fails, opened
\* anew if need be: the sign that nobody is let in any more.  The question
\* may fail for another reason, too (statement_timeout, too many clients).
ConnectionAlive ==
  /\ stopPc = "closing"
  /\ phase = "up"
  /\ connection' = TRUE
  /\ UNCHANGED <<phase, signals, suspended, backends, orphaned, stopPc, locals,
                 stopMishaps, misled>>

(* Mutant: one answer is waited for, whatever it says. *)
AnswerReceived ==
  /\ stopPc = "closing"
  /\ stopPc' = "list"
  /\ UNCHANGED <<serverProcesses, locals, stopMishaps, misled>>

WaitForConnectionClose ==
  /\ stopPc = "closing"
  /\ \/ /\ phase = "dead" \/ (phase # "up" /\ ~connection)
        /\ UNCHANGED <<stopMishaps, misled>>
     \/ phase = "up" /\ StopMishap /\ misled' = TRUE
  /\ stopPc' = "list"
  /\ UNCHANGED <<serverProcesses, locals>>

ListUserBackends ==
  /\ stopPc = "list"
  /\ \/ /\ phase # "dead"
        /\ listed' = backends
        /\ stopPc' = "backends"
        /\ UNCHANGED <<stopMishaps, misled>>
     \/ /\ stopPc' = "safepoint"
        /\ IF phase = "dead" THEN UNCHANGED <<stopMishaps, misled>>
                             ELSE StopMishap /\ misled' = TRUE
        /\ UNCHANGED listed
  /\ UNCHANGED <<serverProcesses, stopMode, awaited, safepoint>>

WaitForUserBackendsToClose ==
  /\ stopPc = "backends"
  /\ listed \intersect backends = {}
  /\ stopPc' = "safepoint"
  /\ UNCHANGED <<serverProcesses, locals, stopMishaps, misled>>

ReachSafepoint ==
  /\ stopPc = "safepoint"
  /\ OnSafepoint("wait")
  /\ UNCHANGED <<serverProcesses, stopMode, awaited, listed, stopMishaps, misled>>

WaitForPostmaster ==
  /\ stopPc \in {"wait", "waitHarder", "waitOut"}
  /\ phase = "dead"
  /\ stopPc' = "stopped"
  /\ UNCHANGED <<serverProcesses, locals, stopMishaps, misled>>

\* A stop with a timeout: an immediate shutdown first, then SIGKILL.
StopTimeout ==
  /\ phase # "dead"
  /\ \/ stopPc = "wait" /\ stopPc' = IF stopMode = "immediate" THEN "suspend" ELSE "harder"
     \/ stopPc = "waitHarder" /\ stopPc' = "suspend"
  /\ UNCHANGED <<serverProcesses, locals, stopMishaps, misled>>

StopImmediately ==
  /\ stopPc = "harder"
  /\ \/ /\ phase = "dead"
        /\ stopPc' = "stopped"
        /\ UNCHANGED <<signals, stopMishaps>>
     \/ /\ phase # "dead"
        /\ stopPc' = "waitHarder"
        /\ \/ signals' = signals \union {"immediate"} /\ UNCHANGED stopMishaps
           \/ StopMishap /\ UNCHANGED signals
  /\ UNCHANGED <<phase, suspended, backends, connection, orphaned, locals, misled>>

(* Mutant: the postmaster goes on while its children are listed. *)
NotSuspended ==
  /\ stopPc = "suspend"
  /\ stopPc' = "children"
  /\ UNCHANGED <<serverProcesses, locals, stopMishaps, misled>>

\* signal_kill: a suspended postmaster starts nothing any more.  A failure is
\* logged, and the killing goes on.
SuspendPostmaster ==
  /\ stopPc = "suspend"
  /\ \/ /\ phase = "dead"
        /\ stopPc' = "stopped"
        /\ UNCHANGED <<suspended, stopMishaps, misled>>
     \/ /\ phase # "dead"
        /\ stopPc' = "children"
        /\ \/ suspended' = TRUE /\ UNCHANGED <<stopMishaps, misled>>
           \/ StopMishap /\ misled' = TRUE /\ UNCHANGED suspended
  /\ UNCHANGED <<phase, signals, backends, connection, orphaned, locals>>

ListChildren ==
  /\ stopPc = "children"
  /\ \/ /\ phase = "dead"
        /\ stopPc' = "stopped"
        /\ UNCHANGED <<listed, stopMishaps, misled>>
     \/ /\ phase # "dead"
        /\ stopPc' = "kill"
        /\ \/ listed' = backends /\ UNCHANGED <<stopMishaps, misled>>
           \/ listed' = {} /\ StopMishap /\ misled' = TRUE
  /\ UNCHANGED <<serverProcesses, stopMode, awaited, safepoint>>

\* Who is not allowed to kill it waits for it without a timeout.
KillFails ==
  /\ stopPc = "kill"
  /\ phase # "dead"
  /\ StopMishap
  /\ stopPc' = "waitOut"
  /\ UNCHANGED <<serverProcesses, locals, misled>>

KillPostmaster ==
  /\ stopPc = "kill"
  /\ phase' = "dead"
  /\ suspended' = FALSE
  /\ signals' = {}
  /\ stopPc' = IF phase = "dead" THEN "stopped" ELSE "killChildren"
  /\ UNCHANGED <<backends, connection, orphaned, locals, stopMishaps, misled>>

KillChildren ==
  /\ stopPc = "killChildren"
  /\ backends' = backends \ listed
  /\ stopPc' = "stopped"
  /\ UNCHANGED <<phase, signals, suspended, connection, orphaned, locals,
                 stopMishaps, misled>>

StopStep == \/ SignalStop \/ ConnectionAlive \/ WaitForConnectionClose
            \/ ListUserBackends \/ WaitForUserBackendsToClose \/ ReachSafepoint
            \/ WaitForPostmaster \/ StopTimeout \/ StopImmediately
            \/ SuspendPostmaster \/ ListChildren
            \/ KillPostmaster \/ KillFails \/ KillChildren

PostgresStep == \/ BackendStarts \/ BackendEnds \/ ProcessSignal
                \/ ConnectionTerminated \/ PostmasterEnds

StopNext == DoStop \/ StopStep \/ PostgresStep \/ PostmasterKilled

StopSpec == StopInit /\ [][StopNext]_stopVars

-----------------------------------------------------------------------------
\* "This callback is called when no user backends are running" (stop): from
\* the safepoint on nobody can be told of a commit, however the signal, the
\* clients and the stop interleave.  Excepted are a postmaster killed from
\* outside before its backends and a failed call that told nothing.
SafepointIsSafe == safepoint => backends = {} \/ orphaned \/ misled

\* A stop that succeeds leaves nobody, by whichever of the signals it came
\* about (terminate_postmaster, signal_kill).
StopLeavesNobody ==
  stopPc = "stopped" => phase = "dead" /\ (backends = {} \/ orphaned \/ misled)

\* The docstring of stop, without exceptions.
SafepointMeansNoBackends == safepoint => backends = {}

=============================================================================
