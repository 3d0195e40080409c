----------------------------- MODULE Parameters -----------------------------
(* The parameters of one member's Postgres (postgresql/config.py,          *)
(* daemon.py, __init__.py, and the start in postgresql/__init__.py): from  *)
(* the configuration in the DCS through Config and ConfigHandler into      *)
(* postgresql.conf and the running postmaster, and the flag                *)
(* pending_restart that says what the postmaster could not take over.      *)
(*                                                                         *)
(* Two threads write all of it without a lock: the main thread reloads the *)
(* configuration after a cycle of the HA loop, the executor starts and     *)
(* restarts Postgres.  Two parameters stand for the two kinds the code     *)
(* tells apart: "work" is taken over by a reload, "conns" only by a        *)
(* restart, and a standby exits when its value is below the one in its     *)
(* control data (the max_connections, max_worker_processes... of           *)
(* effective_configuration).  pg_hba, pg_ident and the addresses Postgres  *)
(* listens on are left out, as is the wording of postgresql.conf.          *)
EXTENDS Naturals

CONSTANTS
  MaxConfigs,        \* bound: changes of the configuration in the DCS
  MaxParamMishaps    \* bound: crashes, failing queries, changes on the primary

ASSUME ParameterBounds == MaxConfigs \in Nat /\ MaxParamMishaps \in Nat

Conns == 1..2
Work == 1..2
ParameterSets == [conns : Conns, work : Work]

Change == [params : ParameterSets, confChanged : BOOLEAN, pending : BOOLEAN,
           sighup : BOOLEAN]
NoChange == [params |-> [conns |-> 1, work |-> 1], confChanged |-> FALSE,
             pending |-> FALSE, sighup |-> FALSE]

VARIABLES
  dcsConfig,         \* /config in the DCS
  dynamicConfig,     \* Config._dynamic_configuration
  serverParameters,  \* ConfigHandler._server_parameters
  fileConf,          \* postgresql.conf
  postmaster,        \* is the postmaster alive
  settings,          \* what the postmaster runs (or last ran) with
  pgPending,         \* pg_settings.pending_restart of some parameter
  control,           \* max_connections in the control data
  pgState, pgRole,   \* Postgresql.state and .role
  pendingRestart,    \* Postgresql.pending_restart
  mainPc, change,    \* the main thread, and the locals of reload_config
  execPc, effective, \* the executor, and the local configuration of start
  configsLeft, mishapsLeft,
  missed             \* history: the last reload failed, or met a start

paramsVars == <<dcsConfig, dynamicConfig, serverParameters, fileConf, postmaster,
                settings, pgPending, control, pgState, pgRole, pendingRestart,
                mainPc, change, execPc, effective, configsLeft, mishapsLeft, missed>>

external == <<dcsConfig, configsLeft>>
serverSide == <<postmaster, settings, pgPending, control>>
handler == <<serverParameters, fileConf, pendingRestart>>
status == <<pgState, pgRole>>
mainThread == <<dynamicConfig, mainPc, change>>
starter == <<execPc, effective>>

ParamsTypeOK ==
  /\ {dcsConfig, dynamicConfig, serverParameters, fileConf, settings, effective}
       \subseteq ParameterSets
  /\ {postmaster, pgPending, pendingRestart, missed} \subseteq BOOLEAN
  /\ control \in Conns
  /\ pgState \in {"running", "restarting", "starting", "start failed"}
  /\ pgRole \in {"master", "replica"}
  /\ mainPc \in {"loop", "compare", "flag", "write", "reload", "recheck"}
  /\ change \in Change
  /\ execPc \in {"idle", "stop", "start", "effective", "write", "launch", "wait"}
  /\ configsLeft \in 0..MaxConfigs
  /\ mishapsLeft \in 0..MaxParamMishaps

\* A member that joined a running Postgres with the configuration of the DCS.
ParamsInit ==
  /\ dcsConfig = NoChange.params
  /\ dynamicConfig = dcsConfig
  /\ serverParameters = dcsConfig
  /\ fileConf = dcsConfig
  /\ postmaster = TRUE
  /\ settings = dcsConfig
  /\ pgPending = FALSE
  /\ control = dcsConfig.conns
  /\ pgState = "running"
  /\ pgRole \in {"master", "replica"}
  /\ pendingRestart = FALSE
  /\ mainPc = "loop"
  /\ change = NoChange
  /\ execPc = "idle"
  /\ effective = dcsConfig
  /\ configsLeft = MaxConfigs
  /\ mishapsLeft = MaxParamMishaps
  /\ missed = FALSE

ParamMishap == mishapsLeft > 0 /\ mishapsLeft' = mishapsLeft - 1

-----------------------------------------------------------------------------
(* Around the member *)

\* Somebody edits the configuration of the cluster.
EditConfig ==
  /\ configsLeft > 0
  /\ \E c \in ParameterSets \ {dcsConfig} : dcsConfig' = c
  /\ configsLeft' = configsLeft - 1
  /\ UNCHANGED <<serverSide, handler, status, mainThread, starter, mishapsLeft, missed>>

\* The postmaster dies.
PostmasterCrash ==
  /\ postmaster
  /\ ParamMishap
  /\ postmaster' = FALSE
  /\ UNCHANGED <<settings, pgPending, control, external, handler, status,
                 mainThread, starter, missed>>

\* A standby replays a change of max_connections on its primary, and exits
\* when it runs with less.
ReplayParameterChange ==
  /\ pgRole = "replica"
  /\ postmaster
  /\ ParamMishap
  /\ \E n \in Conns \ {control} :
       /\ control' = n
       /\ postmaster' = (settings.conns >= n)
  /\ UNCHANGED <<settings, pgPending, external, handler, status, mainThread,
                 starter, missed>>

\* The executor promotes a running standby.
Promoted ==
  /\ pgRole = "replica"
  /\ pgState = "running"
  /\ postmaster
  /\ execPc = "idle"
  /\ pgRole' = "master"
  /\ control' = settings.conns
  /\ UNCHANGED <<postmaster, settings, pgPending, pgState, external, handler,
                 mainThread, starter, mishapsLeft, missed>>

-----------------------------------------------------------------------------
(* The main thread: Patroni._run_cycle and ConfigHandler.reload_config *)

BeginReload(sighup) ==
  /\ mainPc = "loop"
  /\ mainPc' = "compare"
  /\ change' = [NoChange EXCEPT !.sighup = sighup]
  /\ missed' = (execPc # "idle")
  /\ UNCHANGED <<external, serverSide, handler, status, starter, mishapsLeft>>

\* The configuration read from the DCS is remembered first and applied then.
SetDynamicConfiguration ==
  /\ dynamicConfig # dcsConfig
  /\ dynamicConfig' = dcsConfig
  /\ BeginReload(FALSE)

\* SIGHUP: the configuration file is read again (the same one here).
Sighup == UNCHANGED dynamicConfig /\ BeginReload(TRUE)

(* Mutant: the handler compares with what it wanted before. *)
CurrentlyWanted == serverParameters

\* Of the wanted parameters, what differs from the values in force; nothing
\* at all unless the state of Postgres is running.
CurrentlyInForce == settings

ComparedTo(current) ==
  [change EXCEPT
     !.params = dynamicConfig,
     !.confChanged = pgState = "running" /\ current # dynamicConfig,
     !.pending = pgState = "running" /\ current.conns # dynamicConfig.conns]

Compare ==
  /\ mainPc = "compare"
  /\ pgState = "running" => postmaster
  /\ change' = ComparedTo(CurrentlyInForce)
  /\ mainPc' = "flag"
  /\ missed' = (missed \/ execPc # "idle")
  /\ UNCHANGED <<dynamicConfig, external, serverSide, handler, status, starter, mishapsLeft>>

\* The query of pg_settings raises: the reload ends, and is not repeated.
CompareFails ==
  /\ mainPc = "compare"
  /\ pgState = "running"
  /\ \/ ~postmaster /\ UNCHANGED mishapsLeft
     \/ postmaster /\ ParamMishap
  /\ mainPc' = "loop"
  /\ change' = NoChange
  /\ missed' = TRUE
  /\ UNCHANGED <<dynamicConfig, external, serverSide, handler, status, starter>>

SetPendingRestart ==
  /\ mainPc = "flag"
  /\ pendingRestart' = change.pending
  /\ mainPc' = "write"
  /\ missed' = (missed \/ execPc # "idle")
  /\ UNCHANGED <<dynamicConfig, change, serverParameters, fileConf, external,
                 serverSide, status, starter, mishapsLeft>>

TakeParameters ==
  /\ mainPc = "write"
  /\ serverParameters' = change.params
  /\ fileConf' = IF change.confChanged THEN change.params ELSE fileConf
  /\ IF change.confChanged \/ change.sighup
       THEN mainPc' = "reload" /\ UNCHANGED change
       ELSE mainPc' = "loop" /\ change' = NoChange
  /\ missed' = (missed \/ execPc # "idle")
  /\ UNCHANGED <<dynamicConfig, pendingRestart, external, serverSide, status,
                 starter, mishapsLeft>>

\* What a postmaster does on SIGHUP with the file conf.
Reread(conf) ==
  IF postmaster
    THEN /\ settings' = [settings EXCEPT !.work = conf.work]
         /\ pgPending' = (settings.conns # conf.conns)
    ELSE UNCHANGED <<settings, pgPending>>

SignalReload ==
  /\ mainPc = "reload"
  /\ Reread(fileConf)
  /\ mainPc' = "recheck"
  /\ missed' = (missed \/ execPc # "idle")
  /\ UNCHANGED <<dynamicConfig, change, postmaster, control, external, handler,
                 status, starter, mishapsLeft>>

\* A second later Postgres is asked itself; an exception leaves the flag.
Recheck ==
  /\ mainPc = "recheck"
  /\ \/ postmaster /\ pendingRestart' = pgPending /\ UNCHANGED mishapsLeft
     \/ postmaster /\ ParamMishap /\ UNCHANGED pendingRestart
     \/ ~postmaster /\ UNCHANGED <<pendingRestart, mishapsLeft>>
  /\ mainPc' = "loop"
  /\ change' = NoChange
  /\ missed' = (missed \/ execPc # "idle")
  /\ UNCHANGED <<dynamicConfig, serverParameters, fileConf, external, serverSide,
                 status, starter>>

\* set_synchronous_standby and follow(do_reload) write what the handler holds.
RewriteAndReload ==
  /\ mainPc = "loop"
  /\ execPc = "idle"
  /\ pgState = "running"
  /\ postmaster
  /\ fileConf # serverParameters
  /\ fileConf' = serverParameters
  /\ Reread(serverParameters)
  /\ UNCHANGED <<serverParameters, pendingRestart, postmaster, control, external,
                 status, mainThread, starter, mishapsLeft, missed>>

-----------------------------------------------------------------------------
(* The executor: restart and start *)

\* A restart in the role it has, or the demotion of a primary.
OrderRestart ==
  /\ execPc = "idle"
  /\ pgState = "running"
  /\ postmaster
  /\ pgState' = "restarting"
  /\ pgRole' \in {pgRole, "replica"}
  /\ execPc' = "stop"
  /\ missed' = (missed \/ mainPc # "loop")
  /\ UNCHANGED <<effective, external, serverSide, handler, mainThread, mishapsLeft>>

StopForRestart ==
  /\ execPc = "stop"
  /\ postmaster' = FALSE
  /\ execPc' = "start"
  /\ missed' = (missed \/ mainPc # "loop")
  /\ UNCHANGED <<settings, pgPending, control, effective, external, handler,
                 status, mainThread, mishapsLeft>>

\* Postgres is down: the HA loop starts it as a standby.
StartAgain ==
  /\ mainPc = "loop"
  /\ execPc = "idle"
  /\ ~postmaster
  /\ pgRole' = "replica"
  /\ execPc' = "start"
  /\ UNCHANGED <<pgState, effective, external, serverSide, handler, mainThread,
                 mishapsLeft, missed>>

BeginStart ==
  /\ execPc = "start"
  /\ pgState' = "starting"
  /\ pendingRestart' = FALSE
  /\ execPc' = "effective"
  /\ missed' = (missed \/ mainPc # "loop")
  /\ UNCHANGED <<pgRole, effective, serverParameters, fileConf, external,
                 serverSide, mainThread, mishapsLeft>>

(* Mutant: the control data are not looked at. *)
NotRaised(params, n) == params

\* The parameters a standby has to start with, given what pg_controldata says.
Raised(params, n) ==
  [params EXCEPT !.conns = IF pgRole = "replica" /\ n > @ THEN n ELSE @]

EffectiveConfiguration ==
  /\ execPc = "effective"
  /\ \/ effective' = Raised(serverParameters, control) /\ UNCHANGED mishapsLeft
     \/ ParamMishap /\ effective' = serverParameters
  /\ pendingRestart' = (pendingRestart \/ effective' # serverParameters)
  /\ execPc' = "write"
  /\ missed' = (missed \/ mainPc # "loop")
  /\ UNCHANGED <<serverParameters, fileConf, external, serverSide, status, mainThread>>

WritePostgresqlConf ==
  /\ execPc = "write"
  /\ fileConf' = effective
  /\ execPc' = "launch"
  /\ missed' = (missed \/ mainPc # "loop")
  /\ UNCHANGED <<effective, serverParameters, pendingRestart, external, serverSide,
                 status, mainThread, mishapsLeft>>

\* max_connections is given on the command line, the rest is read from the
\* file, which the main thread may have replaced.
Launch ==
  /\ execPc = "launch"
  /\ IF pgRole = "replica" /\ effective.conns < control
       THEN UNCHANGED serverSide
       ELSE /\ postmaster' = TRUE
            /\ settings' = [effective EXCEPT !.work = fileConf.work]
            /\ pgPending' = FALSE
            /\ control' = IF pgRole = "master" THEN effective.conns ELSE control
  /\ execPc' = "wait"
  /\ missed' = (missed \/ mainPc # "loop")
  /\ UNCHANGED <<effective, external, handler, status, mainThread, mishapsLeft>>

WaitForStartup ==
  /\ execPc = "wait"
  /\ pgState' = IF postmaster THEN "running" ELSE "start failed"
  /\ execPc' = "idle"
  /\ missed' = (missed \/ mainPc # "loop")
  /\ UNCHANGED <<pgRole, effective, external, serverSide, handler, mainThread, mishapsLeft>>

StartStep == \/ StopForRestart \/ BeginStart \/ EffectiveConfiguration
             \/ WritePostgresqlConf \/ Launch \/ WaitForStartup

ReloadStep == \/ Compare \/ CompareFails \/ SetPendingRestart \/ TakeParameters
              \/ SignalReload \/ Recheck

ParamsNext ==
  \/ EditConfig \/ PostmasterCrash \/ ReplayParameterChange \/ Promoted
  \/ SetDynamicConfiguration \/ Sighup \/ ReloadStep \/ RewriteAndReload
  \/ OrderRestart \/ StartAgain \/ StartStep

\* Both threads run on.  Between two reloads the main thread runs a cycle of
\* the HA loop, which starts a Postgres that is down: hence strong fairness.
ParamsFairness == /\ WF_paramsVars(ReloadStep)
                  /\ WF_paramsVars(SetDynamicConfiguration)
                  /\ WF_paramsVars(StartStep)
                  /\ SF_paramsVars(StartAgain)

ParamsSpec == ParamsInit /\ [][ParamsNext]_paramsVars /\ ParamsFairness

-----------------------------------------------------------------------------
\* Both threads are at rest and Postgres runs.
Settled == /\ mainPc = "loop"
           /\ execPc = "idle"
           /\ pgState = "running"
           /\ postmaster

\* A configuration the member took over without meeting a start is in force
\* once the threads are at rest, through all later restarts, promotions and
\* raised parameters, except for what needs a restart, and then
\* pending_restart says so (reload_config, effective_configuration, start).
TakenOrFlagged ==
  Settled /\ ~missed =>
    /\ settings.work = dynamicConfig.work
    /\ settings.conns # dynamicConfig.conns => pendingRestart

\* Whatever the configuration says and the primary runs with, a standby comes
\* up: it does not for ever start with values it cannot run with
\* (effective_configuration against the control data).
PostgresComesUp == []<>(postmaster /\ pgState = "running")

\* What effective_configuration and reload_config say of the flag: it is set
\* while the values in force are not the expected ones.
MismatchIsFlagged ==
  Settled /\ settings.conns # serverParameters.conns => pendingRestart

=============================================================================
