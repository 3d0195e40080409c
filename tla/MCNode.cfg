SPECIFICATION NodeFairSpec
CONSTANTS
    m1 = m1
    m2 = m2
    NoMember = NoMember
    Members <- BothMembers
    CanBootstrap <- BothMembers
    Standby = {TRUE, FALSE}
    Overwrites = {TRUE, FALSE}
    Origins = {"new", "existing"}
    CancelIsSlow = FALSE
    MaxMishaps = 2
    d1 = d1
    d2 = d2
    NoDevice = NoDevice
    Hardware <- AbleHardware
    Configs <- SameTimeout
    MaxConfigs = 2
    MaxParamMishaps = 2
    Upstreams = {"a", "b"}
    Versions = {11, 12, 13}
    MaxMoves = 2
    MaxFollowMishaps = 1
    Pids = {1, 2, 3}
    MaxStopMishaps = 2
    w1 = w1
    w2 = w2
    r1 = r1
    NoWorker = NoWorker
    Workers <- BothWorkers
    Requests <- OneRequest
    Tasks = {"restart"}
    Forced = {TRUE, FALSE}
INVARIANTS
    OneBootstrapper LeaderHasTheData
    PrimaryIsGuarded NoStrayDevice
    TakenOrFlagged SafepointIsSafe StopLeavesNobody
PROPERTIES
    ClusterIsNotReplaced NoNeedlessRestart
     PostgresStartsAgain StandbyFollows ExecutorRequestsEnd
CHECK_DEADLOCK FALSE
