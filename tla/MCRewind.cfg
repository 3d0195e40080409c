SPECIFICATION RewindFairSpec
CONSTANTS
    m1 = m1
    m2 = m2
    m3 = m3
    Members = {m1, m2}
    NoMember = NoMember
    Settings <- AllSettings
    Founder = m1
    Orphans = FALSE
    MissedTerms = FALSE
    LateTasks = TRUE
    StaleStatus = FALSE
    MaxRecords = 3
    MaxFaults = 2
INVARIANTS
    RewindAfterCheckpoint
    NobodySettlesDiverged
PROPERTIES
    RewindComesToAnEnd
CHECK_DEADLOCK FALSE
