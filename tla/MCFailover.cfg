CONSTANTS
    Members = {m1, m2, m3}
    NoMember = NoMember
    FirstLeader = m1
    NoFailover = {}
    Candidates = {m2}
    MaximumLag = 0
    CheckTimeline = FALSE
    SlowRace = FALSE
    MaxPosition = 1
    MaxEvents = 2
SPECIFICATION FailoverFairSpec
INVARIANTS LossIsBounded
PROPERTIES LeaderIsFound SwitchoverPassesOn RequestIsAnswered
CHECK_DEADLOCK FALSE
