SPECIFICATION LeaderKeyFairSpec
CONSTANTS
    Members = {m1, m2}
    NoMember = NoMember
    Backends <- AllBackends
    MaxFaults = 2
    MaxLeases = 6
PROPERTIES KeyIsNotTakenByCas TrueMeansHeld BeliefIsCorrected FreeKeyIsTaken
