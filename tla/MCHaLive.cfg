SPECIFICATION FairSpec
CONSTANTS
    Nodes = {n1}
    NoNode = NoNode
    TTL = 4
    SafetyMargin = 2
    MaxDelay = 2
    Races = {}
INVARIANT IInv
PROPERTY WriterRenewsOrStops
CHECK_DEADLOCK FALSE
