SPECIFICATION Spec
CONSTANTS
    Nodes = {n1, n2}
    NoNode = NoNode
    TTL = 3
    SafetyMargin = 1
    MaxDelay = 1
    Races = {"shutdownDuringRestart"}
INVARIANT WriterHasWatchdog
CHECK_DEADLOCK FALSE
