SPECIFICATION ExecutorSpec
CONSTANTS
    Workers = {w1, w2}
    Requests = {r1, r2}
    NoWorker = NoWorker
    Tasks = {"promote", "restart", "follow"}
    Forced = {TRUE, FALSE}
SYMMETRY Symmetry
INVARIANTS BusyHasWorker
