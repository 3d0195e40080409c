SPECIFICATION ExecutorSpec
CONSTANTS
    Workers = {w1, w2}
    Requests = {r1}
    NoWorker = NoWorker
    Tasks = {"promote", "restart", "follow"}
    Forced = {FALSE}
SYMMETRY Symmetry
INVARIANT LeaderIsNotReinitialized
