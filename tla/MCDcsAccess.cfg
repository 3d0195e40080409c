SPECIFICATION AccessSpec
CONSTANTS
    Client <- CacheClients
    MaxWrites = 4
    MaxSwitches = 2
    MaxBreaks = 1
    d1 = d1
    d2 = d2
    service = service
    Flavors <- AllFlavors
    Servers <- AllServers
    Service = service
    RetryTimeout = 4
    MaxChanges = 2
    p1 = p1
    p2 = p2
    p3 = p3
    s1 = s1
    s2 = s2
    Nobody = Nobody
    Me = p1
    Peers <- TwoPeers
    Slots <- TwoSlots
    SlotOf <- SharedSlot
    Clusters <- SlotClusters
    MaxSlotChanges = 2
    MaxSlotMishaps = 1
    w1 = w1
    w2 = w2
    w3 = w3
    r1 = r1
    r2 = r2
    NoWorker = NoWorker
    Workers <- ThreeWorkers
    Requests <- TwoRequests
    Tasks = {"promote", "restart", "follow"}
    Forced = {FALSE}
INVARIANTS NoStreamFromOldServer RequestIsBounded OneTask RevokedNeverCommits
PROPERTIES NothingOlderIsEntered CacheAtWorkConverges ClientAtWorkRecovers NodeHasItsSlots
CHECK_DEADLOCK FALSE
