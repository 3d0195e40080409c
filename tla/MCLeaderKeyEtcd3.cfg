SPECIFICATION LeaderKeySpec
CONSTANTS
    Members = {m1, m2}
    NoMember = NoMember
    Backends <- OnlyEtcd3
    MaxFaults = 1
    MaxLeases = 4
PROPERTIES KeyIsNotTaken
