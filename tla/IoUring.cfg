SPECIFICATION FairSpec
CONSTANTS
    Null = Null
    SqEntries = 2
    CqEntries = 4
    SqMod = 4
    CqMod = 64
    Fds = {1, 4}
    ARRAY_SIZE = 2
    TimerAddrs = {a1, a2}
    BlockCounts = {2}
    BlockSize = 2
    IdMod = 4
    Loads <- MCLoads
    MaxOps = 3
    MaxGroups = 2
    MaxFails = 1
    MaxShots = 2
CHECK_DEADLOCK FALSE
INVARIANTS
    SqIntact
    EachCompletionOnce
    BufferInOnePlace
PROPERTIES
    EveryCompletionHandled
