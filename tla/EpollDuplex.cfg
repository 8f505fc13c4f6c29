SPECIFICATION Spec
CONSTANTS
    TcpFds = {c}
    UdpFds = {u}
    EventFds = {}
    ListenFds = {}
    FileFds = {d}
    GroupFds = {}
    Reads = {r1}
    Writes = {w1, w2}
    Detect = {}
    Big = {w1}
    None = None
    MaxRx = 1
    Space = 1
    MaxReady = 1
    MaxOpen = 1
    MaxCloses = 0
    OwnCancel = TRUE
    c = c
    d = d
    r1 = r1
    u = u
    w1 = w1
    w2 = w2
INVARIANTS NoLostWakeUp TasksOnce
PROPERTIES TaskNotDropped
CHECK_DEADLOCK FALSE
