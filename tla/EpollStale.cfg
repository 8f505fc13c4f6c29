SPECIFICATION Spec
CONSTANTS
    TcpFds = {c}
    UdpFds = {}
    EventFds = {}
    ListenFds = {}
    FileFds = {}
    GroupFds = {}
    Reads = {}
    Writes = {w1, w2}
    Detect = {}
    Big = {}
    None = None
    MaxRx = 1
    Space = 1
    MaxReady = 1
    MaxOpen = 1
    MaxCloses = 1
    OwnCancel = FALSE
    c = c
    w1 = w1
    w2 = w2
INVARIANTS Registered
