SPECIFICATION FairSpec
CONSTANTS
    TcpFds = {c}
    UdpFds = {}
    EventFds = {e}
    ListenFds = {}
    FileFds = {}
    GroupFds = {}
    Reads = {r1, r2}
    Writes = {}
    Detect = {}
    Big = {r1}
    None = None
    MaxRx = 1
    Space = 1
    MaxReady = 1
    MaxOpen = 2
    MaxCloses = 1
    OwnCancel = FALSE
    c = c
    e = e
    r1 = r1
    r2 = r2
INVARIANTS Registered
PROPERTIES ReadCompletes DispatchReturns
