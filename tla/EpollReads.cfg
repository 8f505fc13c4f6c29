SPECIFICATION Spec
CONSTANTS
    TcpFds = {c, cg}
    UdpFds = {u, ug}
    EventFds = {e}
    ListenFds = {l}
    FileFds = {d}
    GroupFds = {cg, ug}
    Reads = {r1, r2, r3}
    Writes = {}
    Detect = {r3}
    Big = {r1}
    None = None
    MaxRx = 2
    Space = 1
    MaxReady = 1
    MaxOpen = 1
    MaxCloses = 0
    OwnCancel = FALSE
    c = c
    cg = cg
    d = d
    e = e
    l = l
    r1 = r1
    r2 = r2
    r3 = r3
    u = u
    ug = ug
INVARIANTS TypeOK NoLostWakeUp PopsItsOwn
