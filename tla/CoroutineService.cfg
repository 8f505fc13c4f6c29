SPECIFICATION FairSpec
CONSTANTS
    Coros = {1, 2, 3}
    Fds = {f1}
    Null = Null
    Capacity = 1
    Backends = {"epoll", "io_uring"}
    Loads <- MCLoads
    MaxAws = 3
INVARIANTS FramesOk ReadsDoNotOverlap OnlyKnownFaults
PROPERTIES AwaitEnds Swept
CHECK_DEADLOCK FALSE
