SPECIFICATION FairSpec
CONSTANTS
    Modes = {"LISTEN", "CONNECT"}
    MaxConnectCnt = 2
    RetryTicks = 3
    Fds <- MCFds
    MaxChans = 5
INVARIANTS FdsOwned StaleUntilRemoved ConnectedIsServed BufferExclusive CapRespected ConnectorNotStuck
PROPERTIES ListenerReopens
CHECK_DEADLOCK FALSE
