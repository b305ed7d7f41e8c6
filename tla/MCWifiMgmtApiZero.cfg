SPECIFICATION ApiSpec
CONSTANTS
    QueueCap = 4
    WaitCap = 5
    ConnectRetryLimit = 2
    RoamingRetryLimit = 1
    DhcpPollingLimit = 1
    CountMod = 2
    Cmds = {}
    Flags = {}
    MaxCmds = 1
    MaxInds = 0
    Ops = {"connect"}
INVARIANT ConnectZeroMeansConnected
CHECK_DEADLOCK FALSE
