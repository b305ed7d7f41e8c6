SPECIFICATION ApiSpec
CONSTANTS
    QueueCap = 4
    WaitCap = 5
    ConnectRetryLimit = 1
    RoamingRetryLimit = 1
    DhcpPollingLimit = 1
    CountMod = 2
    Cmds = {}
    Flags = {}
    MaxCmds = 1
    MaxInds = 1
    Ops = {"disconnect"}
INVARIANT DisconnectLasts
CHECK_DEADLOCK FALSE
