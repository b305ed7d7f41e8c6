SPECIFICATION ApiSpec
CONSTANTS
    QueueCap = 4
    WaitCap = 5
    ConnectRetryLimit = 2
    RoamingRetryLimit = 1
    DhcpPollingLimit = 1
    CountMod = 2
    Cmds = {}
    Flags = {}
    MaxCmds = 2
    MaxInds = 0
    Ops <- AllOps
INVARIANTS
    ConnectRemembered
    DisconnectAnswered
    ApStartAnswered
    DisconnectLasts
    StartMeansStarted
CHECK_DEADLOCK FALSE
