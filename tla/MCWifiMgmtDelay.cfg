SPECIFICATION Spec
CONSTANTS
    QueueCap = 3
    WaitCap = 0
    ConnectRetryLimit = 2
    RoamingRetryLimit = 1
    DhcpPollingLimit = 1
    CountMod = 2
    Cmds <- StaCmds
    Flags = {}
    MaxCmds = 2
    MaxInds = 1
INVARIANT DelayMeansLater
CHECK_DEADLOCK FALSE
