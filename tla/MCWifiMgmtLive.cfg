SPECIFICATION FairSpec
CONSTANTS
    QueueCap = 3
    WaitCap = 1
    ConnectRetryLimit = 2
    RoamingRetryLimit = 2
    DhcpPollingLimit = 1
    CountMod = 2
    Cmds <- StaCmds
    Flags = {}
    MaxCmds = 0
    MaxInds = 1
PROPERTIES
    LinkingEnds
    LossNoticed
CHECK_DEADLOCK FALSE
