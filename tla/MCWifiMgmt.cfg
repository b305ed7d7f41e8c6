SPECIFICATION Spec
CONSTANTS
    QueueCap = 3
    WaitCap = 0
    ConnectRetryLimit = 2
    RoamingRetryLimit = 1
    DhcpPollingLimit = 1
    CountMod = 2
    Cmds <- StaApCmds
    Flags = {"scan_blocked", "preroam_enable"}
    MaxCmds = 2
    MaxInds = 1
INVARIANTS
    TypeOK
    StateOfMachine
    NoLinkWhenIdle
    StartedOnMac
    RetryTimerInv
    DhcpTimerInv
    LinkTimerInv
    ScanNotStranded
    ConnectNotStranded
    HandshakeNotStranded
    DhcpNotStranded
PROPERTY RetriesNeverRegained
CHECK_DEADLOCK FALSE
