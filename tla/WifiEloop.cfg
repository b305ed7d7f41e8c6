SPECIFICATION FairSpec
CONSTANTS
    Senders = {mac, deinit}
    Deinit = deinit
    Handlers = {retry, poll}
    Delays = {1, 3}
    QueueCap = 2
    ClockMod = 16
    WrapSub = FALSE
    StartTime = 0
    MaxTime = 4
    MaxTimeouts = 2
    MaxSends = 3
INVARIANTS
    TypeOK
    InOrder
    
PROPERTIES
    NeverEarly
    TimeoutsServed
    
    TerminateEnds
CHECK_DEADLOCK FALSE
