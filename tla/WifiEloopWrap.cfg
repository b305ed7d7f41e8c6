SPECIFICATION Spec
CONSTANTS
    Senders = {mac, deinit}
    Deinit = deinit
    Handlers = {retry, poll}
    Delays = {1, 3}
    QueueCap = 2
    ClockMod = 8
    WrapSub = TRUE
    StartTime = 5
    MaxTime = 12
    MaxTimeouts = 2
    MaxSends = 3
INVARIANT InOrder
CHECK_DEADLOCK FALSE
