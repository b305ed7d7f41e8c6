SPECIFICATION Spec
CONSTANTS
    Senders = {mac, deinit}
    Deinit = deinit
    Handlers = {retry, poll}
    Delays = {1, 3}
    QueueCap = 2
    ClockMod = 16
    WrapSub = TRUE
    StartTime = 0
    MaxTime = 2
    MaxTimeouts = 2
    MaxSends = 4
INVARIANT Fifo
CHECK_DEADLOCK FALSE
