SPECIFICATION Spec
CONSTANTS
    QueueLength = 2
    CounterMod = 3
    HostPoolSize = 2
    DspPoolSize = 2
    MaxSessions = 2
    MaxCommands = 1
    MaxOutstanding = 1
    MayCrash = FALSE
    MayStall = FALSE
    MayTear = TRUE
    NoMessage = NoMessage
    Garbage = Garbage
CHECK_DEADLOCK FALSE
INVARIANT NoReplay
