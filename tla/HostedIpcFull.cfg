SPECIFICATION Spec
CONSTANTS
    QueueLength = 2
    CounterMod = 3
    HostPoolSize = 2
    DspPoolSize = 2
    MaxSessions = 1
    MaxCommands = 5
    MaxOutstanding = 5
    MayCrash = FALSE
    MayStall = FALSE
    MayTear = TRUE
    NoMessage = NoMessage
    Garbage = Garbage
CHECK_DEADLOCK FALSE
INVARIANTS
    EveryMessageOnce
    HostPoolConserved
    DspPoolConserved
