SPECIFICATION FairSpec
CONSTANTS
    QueueLength = 2
    CounterMod = 3
    HostPoolSize = 2
    DspPoolSize = 2
    MaxSessions = 1
    MaxCommands = 3
    MaxOutstanding = 3
    MayCrash = FALSE
    MayStall = FALSE
    MayTear = FALSE
    NoMessage = NoMessage
    Garbage = Garbage
CHECK_DEADLOCK FALSE
PROPERTY EveryCommandAnswered
