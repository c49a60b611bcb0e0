SPECIFICATION FairSpec
CONSTANTS
    QueueLength = 2
    CounterMod = 3
    HostPoolSize = 2
    DspPoolSize = 2
    MaxSessions = 2
    MaxCommands = 2
    MaxOutstanding = 2
    MayCrash = FALSE
    MayStall = FALSE
    MayTear = FALSE
    NoMessage = NoMessage
    Garbage = Garbage
CHECK_DEADLOCK FALSE
INVARIANTS
    SyncIsFresh
    CommandsAwaitSync
    FreshStart
PROPERTIES
    EveryCommandAnswered
    ImplementsService
