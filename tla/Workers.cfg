SPECIFICATION FairSpec
CONSTANTS
    NWorkers = 2
    Rank <- RisingRanks
    MaxClients = 2
    MaxObjects = 2
    Room = 6
    Buffers = 2
    MaxData = 2
    MaxCommands = 1
    MaxChanges = 1
    MaxFails = 1
    MaxAsked = 2
    Faults = {}
INVARIANTS TableSound NoMisuse OneThread InOrder NothingLost BuffersHome TasksFound
PROPERTIES EveryCommandAnswered
CHECK_DEADLOCK FALSE
