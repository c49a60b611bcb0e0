CONSTANTS
    t1 = t1
    t2 = t2
    Nobody = Nobody
    Threads = {t1, t2}
    Setups <- MCSetups
SPECIFICATION FairSpec
INVARIANTS
    OneCallAtATime
    AuxConserved
    ClientsSound
    OwnAnswer
    PutToOpen
PROPERTIES
    EveryCallReturns
CHECK_DEADLOCK FALSE
