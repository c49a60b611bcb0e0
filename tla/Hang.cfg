CONSTANTS
    t1 = t1
    t2 = t2
    Nobody = Nobody
    Threads = {t1, t2}
    Setups <- Preempted
SPECIFICATION FairSpec
PROPERTIES
    TimeoutOnNoResponse
CHECK_DEADLOCK FALSE
