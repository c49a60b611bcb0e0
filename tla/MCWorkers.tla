-------------------------------- MODULE MCWorkers --------------------------------
EXTENDS Workers

RisingRanks == [t \in 0 .. NWorkers |-> t + 1]
=============================================================================
