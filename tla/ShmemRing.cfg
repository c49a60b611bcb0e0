SPECIFICATION Spec
CONSTANTS
    QueueLength = 3
    CounterMod = 4
    m1 = m1
    m2 = m2
    Messages = {m1, m2}
    Nothing = Nothing
INVARIANTS
    TypeOK
    IndicesAgree
    TakenIsOldest
PROPERTIES
    UnreadSlotsKept
    ImplementsFifo
