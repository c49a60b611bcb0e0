SPECIFICATION Spec
CONSTANTS
    Tasks = {t1, t2, t3, t4, t5, t6, t7, t8, t9, t10}
    Null = Null
    NoNode = NoNode
    StampMod = 8
    CancelTaken = FALSE
VIEW UpToNames
INVARIANTS
    TreeSound
PROPERTY ImplementsEdf
