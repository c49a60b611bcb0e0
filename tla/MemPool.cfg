SPECIFICATION Spec
CONSTANTS
    PoolSize = 10
    MaxUsage = 1000
    Null = Null
    NoNode = NoNode
VIEW WithoutUsage
INVARIANTS
    MapsAgree
PROPERTIES
    ImplementsFreeList
