SPECIFICATION GroupSpec
CONSTANTS
    MaxPrefix = 10
    Addr <- NestedAddr
    Prefix <- NestedPrefix
    Beyond = 0
    SizeModulus = 1
    OwnAddr <- Own
    NoActor = NoActor
INVARIANT ActorsExist
PROPERTY ImplementsPool
