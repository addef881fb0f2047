SPECIFICATION GroupSpec
CONSTANTS
    MaxPrefix = 10
    Addr <- SiblingAddr
    Prefix <- SiblingPrefix
    Beyond = 0
    SizeModulus = 1
    OwnAddr <- Own
    NoActor = NoActor
INVARIANT ActorsExist
