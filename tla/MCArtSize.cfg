SPECIFICATION Spec
CONSTANTS
    MaxPrefix = 10
    Addr <- SiblingAddr
    Prefix <- SiblingPrefix
    Beyond = 0
    SizeModulus = 16
INVARIANT SizeExact
