SPECIFICATION Spec
CONSTANTS
    MaxPrefix = 10
    Addr <- PlanAddr
    Prefix <- PlanPrefix
    Beyond = 0
    SizeModulus = 16
INVARIANTS
    TypeOK
    AnswersExact
    NoneMissed
    NoneStray
PROPERTY ImplementsIndex
