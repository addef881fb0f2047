SPECIFICATION IndexedFairSpec
CONSTANTS
    n0 = n0
    n1 = n1
    group = group
    op0 = op0
    op1 = op1
    scope0 = scope0
    scope1 = scope1
    out1 = out1
    limit1 = limit1
    limit2 = limit2
    inner = inner
    branch1 = branch1
    branch2 = branch2
    NoAddr = NoAddr
    Node = {n0, n1}
    GetOutV <- Graph
    OwnPrefix = group
    Prefix = {group, scope0, scope1}
    Addr <- PlanAddr
    OpCode <- PlanOpCode
    Downstream <- PlanDownstream
    LimitCount <- PlanLimit
    Under <- PlanUnder
    PrefixLen <- PlanPrefixLen
    AddrBytes <- PlanAddrBytes
    PrefixBytes <- PlanPrefixBytes
    HostMessage <- PlanHost
    ClockAnswers <- AnyClock
    NumUpstreams = 1
    MaxPayload = 2
    ExecInterval = 2
    MaxMail = 3
INVARIANTS
    TypeOK
    IndexSound
    ScheduledOnce
    NoLostWakeUp
    CountExact
    QuietWhenIdle
    DoneOperatorsStop
    IndexAgrees
PROPERTIES
    DisabledForever
    OnlyLiveActorsCancel
    ImplementsPool
    RunReturns
    RunsDescend
    KeepsContract
