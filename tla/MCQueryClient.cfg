SPECIFICATION ClientSpec
CONSTANTS
    hop1 = hop1
    hop2 = hop2
    cut = cut
    n0 = n0
    n1 = n1
    n2 = n2
    group = group
    NoAddr = NoAddr
    Node = {n0, n1, n2}
    Prefix = {group}
    OwnPrefix = group
    Addr <- ChainAddr
    Pipeline <- Chain
    Queries <- StartNodes
    OpCode <- ChainOpCode
    Downstream <- ChainDownstream
    LimitCount <- ChainLimit
    GetOutV <- Graph
    Under <- ChainUnder
    PrefixLen <- ChainPrefixLen
    HostMessage <- ClientMessage
    ClockAnswers <- AnyClock
    NumUpstreams = 1
    MaxPayload = 2
    ExecInterval = 2
    MaxMail = 3
INVARIANTS
    EosIsLast
    AnswerInSight
    NothingLeftBehind
    AnswerOnReturn
PROPERTIES
    ImplementsTraversal
    ClientDescends
CHECK_DEADLOCK FALSE
