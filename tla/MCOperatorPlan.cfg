SPECIFICATION PlanSpec
CONSTANTS
    Plans <- MCPlans
    DataflowId <- MCDataflowId
    BranchId <- MCBranchId
    MaxAddrLen = 19
    WordModulus = 256
    Unset = Unset
    MaxMail = 1
INVARIANTS
    BuffersWritten
    OwnCode
    SameBranch
    LimitIsDecimal
