CONSTANTS
    a1 = a1
    a2 = a2
    Accounts = {a1, a2}
    Configs <- OneConfig
    Amounts = {1000, 2000}
    Chains = {1000, 2000, 2006}
    CallLens = {0, 4}
    RuleData = {}
    InitialFree <- MCFree
    MinPoolDeposit = 1000
    ExistentialDeposit = 500
    MaxBalance = 4000
    MaxPoolId = 3
    MaxTransactionId = 3
    MaxPools = 2
    MaxTransactions = 2
    MaxReceipts = 0
    MaxBlock = 2
SPECIFICATION Spec
INVARIANTS
    TypeOK
    IdsAreFresh
    OwnerIndexExact
    PoolWithinReserve
    LoggedIffDispatched
    AuditOrder
    ReservesBackPools
    AuditTrail
PROPERTIES
    ImplementsLedger
