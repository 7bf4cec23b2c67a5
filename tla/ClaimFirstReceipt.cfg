CONSTANTS
    a1 = a1
    a2 = a2
    Accounts = {a1, a2}
    Configs <- StrictConfigs
    Amounts = {2000}
    Chains = {2006}
    CallLens = {4}
    RuleData <- Whitelists
    InitialFree <- Endowment
    MinPoolDeposit = 1000
    ExistentialDeposit = 500
    MaxBalance = 20000
    MaxPoolId = 10
    MaxTransactionId = 10
    MaxPools = 2
    MaxTransactions = 3
    MaxReceipts = 2
    MaxBlock = 1
SPECIFICATION Spec
INVARIANT GenuineReceiptAccepted
