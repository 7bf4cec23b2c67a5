CONSTANTS
    a1 = a1
    a2 = a2
    Accounts = {a1, a2}
    Configs <- TwoConfigs
    Amounts = {2000}
    Chains = {2006}
    CallLens = {4, 1025}
    RuleData = {"r"}
    InitialFree <- AccessFree
    MinPoolDeposit = 1000
    ExistentialDeposit = 500
    MaxBalance = 4500
    MaxPoolId = 3
    MaxTransactionId = 5
    MaxPools = 1
    MaxTransactions = 3
    MaxReceipts = 1
    MaxBlock = 1
SPECIFICATION Spec

    
PROPERTIES
    OnlyOwnerConfigures
    
    IndexerInSync
    WritesArePaid
