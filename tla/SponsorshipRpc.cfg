CONSTANTS
    a1 = a1
    a2 = a2
    Accounts = {a1, a2}
    Configs <- OneConfig
    Amounts = {2000}
    Chains = {2006}
    CallLens = {4}
    RuleData = {}
    InitialFree <- RpcFree
    MinPoolDeposit = 1000
    ExistentialDeposit = 500
    MaxBalance = 5000
    MaxPoolId = 3
    MaxTransactionId = 3
    MaxPools = 2
    MaxTransactions = 2
    MaxReceipts = 0
    MaxBlock = 3
    Limits <- LimitArgs
    MaxAnswers = 2
SPECIFICATION RpcSpec
VIEW Stored
INVARIANTS
    HistoryExplainsSpending
    ListedPoolsAreFound
    QuoteIsCharged
