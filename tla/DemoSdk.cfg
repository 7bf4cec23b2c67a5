CONSTANTS
    MaxBalance = 5000
    Tasks = {t1, t2}
    TargetChains = {"", "acala", "astar"}
    MockSavings = {5}
    RpcSavings = {0}
    MaxHistory = 2
    MaxCalls = 3
SPECIFICATION Spec
INVARIANTS
    NoHalfOpenApi
    HookSettles
    HistoryExplainsSavings
PROPERTIES
    
    InBlockIsReported
