CONSTANTS
    u1 = u1
    u2 = u2
    Users = {u1, u2}
    TxIds = {0, 1, 2}
    GasCosts = {1, 2}
    Gets = {g1, g2}
    Posts = {p1, p2}
    Seeded <- SeededRows
    SeededHistory <- SeededTransactions
SPECIFICATION Spec
CHECK_DEADLOCK FALSE
INVARIANT CacheInvalidated
