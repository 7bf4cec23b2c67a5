CONSTANTS
    MaxBalance = 5000
    Bits = 8
    Targets = {0, 1000, 1999, 2000, 2001, 2006, 2007, 2012, 2030, 2034, 2100, 2101, 9999}
    Lens = {0, 1, 4, 1023, 1024, 1025}
    Consumed = {0, 800, 1010, 5000}
    RetryCounts = {0, 1, 2, 3, 5, 6, 7, 8, 255}
    Blocks = {0, 2, 3, 7, 8, 12, 13, 22, 23, 42}
    SentAt = 3
SPECIFICATION Spec
INVARIANTS
    QuotedChainIsReachable
    SendVerdict
    FailedSendIsFinal
    
    ReadyOnTime
    SettledOnce
    
