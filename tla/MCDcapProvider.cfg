SPECIFICATION FairSpec
CONSTANTS
    Threads = {t1, t2}
    MaxDepth = 1
    MaxQuotes = 1
    Host = host
    Other = other
    Platforms = {host, other}
    PckCertIds <- MCPckCertIds
    OddQuotes <- MCOddQuotes
    ChainLens = {2, 4}
    U32Max = 3
    None = None
INVARIANTS ConfigSound ReentryRefused
PROPERTIES EveryCallReturns
CHECK_DEADLOCK FALSE
