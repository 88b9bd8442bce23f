\* Two goroutines, the default of one retry, a connection for each.
CONSTANTS
    p1 = p1
    p2 = p2
    r1 = r1
    r2 = r2
    Procs <- MCProcs
    Rows <- MCRows
    Plan <- MCPlan
    MaxOpen = 2
    RetryArgs <- MCRetryArgs
    DefaultMaxRetries = 1
    RetryLimit = 1
SPECIFICATION FairSpec
INVARIANTS
    EffectAtMostOnce
    ResultTellsEffect
    DeadBeforeRetry
    LeftoversExplained
    RetryAccounting
PROPERTIES
    ImplementsAtomicTx
    CallsReturn
