\* A goroutine closes the Client of two others that compete for one
\* connection, with a retry; one of them locks a row.
CONSTANTS
    p1 = p1
    p2 = p2
    r1 = r1
    k1 = k1
    Procs <- MCProcs
    Rows <- MCRows
    Plan <- MCPlan
    MaxOpen = 1
    RetryArgs <- MCRetryArgs
    DefaultMaxRetries = 0
    RetryLimit = 1
    Closers <- MCClosers
SPECIFICATION CloseFairSpec
PROPERTIES
    ClosedClientIsFinal
    ReturnsAfterClose
