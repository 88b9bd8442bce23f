\* Log lines, the caller they name, and health checks, each on its own.
CONSTANTS
    Levels     <- MCLevels
    Thresholds <- MCThresholds
    SlowTime   = 2
    Errors     <- MCErrors
    Durations  = {1, 2, 3}
    MaxOptions = 3
    MaxCopies  = 1
    MaxLines   = 1
    Frames    <- MCFrames
    maxDepth   = 3
    MaxStack   = 4
    Checkers       = {c1, c2}
    Others         = {o}
    MaxOpenConns   = 1
    DefaultTimeout = 1
    Timeouts      <- MCTimeouts
    Probes        <- MCProbes

SPECIFICATION MCSpec
CHECK_DEADLOCK FALSE
INVARIANTS
    ValuesHidden
    RaisingKeepsLines
    InnermostCaller
    ReportOnTime
    UpWasSeen
PROPERTIES
    CheckReturns
