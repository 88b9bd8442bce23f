\* Safety: every configuration of two Clients.
CONSTANTS
    Clients = {c1, c2}
    Shared = {db}
    NoPool = NoPool
    Limits <- MCLimits
    DefaultLimit = 2
    CallerLimit = 1
    PingRetries <- MCPingRetries
SPECIFICATION Spec
SYMMETRY MCSymmetry
CHECK_DEADLOCK FALSE
INVARIANTS
    ReadyClientUsable
    BorrowedPoolKept
    NothingLeaks
