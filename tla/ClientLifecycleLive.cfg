\* Liveness: one Client.
CONSTANTS
    Clients = {c1}
    Shared = {db}
    NoPool = NoPool
    Limits <- MCLimits
    DefaultLimit = 2
    CallerLimit = 1
    PingRetries <- MCPingRetries
SPECIFICATION FairSpec
CHECK_DEADLOCK FALSE
PROPERTIES
    StartupObeysContext
