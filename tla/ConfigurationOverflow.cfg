\* Configuration.cfg, for shifts that overflow.
CONSTANTS
    Vars = {"a", "b"}
    Clients = {"k"}
    PoolFields = {"MaxOpenConns"}
    Values <- MCValues
    PoolDefault = 50
    CallerValue = 20
    RetryArgs <- MCRetryArgs
    MaxConfigs = 3
    Width = 6
    BaseWaits <- MCBaseWaits
    MaxWaits <- MCMaxWaits
    Retries <- MCRetries
    Slots = {"a", "b"}
    Hosts = {"h2"}
    Ports = {"p2"}
    Keys = {"k1", "k2"}
    Addresses <- MCAddresses
    TLSNames = {"", "true", "preferred"}
    Charsets = {"", "c1", "c1,c2"}
    Dsns <- MCDsns
    MaxOptions = 3

SPECIFICATION MCSpec
CHECK_DEADLOCK FALSE
INVARIANTS
    OverflowGivesLimit
