\* A primary that may raise or hang, a healthy fallback, two workers.
SPECIFICATION FairSpec
CONSTANTS
    c1 = c1
    c2 = c2
    k1 = k1
    Clients = {c1, c2}
    Key <- SameKey
    Providers = 2
    Healthy = {2}
    Workers = 2
    Attempts = 2
    Timeout = 2
    Interval = 2
    BaseBackoff = 1
    MaxBackoff = 2
    RetryAfters = {0, 3}
    Ttl = 2
INVARIANTS
    TypeOK
    SlotsSpaced
    PoolServesWaiters
    RefusedOnlyIfStarved
PROPERTIES
    EveryRequestEnds
