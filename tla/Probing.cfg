SPECIFICATION MCSpec
CONSTANTS
    Calls = {t1, t2, t3}
    Granted = 2
    Window = 2
    Declared = 3
    MaxTime = 4
    Weights = {1, 2}
    Accounts = {"a", "b"}
    Grants <- MCGrants
    Nobody = nobody
    MaxDays = 1
    MaxSpend = 5
    NoProber = noprober
    Pairs <- MCPairs
    PerCycle = 1
    Ttl = 1
    ShortTtl = 0
    MaxClock = 2
    Unknown = unknown
    t1 = t1
    t2 = t2
    t3 = t3
INVARIANT AllowanceHolds
INVARIANT DiscoveryConverges
INVARIANT AllowedIsTaken
INVARIANT PromisesHold
 
CHECK_DEADLOCK FALSE
