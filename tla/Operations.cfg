SPECIFICATION MCSpec
CONSTANTS
    p1 = p1
    p2 = p2
    i1 = i1
    i2 = i2
    Installs = {i1, i2}
    StatusTTL = 1
    MaxTicks = 3
    MaxFaults = 2
    Trust = "signature"
    Procs = {p1, p2}
    Nobody = nobody
    Preflight = "preflight"
    Corpus <- MCCorpus
    Statuses = {"pass", "fail", "safety_breach"}
    Keep = 1
    Pinned = {}
    MaxRuns = 2
    MaxSittings = 3
    Plan <- MCPlan
    Target <- MCTarget
    Control <- MCControl
    NoModel = "nomodel"
    Catalogs <- MCCatalogs
    MaxSessions = 2
    MaxRelease = 2
    MaxEdits = 2
    MaxJobs = 3
SYMMETRY Interchangeable
 
 
PROPERTY ConnectorIsSafe
 
CHECK_DEADLOCK FALSE
