SPECIFICATION MCSpec
CONSTANTS
    Handlers = {h1, h2}
    Commands = {}
    Service = service
    Ids = {i1, i2}
    Gone = {i2}
    Breaks = {b1}
    Does <- Apart
    FirstFiles <- AnyFile
    EditorWaits = TRUE
    MaxEdits = 2
    MaxUpdates = 3
    Threads = {"s", "c"}
    Cli = "c"
    Hosts = {"darwin", "linux", "windows", "bare"}
    Exports = {{}}
    MaxOps = 2
    MaxWrites = 2
    MaxWindow = 1
    MaxMishaps = 1
    s3 = s3
    s1 = s1
    s2 = s2
    Sources = {s1, s2}
    Accounts = {a1, a2}
    Refreshers = {r1}
    HasLicence = FALSE
    KeysMove = FALSE
    Losses = FALSE
    MaxBuilds = 4
    MaxCrashes = 0
    MaxChanges = 2
    Procs = {daemon, command}
    Daemon = daemon
    Validity = 4
    CheckEvery = 1
    RetryEvery = 1
    MaxOutage = 1
    MaxTime = 5
    MaxActs = 2
    NoKey = nokey
    NoRows = norows
    NoIds = noids
    Licence = licence
    NoOne = noone
    r1 = r1
    a1 = a1
    a2 = a2
    h1 = h1
    h2 = h2
    i1 = i1
    i2 = i2
    b1 = b1
    service = service
    Nobody = nobody
    NoFile = nofile
    daemon = daemon
    command = command
SYMMETRY Interchangeable
INVARIANT RowsAreOfAccount
PROPERTY RowsOutlive
PROPERTY LicensedRowsOutlive
PROPERTY SavesStay
INVARIANT RemovalVerdictIsTrue
INVARIANT ServedKeyIsFresh
INVARIANT LicenceHolds
CHECK_DEADLOCK FALSE
