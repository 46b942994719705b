SPECIFICATION MCSpec
CONSTANTS
    q1 = q1
    q2 = q2
    MaxFrames = 3
    PerChunk = 2
    MaxChars = 1
    NoHalf = nohalf
    Rejections <- MCRejections
    MaxErrors = 2
    Ids = {"i", "j"}
    Signatures = {"s", "t"}
    ModelIds = {"m"}
    Capacity = 1
    Ttl = 0
    MaxParts = 1
    MaxTurns = 3
    MaxNow = 1
    NoLine = noline
    Requests = {q1, q2}
    Cap = 2
    Batch = 2
    MaxRows = 2
    MaxAge = 0
    MaxReplay = 2
    Limit = 1
    MaxTime = 1
    MaxFiles = 2
SYMMETRY Threads
INVARIANT EndsAreTrue
INVARIANT RelayIsFair
 
 
 
CHECK_DEADLOCK FALSE
