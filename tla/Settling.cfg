SPECIFICATION MCSpec
CONSTANTS
    c1 = c1
    c2 = c2
    c3 = c3
    r1 = r1
    Conns = {c1, c2, c3}
    NoConn = noconn
    MaxSlots = 2
    MaxStreams = 1
    MaxActive = 2
    MaxBytes = 3
    MaxOutput = 2
    Bodies = {0, 1, 2}
INVARIANT Accounted
PROPERTY SignalEnds
 
PROPERTY ShrinkIsPruned
CHECK_DEADLOCK FALSE
