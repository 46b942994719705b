SPECIFICATION Spec
CONSTANTS
    Conns = {c1, c2}
    NoConn = noconn
    MaxSlots = 2
    MaxStreams = 1
    MaxActive = 2
    MaxBytes = 3
    MaxOutput = 1
    Bodies = {0, 1, 2}
PROPERTY DrainsFirst
CHECK_DEADLOCK FALSE
