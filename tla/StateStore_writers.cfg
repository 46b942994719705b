SPECIFICATION Spec
CONSTANTS
    Rows = {r1}
    r1 = r1
    Probers = {p1}
    p1 = p1
    Clients = {c1, c2}
    c1 = c1
    c2 = c2
    Repairer = repairer
    Nobody = nobody
    BackupKeep = 1
    SlotExpiry = 2
    MaxNow = 2
    MaxRevision = 3
    MaxIncidents = 1
INVARIANT NewestEvidenceStands
 
SYMMETRY Interchangeable
CHECK_DEADLOCK FALSE
PROPERTY FeedbackStands
