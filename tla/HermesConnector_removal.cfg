SPECIFICATION ConnectorSpec
CONSTANTS
    MaxRelease = 2
    MaxEdits = 3
    MaxJobs = 3
INVARIANT ConfigWorkIsKept
CHECK_DEADLOCK FALSE
