SPECIFICATION FairSpec
CONSTANTS
    Appliers = {a1, a2}
    a1 = a1
    a2 = a2
    Recoverer = recover
    Nobody = nobody
    Checkers <- LoopOnly
    TornKinds <- Importable
    KillPoints <- NotWhileSweeping
    MaxKills = 2
    MaxFaults = 1
INVARIANT SwapIsBacked
INVARIANT InstallIsTrue
PROPERTY HelpersServeWhole
PROPERTY UpdatesSettle
CHECK_DEADLOCK FALSE
