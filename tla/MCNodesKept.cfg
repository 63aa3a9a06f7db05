SPECIFICATION Spec
CONSTANTS
    h1 = h1
    h2 = h2
    Handlers <- TwoHandlers
    MaxIds = 1
    MaxDrivers = 2
    MaxFaults = 0
    MaxRequests = 3
INVARIANTS
    NothingKept
CHECK_DEADLOCK FALSE
