SPECIFICATION FairSpec
CONSTANTS
    h1 = h1
    h2 = h2
    Handlers <- TwoHandlers
    MaxIds = 1
    MaxDrivers = 2
    MaxFaults = 1
    MaxRequests = 3
INVARIANTS
    OneDriver
    RowIsDriven
    StatusExact
    TornDown
PROPERTIES
    StoppedReturns
    EveryRowDriven
CHECK_DEADLOCK FALSE
