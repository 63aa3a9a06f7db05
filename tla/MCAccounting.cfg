SPECIFICATION Spec
CONSTANTS
    MaxSamples = 2
    MaxFaults = 2
    Retention = 1
    SendBuffer = 2
    MaxRounds = 2
    MaxCrashes = 1
    MaxDbFaults = 0
    DayOf <- LastSampleNextDay
INVARIANTS
    TypeOK
    NoSilentLoss
    DeliveredInOrder
    OncePerPanelProcess
    WatermarksOrdered
    CrashLosesAtMostOne
PROPERTIES
    WatermarksRise
