SPECIFICATION FairSpec
CONSTANTS
    MaxSamples = 2
    MaxFaults = 0
    Retention = 2
    SendBuffer = 1
    MaxRounds = 2
    MaxCrashes = 0
    MaxDbFaults = 1
    DayOf <- LastSampleNextDay
PROPERTIES
    ReplayEnds
    LogReachesTotals
