SPECIFICATION Spec
CONSTANTS
    MaxSamples = 1
    MaxFaults = 0
    Retention = 1
    SendBuffer = 2
    MaxRounds = 2
    MaxCrashes = 0
    MaxDbFaults = 0
    DayOf <- LastSampleNextDay
INVARIANTS
    UnflushedNotClaimed
