SPECIFICATION UpdateSpec
CONSTANTS
    u1 = u1
    u2 = u2
    Updates <- TwoUpdates
    Guarded = TRUE
    Pieces = 2
    MaxRelease = 2
    MaxExits = 1
INVARIANTS
    TargetWhole
    InstalledIsVerified
PROPERTIES
    FlagFreed
CHECK_DEADLOCK FALSE
