SPECIFICATION UpdateSpec
CONSTANTS
    u1 = u1
    u2 = u2
    Updates <- TwoUpdates
    Guarded = FALSE
    Pieces = 2
    MaxRelease = 2
    MaxExits = 1
INVARIANT
    TargetWhole
CHECK_DEADLOCK FALSE
