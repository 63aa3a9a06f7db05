SPECIFICATION Spec
CONSTANTS
    a1 = a1
    a2 = a2
    Addresses <- TwoAddresses
    NoVerdict = NoVerdict
    Window = 1
    Ban = 3
    MaxFails = 2
    Handling = 1
    MaxClock = 9
INVARIANTS
    SweptClean
PROPERTIES
    ImplementsThrottle
CHECK_DEADLOCK FALSE
