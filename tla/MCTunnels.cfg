SPECIFICATION Spec
CONSTANTS
    N = 2
    MaxBytes = 3
    MaxResets = 2
    MaxLosses = 1
    MaxEdits = 2
    MaxRestarts = 1
INVARIANTS
    NoPhantomTraffic
    NothingMissed
