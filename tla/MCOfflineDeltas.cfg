SPECIFICATION Spec
CONSTANTS
    N = 2
    MaxBytes = 3
    MaxResets = 0
    MaxLosses = 2
    MaxEdits = 0
    MaxRestarts = 0
INVARIANT
    OfflineDeltasReal
