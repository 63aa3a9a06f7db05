SPECIFICATION Spec
CONSTANTS
    N = 2
    MaxBytes = 2
    MaxResets = 0
    MaxLosses = 0
    MaxEdits = 1
    MaxRestarts = 0
INVARIANT
    DeltasAreIncrements
