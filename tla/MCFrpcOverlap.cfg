SPECIFICATION Spec
CONSTANTS
    c1 = c1
    c2 = c2
    Callers <- TwoCallers
    MaxEdits = 1
    MaxProcs = 3
INVARIANTS
    OneSupervisor
    FileIsCurrent
    ReloadApplied
    RemovedIsGone
    RecordIsLive
SYMMETRY Symmetry
