SPECIFICATION Spec
CONSTANTS
    b1 = b1
    b2 = b2
    Browsers <- OneBrowser
    Buffer = 2
INVARIANT
    PongsHonored
