SPECIFICATION FairSpec
CONSTANTS
    b1 = b1
    b2 = b2
    Browsers <- OneBrowser
    Buffer = 2
INVARIANTS
    TypeOK
    NeverSendsOnClosed
    BrowserCurrent
PROPERTIES
    BroadcastEnds
    BrowsersCatchUp
