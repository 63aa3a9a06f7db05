SPECIFICATION SessionsSpec
CONSTANTS
    b1 = b1
    b2 = b2
    Browsers <- TwoBrowsers
    NoCookie = NoCookie
    MaxVersion = 4
INVARIANTS
    ValidKnowsPassword
PROPERTIES
    ChangerStaysIn
