SPECIFICATION Spec
CONSTANTS
    c1 = c1
    c2 = c2
    Callers <- TwoCallers
    MaxSessions = 2
    MaxToken = 3
PROPERTIES
    EditIsCosmetic
