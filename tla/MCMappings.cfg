SPECIFICATION Spec
CONSTANTS
    e1 = e1
    e2 = e2
    n1 = n1
    Editors <- TwoEditors
    Nodes <- OneNode
    Ports = {1}
    LocalPorts = {1, 2}
    MaxId = 2
    MaxVersion = 3
INVARIANTS
    EnabledWasListening
    TargetsHaveMapping
PROPERTIES
    NoLostUpdate
SYMMETRY Symmetric
