\* One round with all its messages in flight, leaders that come and go.
SPECIFICATION Spec
CONSTANTS
    Node = {n1, n2}
    None = None
    PeerCounts = {0, 1}
    LocalValues <- SomeMissing
    Signs = {TRUE, FALSE}
    Stores = {}
    Window = 2
    MaxTriggers = 1
    MaxChanges = 2
    MaxRestarts = 1
SYMMETRY NodeSymmetry
INVARIANTS
    FixWithinReports
    OneLeaderOnePrice
CHECK_DEADLOCK FALSE
