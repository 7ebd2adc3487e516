\* Two triggers, of two leaders or of one, by nodes that keep one round, are restarted
\* between them and find their last round stored or not.
SPECIFICATION Spec
CONSTANTS
    Node = {n1, n2}
    None = None
    PeerCounts = {0}
    LocalValues = {2}
    Signs = {TRUE}
    Stores = {TRUE, FALSE}
    Window = 1
    MaxTriggers = 2
    MaxChanges = 3
    MaxRestarts = 1
CONSTRAINTS FewInFlight FewEvents
SYMMETRY NodeSymmetry
INVARIANTS
    SignOncePerRound
    ProofsOfSubmission

    
CHECK_DEADLOCK FALSE
