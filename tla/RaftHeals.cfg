SPECIFICATION FairSpec
CONSTANTS
    Node = {1, 2}
    PeerCounts = {1}
    MaxMissedHeartbeats = 0
    MaxElections <- OneEach
    MaxRestarts = 0
PROPERTY SplitBrainHeals
CHECK_DEADLOCK FALSE
