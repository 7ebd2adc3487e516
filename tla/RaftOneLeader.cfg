SPECIFICATION Spec
CONSTANTS
    Node = {1, 2, 3}
    PeerCounts = {2}
    MaxMissedHeartbeats = 0
    MaxElections <- FirstTwo
    MaxRestarts = 0
INVARIANT SameTermOneLeader
CHECK_DEADLOCK FALSE
