\* Two nodes, three elections: a node is elected, deposed and elected again while its
\* first leader loop still runs; one of the nodes may be restarted.
SPECIFICATION Spec
CONSTANTS
    Node = {1, 2}
    PeerCounts = {1}
    MaxMissedHeartbeats = 1
    MaxElections <- TwoAndOne
    MaxRestarts = 1
CONSTRAINTS FewInFlight OneRestarts
INVARIANTS
    VotesAreGranted
    LeaderIsDriven
    VoteOncePerTerm
PROPERTIES
    ImplementsLeadership
CHECK_DEADLOCK FALSE
