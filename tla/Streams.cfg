\* One HTTP feed and one websocket feed, four moments; two starts of a websocket fetcher with two
\* subscriptions, four failures; four swaps, three broken subscriptions; three logs, two failures;
\* three nodes, one fault.
SPECIFICATION StreamsSpec
CONSTANTS
    HttpFeed = {h}
    WsFeed = {w}
    BufferSize = 2
    DumpSize = 1
    MaxTime = 4
    MaxStores = 2
    MaxCopyFailures = 1
    Node = {n1, n2, n3}
INVARIANTS
    FeedDataKept
    ConnectionsAreUsed
PROPERTIES
    DataSettle
    Reconnects
    SwapsAreFollowed
    
    PeersConnect
CHECK_DEADLOCK FALSE
