\* One config with HTTP feeds, two commands of the admin, one failure; two pairs of the
\* aggregator app, two refreshes; two requests of the delegator and one edit of its tables; three
\* keys of the signer, one fault; two messages of a provider; two aggregates, two starts of their
\* writer; three logs, two workers; two runs of the proof of reserve; three requests of the admin
\* API, two of them at once; two blocks of a listener, two calls that fail or one stop.
SPECIFICATION NodeSpec
CONSTANTS
    Config = {c1}
    HttpConfig = {c1}
    BusSize = 1
    MaxCommands = 2
    MaxHandlers = 2
    MaxFailures = 1
    Worker = {w1, w2}
    p1 = p1
    p2 = p2
    r1 = r1
    r2 = r2
    address = address
    fn1 = fn1
    fn2 = fn2
INVARIANTS
    
    
    
    
    KeysAreKept
    
    
    IssueOnce
    ReportsAreClose

    
    
CHECK_DEADLOCK FALSE
