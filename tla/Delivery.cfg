\* Two submissions from two Redis servers while one oracle comes or goes; two clients of
\* the hub; a regular and a deviation reporter, together two goroutines that submit, with
\* one failure and until two transactions are mined; a pool of three nonces.
SPECIFICATION DeliverySpec
CONSTANTS
    p1 = p1
    p2 = p2
    everyMinute = everyMinute
    o1 = o1
    o2 = o2
    o3 = o3
    Garbage = Garbage
    Source = {base, sub}
    Oracle = {o1, o2, o3}
    FirstOracles <- TwoOracles
    Proofs <- SomeProofs
    StreamSize = 1
    MaxTime = 2
    MaxChanges = 1
    MaxReadFailures = 1
    Client = {c1, c2}
    Symbol = {s1}
    poolSize = 3
    minimumNoncePoolSize = 2
    ChainNonce = {0, 2, 5}
    deviation = deviation
INVARIANTS
    NoncesConsecutive
    CollectorStreams

    
    
CHECK_DEADLOCK FALSE
