\* Answers for two feeds signed by two oracles; four rounds of a feed within four blocks;
\* two names, two proxies and two feeds with bulk calls of up to three entries.
SPECIFICATION ContractsSpec
CONSTANTS
    Address = {zero, a1, a2}
    Zero = zero
    a1 = a1
    a2 = a2
    h1 = h1
    h2 = h2
    f1 = f1
    f2 = f2
    Periods = {1}
    MaxTime = 2
    Hash = {h1, h2}
    Feed = {f1, f2}
    NoFeed = NoFeed
    Name = {btc, eth}
    Proxy = {p1, p2}
    Reverted = Reverted
    NameHash <- Names
    Stamps = {500, 1500}
    Percents = {60}
    Freshness = {1}
    Limits = {2}
    Batches <- SomeBatches
    MaxAccepted = 2
CONSTRAINT SecondFeedPlain
INVARIANTS
    AnswersAreApproved
    
PROPERTIES
    NamesAreFollowed
CHECK_DEADLOCK FALSE
