\* A confirmation without a proposal.
SPECIFICATION Spec
CONSTANTS
    Name = {btc, eth}
    Proxy = {p1, p2}
    Feed = {f1, f2}
    NoAddress = NoAddress
    MaxBulk = 1
INVARIANT ConfirmedNotZero
