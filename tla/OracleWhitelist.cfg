\* Five addresses that come, expire, hand over and go.
SPECIFICATION OraclesSpec
CONSTANTS
    Address = {zero, a1, a2, a3, a4}
    Zero = zero
    Periods = {1, 2}
    MaxTime = 4
    Garbage = Garbage
SYMMETRY AddressSymmetry
INVARIANTS
    ActiveOraclesIndexed
    AcceptedByEnough
    OrderedProofsAccepted
PROPERTIES
    ExpiredStayExpired
CHECK_DEADLOCK FALSE
