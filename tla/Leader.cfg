SPECIFICATION FairSpec

CONSTANTS
    a = a
    b = b
    noOne = noOne
    Operators = {a, b}
    NoOne = noOne
    LeaseDuration = 18
    RenewDeadline = 12
    RetryPeriod = 6
    Latency = 1
    MaxFaults = 2

INVARIANTS
    TypeOK
    OneLeader

PROPERTIES
    LeaderReturns
