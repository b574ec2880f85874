SPECIFICATION Spec

CONSTANTS
    n1 = n1
    n2 = n2
    a = a
    Nodes = {n1, n2}
    BeforeAnnos = {}
    AfterAnnos = {a}
    maxRebootingNodes = 1
    HasWindow = FALSE
    Budget <- Quiet

SYMMETRY NodeSymmetry

INVARIANTS
    LockReleasedAfterChecks
