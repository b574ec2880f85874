SPECIFICATION Spec

CONSTANTS
    n1 = n1
    n2 = n2
    Nodes = {n1, n2}
    BeforeAnnos = {}
    AfterAnnos = {}
    maxRebootingNodes = 1
    HasWindow = FALSE
    Budget <- Crash

SYMMETRY NodeSymmetry

INVARIANTS
    OneRebootAtATime
