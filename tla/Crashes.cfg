SPECIFICATION HSpec

CONSTANTS
    n1 = n1
    n2 = n2
    b = b
    a = a
    Nodes = {n1, n2}
    BeforeAnnos = {b}
    AfterAnnos = {a}
    maxRebootingNodes = 1
    HasWindow = FALSE
    Budget <- CrashAndCheck

SYMMETRY NodeSymmetry

INVARIANTS
    BeforeRebootBound
    NoRebootLoop
    GrantAfterChecks
    UncordonAfterChecks
    CrashesStayLocal
