SPECIFICATION FairWindowSpec

CONSTANTS
    n1 = n1
    n2 = n2
    b = b
    Nodes = {n1, n2}
    BeforeAnnos = {b}
    AfterAnnos = {}
    maxRebootingNodes = 1
    HasWindow = TRUE
    Budget <- CrashOrRefuse

PROPERTIES
    RebootCompleted
