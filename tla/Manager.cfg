SPECIFICATION FairSpec

CONSTANTS
    none = none
    n1 = n1
    n2 = n2
    n3 = n3
    Versions = {1, 2, 3}
    NoVersion = none
    Nodes = {n1, n2, n3}
    ContainerLinux = {n1, n2}
    MaxExits = 3
    MaxErrors = 1
    MaxAdmin = 1

INVARIANTS
    TypeOK
    RunsWithAgents

PROPERTIES
    ManageableKept
    AgentsManaged
    NodesLabelled
