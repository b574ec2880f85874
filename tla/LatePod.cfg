SPECIFICATION FairSpec

CONSTANTS
    plain = plain
    mirror = mirror
    system = system
    owned = owned
    ds = ds
    gone = gone
    Pods = {plain, mirror, system, owned}
    Mirror = {mirror}
    System = {system}
    DaemonSets = {ds}
    OwnerRefs <- MCOwnerRefs
    GracePeriods = {0, 600}

PROPERTIES
    NodeDrained

CHECK_DEADLOCK FALSE
