SPECIFICATION FairSpec

CONSTANTS
    updateA = updateA
    updateB = updateB
    cordon = cordon
    get = get
    kubectl = kubectl
    UpdateCalls = {updateA, updateB}
    CordonCalls = {cordon}
    GetCalls = {get}
    Others = {kubectl}
    Steps = 4

INVARIANTS
    TypeOK
    CopyInv

PROPERTIES
    AtomicSpec
    CallsEnd
