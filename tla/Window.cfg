SPECIFICATION Spec

CONSTANTS
    DayLength = 3
    MaxNow = 45

INVARIANTS
    TypeOK
    PreviousIsLatest

PROPERTIES
    WindowExact

CHECK_DEADLOCK FALSE
