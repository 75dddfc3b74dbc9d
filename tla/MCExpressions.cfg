\* Expressions that run as they read, and every limit on descriptors.
SPECIFICATION Spec
CONSTANTS
    Cases <- Sound
    PipeCap = 1
\* A hang is reported by RunEnds, which says where the system may stop.
CHECK_DEADLOCK FALSE
INVARIANTS
    OwnInv
    Wiring
    OutputComplete
    NothingLeft
PROPERTIES
    RunEnds
