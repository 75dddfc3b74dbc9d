\* (cat < str) | cat
SPECIFICATION Spec
CONSTANTS
    Cases <- FedOnTheLeft
    PipeCap = 1
\* A hang is reported by RunEnds, which says where the system may stop.
CHECK_DEADLOCK FALSE
PROPERTIES
    RunEnds
