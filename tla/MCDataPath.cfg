\* Texts are longer than a buffer and than a pipe; a pipe holds more than a
\* buffer, two characters can be put back.
CONSTANTS
    BUFSIZ = 3
    PutBack = 2
    PIPESIZE = 4
    Cases <- AllCases
SPECIFICATION Spec
\* A wait for ever is reported by PathEnds.
CHECK_DEADLOCK FALSE
INVARIANTS
    Delivered
    SplitAtOnce
    PutBackKept
PROPERTIES
    PathEnds
