SPECIFICATION Spec
CONSTANTS
    A = A
    B = B
    Command <- MCCommand
    Std <- MCStd
    Invalid = Invalid
    None = None
    Buffer = 2
    Cases <- MCCases
CHECK_DEADLOCK FALSE
INVARIANTS
    ArgsArrive
    InheritsExactly
    HostClean
    AppliesInFull
PROPERTY
    FinishEnds
