\* && || and , and exceptions from every place.
SPECIFICATION Spec
CONSTANTS
    Cases <- Unsound
    PipeCap = 1
INVARIANTS
    Sequenced
    RunDenotes
    ThrowHasCause
    NoCow
    NoCallAfterDtor
