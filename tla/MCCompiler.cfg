SPECIFICATION Spec
CONSTANTS
    P = P
    Q = Q
    R = R
    Proc <- MCProc
    None = None
    Word <- MCWord
    Dashed <- MCDashed
    At = {"@opts"}
    Cases <- MCCases
CHECK_DEADLOCK FALSE
INVARIANTS
    RunsItsOwn
    TempGone
