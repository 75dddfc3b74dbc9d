\* One thread starts three commands one after the other; programs may run
\* for ever, and the host ignores SIGCHLD.
SPECIFICATION Spec
CONSTANTS
    a = a
    b = b
    c = c
    Host = Host
    None = None
    Cmd <- MCThree
    ExitCodes <- MCExitCodes
    Signals <- MCSignals
    Serial = TRUE
    SigchldIgnored = TRUE
INVARIANTS
    NoStranger
PROPERTIES
    StartEnds
