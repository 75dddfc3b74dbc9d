\* Two threads start a command each and programs end: what the callers are
\* told, the refinement of Launch, and every command gets its exit code.
SPECIFICATION FiniteSpec
CONSTANTS
    a = a
    b = b
    c = c
    Host = Host
    None = None
    Cmd <- MCTwo
    ExitCodes <- MCExitCodes
    Signals <- MCSignals
    Serial = FALSE
    SigchldIgnored = FALSE
\* A hang is reported by ResultComes, which says where the system may stop.
CHECK_DEADLOCK FALSE
INVARIANTS
    TypeOK
    ThrowMeansNotRun
    ReturnMeansProcess
    ZeroMeansSuccess
    HostClean
PROPERTIES
    ImplementsLaunch
    ResultComes
