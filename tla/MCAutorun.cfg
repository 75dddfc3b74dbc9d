\* Up to three handles at a time and four commands in all: a pipe of two
\* copies of holders needs as many.
SPECIFICATION Spec
CONSTANTS
    h1 = h1
    h2 = h2
    h3 = h3
    n1 = n1
    n2 = n2
    n3 = n3
    n4 = n4
    Handle <- MCHandle
    Node <- MCNode
    MaxCalls = 1
    None = None
SYMMETRY MCSymmetry
\* All commands may be created, and all handles dropped.
CHECK_DEADLOCK FALSE
INVARIANTS
    NotTwice
    NotNever
    WholeOnly
