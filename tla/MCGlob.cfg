SPECIFICATION Spec
CONSTANTS
    None = None
    Root <- MCRoot
    Cwd <- MCCwd
    Dirs <- MCDirs
    Short <- MCShort
    Order <- MCOrder
    Cases <- MCCases
    Nodes <- MCNodes
    Volatile <- MCVolatile
INVARIANTS
    Expands
    HandlesClosed
