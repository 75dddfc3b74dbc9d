SPECIFICATION Spec
CONSTANTS
    Dir <- MCDir
    None = None
    PathOf <- MCPathOf
    Parent <- MCParent
    Entries <- MCEntries
    Home = "a"
    Mortal <- MCMortal
    Names <- MCNames
    Dotted <- MCDotted
    Cases <- MCCases
INVARIANTS
    PwdTracks
    Sourced
    Abbreviated
PROPERTIES
    CdGoesThere
    CdBack
