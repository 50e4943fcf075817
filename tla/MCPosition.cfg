CONSTANTS
    Starts <- MCStarts
    MaxPlies <- MCMaxPlies
SPECIFICATION Spec
INVARIANTS
    HashIsRight
    FENReadsBack
    UnmakeRestores
    SANReadsBack
    KeyDecidesMoves
    PerftIsRight
CHECK_DEADLOCK FALSE
