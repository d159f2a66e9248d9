SPECIFICATION Spec
CONSTANTS
    Key <- MCKey
    KeySeqs <- MCKeySeqs
    CalcHash <- MCHash
    HashModulus = 131072
    Mult1 = 257
    Mult2s <- MCMult2s
    SeedLimit = 4
    Widths <- MCWidths
    SmallKeys = {0, 1, 5, 6, 9}
    Words <- MCWords
    MaxInts = 3
    MaxWords = 2
    Point = {0, 1, 2}
    MaxEdges = 3
INVARIANTS
    TypeOK
    Perfect
    NeverOops
    UnusedRejected
    PeelExact
    FirstWorking
    CaseInsensitive
PROPERTIES
    Termination
