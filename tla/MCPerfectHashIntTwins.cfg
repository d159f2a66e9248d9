SPECIFICATION Spec
CONSTANTS
    Key <- MCKey
    KeySeqs <- MCIntegers
    CalcHash <- MCHash
    HashModulus = 131072
    Mult1 = 257
    Mult2s <- MCMult2s
    SeedLimit = 10
    Widths <- CodeWidths
    SmallKeys = {0, 1, 5, 6, 9}
    Words <- MCWords
    MaxInts = 3
    MaxWords = 2
    Point = {0, 1, 2}
    MaxEdges = 3
INVARIANT AnySetGetsTable
