SPECIFICATION Spec
CONSTANTS
    UserKey <- MCKey
    IndexKey <- MCKey
    Seeds <- MCSeeds
    Hash128 <- MCHash128
    RankBits = 2
    DegreeBits = 8
    DefaultKey = 0
    Data = {0, 1}
    DefaultData = 0
    Flavors = {"unordered", "dense", "sparse"}
    hash128 <- MCHash
    Reset <- MCReset
    PackAbove = 2
    NotFound = NotFound
INVARIANTS MapInv ResetPerfect
PROPERTY ImplementsMap
