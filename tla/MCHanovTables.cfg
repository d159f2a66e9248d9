SPECIFICATION Spec
CONSTANTS
    Key <- MCKey
    Empty = 0
    Undef = Undef
    Wild = Wild
    Dict <- MCDict
    HashFamily <- MCHashes
    Mixers = {1, 2, 3, 4, 5}
    Sizes = {1, 2, 3, 4, 5, 6, 7, 8, 9}
    Widths = {2, 4, 8}
    Byte = 4
    MaxSeed = 60
    PadUnit = 4
INVARIANTS
    TypeOK
    PerfectLookup
    FreelistSuffices
    SmallestSeed
    CAgreesWhenFitting
    PackedAgrees
PROPERTIES
    NoOverwrite
    Returns
