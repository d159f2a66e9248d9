SPECIFICATION Spec
CONSTANTS
    Key <- MCKey
    Empty = 0
    Undef = Undef
    Wild = Wild
    Dict <- EmptyKeyDict
    HashFamily <- Mixed
    Mixers = {1, 2, 3, 4, 5, 6, 7, 8}
    Sizes = {2}
    Widths = {2, 4, 8}
    Byte = 4
    MaxSeed = 60
    PadUnit = 2
PROPERTIES
    Termination
