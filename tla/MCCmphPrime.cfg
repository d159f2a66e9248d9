SPECIFICATION FairSpec
CONSTANTS
    MCAlgos = {"chd_ph"}
    Jenkins <- MCJenkins
    Requests <- MCSingleBin
    Word = 8
    Log2 <- MCLog2
    Byte = 4
    Null = Null
    Wild = Wild
    ChmTries = 2
    BmzTries = 2
    BmzRestarts = 2
    Bmz8Tries = 2
    Bmz8Restarts = 2
    FchTries = 2
    FchRounds = 2
    FchH2Tries = 2
    BdzTries = 2
    BdzPhTries = 2
    SelectStep = 8
    MappingTries = 2
    ChdTries = 2
    NoKey = 8
    KeyLength <- MCKeyLength
    BrzTries = 2
    BrzFlushes = 4
    BrzB = 3
    BrzBLow = 1
    BrzBHigh = 6
    BrzMB = 20
PROPERTIES AlwaysReturns
