SPECIFICATION SpecAny
CONSTANTS
    ChunkSize = 3
    HashSize = 2
    MaxLen = 9
    MaxHops = 3
    DataLens <- LensOfData
    Versions = {0, 1}
    Limit = 2
    Block = 3
    MaxMessage = 9
    Counters = 4
    StartCounts = {0, 3}
    Primes = {11, 23}
    Bs = {3, 4, 5}
    MaxFactor = 23
INVARIANT WholeBlocksFit
CHECK_DEADLOCK FALSE
