SPECIFICATION FairSpec
CONSTANTS
    Key = {k1, k2}
    Container = {"LIST", "HASH", "SET", "ZSET"}
    SizeMod = 4
    Time = {0, 1}
    Ttl <- MCTtl
    MaxWork = 1
    MaxItems = 2
    ClockMayStepBack = TRUE
INVARIANTS
    TypeOK
    HeapMatchesTable
    NoEmptyContainer
    PttlTells
PROPERTIES
    LiveKeysStay
    MemoryTracks
    DueLeaves
