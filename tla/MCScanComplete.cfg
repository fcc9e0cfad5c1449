SPECIFICATION ScanSpec
CONSTANTS
    k1 = k1
    k2 = k2
    k3 = k3
    k4 = k4
    k5 = k5
    Key = {k1, k2, k3, k4, k5}
    Value = {"a"}
    Deadline = {}
    Count = {1, 2}
    Hash <- MCHash
    kInitialCapacity = 1
    kMaxLoadFactor = 1
    kRehashBatchSize = 2
INVARIANTS
    ScanComplete
