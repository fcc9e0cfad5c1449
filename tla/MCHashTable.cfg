SPECIFICATION FairSpec
CONSTANTS
    k1 = k1
    k2 = k2
    k3 = k3
    k4 = k4
    k5 = k5
    Key = {k1, k2, k3, k4, k5}
    Value = {"a", "b"}
    Deadline = {7}
    Hash <- MCHash
    kInitialCapacity = 1
    kMaxLoadFactor = 2
    kRehashBatchSize = 1
INVARIANTS
    ReadsAgree
    LoadBounded
PROPERTIES
    MapSpec
    CallsAgree
    RehashCompletes
