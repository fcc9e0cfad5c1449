SPECIFICATION FairSpec
CONSTANTS
    k1 = k1
    k2 = k2
    Key <- MCKey
    Elem <- MCElem
    Cmd <- MCCmd
    Policies = {"ALWAYS", "EVERYSEC"}
    MaxHist = 3
    MaxFile = 3
    MaxItems = 2
    Faults = {"child", "swap", "torn"}
INVARIANTS
    TypeOK
    CrashSafe
    FileIsCurrent
    NothingLost
PROPERTIES
    RewriteEnds
    EventuallyDurable
