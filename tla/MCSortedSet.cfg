SPECIFICATION FairSpec
CONSTANTS
    Members = 3
    Member <- MCMember
    Addr <- MCAddr
    Score = {1, 2, 3}
    NaN = 0
    kMaxLevel = 3
INVARIANTS
    TypeOK
    Towers
    InSync
    ReadsAgree
PROPERTY
    CallsEnd
