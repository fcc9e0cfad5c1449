SPECIFICATION Spec
CONSTANTS
    Byte <- MCByte
    Script <- MCScript
    kInitialCapacity = 3
    kReadBufSize = 4
CHECK_DEADLOCK FALSE
INVARIANTS
    TypeOK
    CommandsExact
    RepliesInOrder
