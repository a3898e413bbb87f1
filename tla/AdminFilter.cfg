SPECIFICATION FilterSpec
CONSTANTS
    b1 = b1
    b2 = b2
    Bit <- Bits
    MaxSubscribes = 4
    MaxMessages = 3
INVARIANTS
    HandlerPerSentinel
    FilterIsLast
    NotifiedOnceInOrder
CHECK_DEADLOCK FALSE
