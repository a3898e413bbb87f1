SPECIFICATION WaitSpec
CONSTANTS
    b1 = b1
    b2 = b2
    b3 = b3
    Block <- Blocks
    NoBlock = NoBlock
    MaxEvents = 1
    MaxChanges = 2
    MaxWaits = 2
INVARIANTS
    ReleasedOnStop
