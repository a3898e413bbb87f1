SPECIFICATION Spec
CONSTANTS
    Channel = {c1, c2}
    Prefix <- Prefixes
    Match <- Matches
    MaxSubscriptions = 2
    Modulus = 2
    MaxInputs = 4
INVARIANTS
    DemandBalance
    NumberedInOrder
    SequenceComplete
SYMMETRY Symmetry
CHECK_DEADLOCK FALSE
