SPECIFICATION Spec
CONSTANTS
    k1 = k1
    k2 = k2
    t1 = t1
    t2 = t2
    Key = {k1, k2}
    Tx = {t1}
    TxKey <- SecondKey
    NoTx = NoTx
    NoKey = NoKey
    StartDuplex = FALSE
    MaxSubs = 2
    MaxHistory = 1
    MaxHeight = 2
    MaxEvents = 1
    MaxPops = 1
    MaxRequests = 2
INVARIANTS
    ComputedOnceUpgraded
CHECK_DEADLOCK FALSE
