SPECIFICATION Spec
CONSTANTS
    Genesis = "g"
    Block <- MCBlock
    Parent <- MCParent
    Txs <- MCTxs
    Tx <- MCTx
    Prevouts <- MCPrevouts
    Pays <- MCPays
    AddressEnabled = TRUE
    FilterEnabled = TRUE
    Limited = TRUE
    Milestone = "a1"
    Checkpoint = "g"
    Stamp <- MCStamp
    Retarget = 2
    Peer <- MCPeer
    Group <- MCGroup
    Network <- MCNetwork
    Chunk = 2
    MaximumHeaders = 2
    MaximumHistory = 2
    MaxSize = 9
    TxPage = 1
    BlockPage = 3
    AddressPage = 1
    EsploraHistory = 2
    BtcdHistory = 2
    Start <- MCStart
    Request <- MCRequest
    MaxMoves = 2
    MaxNotified = 4
CHECK_DEADLOCK FALSE
INVARIANTS
    OneMoment
    FaultOnlyIfMoved
    Agreement
    SubmissionReported
    CountedOnce
    NativeCurrent
