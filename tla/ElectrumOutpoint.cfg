SPECIFICATION SpecAll
CONSTANTS
    ProtocolMinimum = 10000
    ProtocolMaximum = 10700
    ClientVersion <- Named
    MaxRequests = 3
    o1 = o1
    fund = fund
    spend = spend
    other = other
    Outpoint = {o1}
    Tx = {fund, spend}
    Funder <- FunderIs
    Spends <- SpendsIs
    Limits = {1, 2}
    MaxBlocks = 2
    MaxEvents = 1
    MaxPops = 1
INVARIANTS
    HandlerOnce
    NegotiatedWithinBounds
    OutpointCurrentAtRest
    HeaderCurrentAtRest
    OutpointNotifiedWhileSubscribed
PROPERTIES
    VersionFixed
    HandshakeEnds
CHECK_DEADLOCK FALSE
