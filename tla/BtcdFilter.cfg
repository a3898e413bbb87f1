SPECIFICATION Spec
CONSTANTS
    a = a
    pay = pay
    spend = spend
    Address = {a}
    Tx = {pay, spend}
    Pays <- Paid
    Spends <- Spent
    MaxFilters = 2
    HistoryLimits = {1, 2}
    MaxHeight = 2
    MaxBlocks = 2
    MaxEvents = 1
    MaxRequests = 2
INVARIANTS
    WithinMaximum
    LegacyWatched
    MatchesReported
PROPERTIES
    Answered
CHECK_DEADLOCK FALSE
