SPECIFICATION Spec
CONSTANTS
    Sessions <- SessionChains
    Method <- Methods
    Authenticate = "auth"
    Untimed = {"wait"}
    MaxRequests = 2
INVARIANTS
    FirstOwnerHandles
PROPERTIES
    OneAnswerEach
CHECK_DEADLOCK FALSE
