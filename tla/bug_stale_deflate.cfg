CONSTANTS
    ClientConfigs <- MoreConfigs
    ServerConfigs <- SomeConfigs
    UserRequests <- SomeRequests
    ForeignRequests <- NoMessages
    ForeignResponses <- NoMessages
    Words <- AllWords
    Digits <- DigitValues
    MaxConnections = 2
SPECIFICATION Spec
INVARIANTS DeflateOnlyIfAgreed
CHECK_DEADLOCK FALSE
