CONSTANTS
    ClientConfigs <- MoreConfigs
    ServerConfigs <- SomeConfigs
    UserRequests <- SomeRequests
    ForeignRequests <- SomeForeignRequests
    ForeignResponses <- SomeForeignResponses
    Words <- AllWords
    Digits <- DigitValues
    MaxConnections = 2
SPECIFICATION FairSpec
INVARIANTS TypeOK SameConnection EstablishedByAnswer EndsMirror HeaderUnderstood JudgedRight
PROPERTIES RefusedForGood HandshakeDecides
CHECK_DEADLOCK FALSE
