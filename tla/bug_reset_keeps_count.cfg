CONSTANTS
    Masks = TRUE
    StartOpcodes = {1}
    Payloads = {1}
    CompressedPayloads = {3}
    CompressOpcodes = {1}
    BareCompressed = FALSE
    Threshold = 3
    CompressBinary = FALSE
    ControlLengths = {126}
    Codes = {1000}
    MaxFrames = 2
    MaxWindow = 3
    ClientConfigs <- OnlyDefault
    ServerConfigs <- OnlyDefault
    OwnOffers = {}
    InterruptedReset = TRUE
    NoFrame = NoFrame
    MaxConnections = 2
    MaxMessages = 2
    MaxWire = 2
    MaxInflated = 1000
SPECIFICATION Spec
INVARIANTS PeerAccepts
CHECK_DEADLOCK FALSE
