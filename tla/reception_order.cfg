CONSTANTS
    Frames <- OrderFrames
    Configs <- OrderConfigs
    MaskRequired = TRUE
    Cuts = {"header", "payload"}
    NoFrame = NoFrame
    MaxBuffer = 2
    MaxFragments = 2
    MaxInflated = 8
    MaxConnections = 1
SPECIFICATION Spec
INVARIANTS TypeOK ModesAgree CountsAgree HalvesMeet WholeMessages CompressedOnlyIfNegotiated
PROPERTIES AssembledSpec NothingAfterClose ControlTransparent
