CONSTANTS
    Frames <- LimitFrames
    Configs <- LimitConfigs
    MaskRequired = FALSE
    Cuts = {}
    NoFrame = NoFrame
    MaxBuffer = 1
    MaxFragments = 3
    MaxInflated = 8
    MaxConnections = 1
SPECIFICATION Spec
INVARIANTS NeverOversized PlainSizeErrorJustified SuggestedCode
