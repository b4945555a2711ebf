CONSTANTS
    Frames <- DeflatedSizes
    Configs <- SizeConfigs
    MaskRequired = TRUE
    Cuts = {}
    NoFrame = NoFrame
    MaxBuffer = 1
    MaxFragments = 2
    MaxInflated = 8
    MaxConnections = 1
SPECIFICATION Spec
INVARIANTS SizeErrorJustified
