CONSTANTS
    Frames <- TextFrames
    Configs <- TextConfigs
    MaskRequired = TRUE
    Cuts = {"header"}
    NoFrame = NoFrame
    MaxBuffer = 2
    MaxFragments = 3
    MaxInflated = 8
    MaxConnections = 1
SPECIFICATION FairSpec
INVARIANTS TextSound TextComplete
PROPERTIES LoopEnds
