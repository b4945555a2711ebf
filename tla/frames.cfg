CONSTANTS
    Streams <- SomeStreams
    MaskRequired = FALSE
    MaxFrameSize = 65536
    PayloadCuts <- SomeCuts
SPECIFICATION Spec
INVARIANTS TypeOK FramesAsSent BoundariesKept Prompt RefusedForItself
PROPERTIES EachComesOut
CHECK_DEADLOCK FALSE
