CONSTANTS
    Bytes <- BoundaryBytes
    MaxPiece = 3
    MaxText = 4
SPECIFICATION Spec
INVARIANTS AcceptsOnlyUtf8 HoldsTheRemainder RejectsOnlyOthers
