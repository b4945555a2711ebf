CONSTANTS
    Bytes <- FewBytes
    MaxPiece = 3
    MaxText = 4
SPECIFICATION Spec
INVARIANTS AcceptsInPieces
