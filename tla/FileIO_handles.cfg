SPECIFICATION Spec
CONSTANTS
    Handle = {h1, h2}
    BlockSize = 2
    Limit = 6
    MaxTruncate = 2
    MaxWriteBack = 1
    MaxFailures = 1
SYMMETRY HandleSymmetry
INVARIANTS TypeOK WrittenIsMapped BlocksFollowSize NoForeignBytes PositionInside
CHECK_DEADLOCK FALSE
