SPECIFICATION Spec
CONSTANTS
    Handle = {h1}
    BlockSize = 2
    Limit = 4
    MaxTruncate = 2
    MaxWriteBack = 1
    MaxFailures = 0
INVARIANTS WriteBackBalanced
CHECK_DEADLOCK FALSE
