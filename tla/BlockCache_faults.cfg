SPECIFICATION Spec
CONSTANTS
    NBlocks = 3
    CacheSize = 2
    Value = {v1, v2}
    Junk = junk
    JournalBlock = {}
    MaxRef = 1
    MaxWriteBack = 1
SYMMETRY ValueSymmetry
INVARIANTS TypeOK CleanBuffersMatchDisk RefBlocksExact DirtyListExact WriteThroughDurable
