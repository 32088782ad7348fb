SPECIFICATION Spec
CONSTANTS
    NBlocks = 2
    CacheSize = 1
    Value = {v1, v2}
    Junk = junk
    JournalBlock = {2}
    MaxRef = 2
    MaxWriteBack = 2
SYMMETRY ValueSymmetry
PROPERTIES PinnedBuffersStay GrowsOnlyWhenPinned ImplementsStore
