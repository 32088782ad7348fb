SPECIFICATION Spec
CONSTANTS
    BlockCount = 6
    BlocksPerGroup = 4
    InodesPerGroup = 2
    Meta <- MetaBlocks
    Reserved <- ReservedInodes
    LeftBehind = {0, 2}
    Owner <- FileInodes
    Byte = 3
    Window = 3
INVARIANTS
    TypeOK
    NothingShared
    CountsExact
    NoSpaceMeansFull
    NothingLeaks
