SPECIFICATION FairSpec
CONSTANTS
    MaxRows = 7
    RowChoices <- MCRowChoices
    MemoryChoices = {800, 740, 700, 560, 432}
    ArenaRecordBytes = 24
    RunRecordBytes = 44
    CursorBytes = 112
    MaxFanIn = 32
    ChunkBytes = 64
    RunReadBufferBytes = 65536
INVARIANTS
    OrderExact
    BuildMemoryBounded
    NoMismatch
    RefusedOnlyInReusedArena
PROPERTY
    BuildEnds
CHECK_DEADLOCK FALSE
