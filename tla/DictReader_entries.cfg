\* Two threads reading keys and records of every file.
CONSTANTS
    KeyCounts <- MCKeyCounts
    RecordSizes <- MCRecordSizes
    Files <- MCFiles
    Readers = {r1, r2}
    Batchers = {}
    KeyScanners = {}
    RecordScanners = {}
    Batches = {}
    MaterializedMax = 1
SYMMETRY Interchangeable
SPECIFICATION Spec
INVARIANTS
    KeyCacheSound
    EntryExact
    NoInternalError
    FailureHasCause
PROPERTY
    UsesCaches
