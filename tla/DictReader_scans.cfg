\* A key scan, a record scan and batches of keys, on one handle.
CONSTANTS
    KeyCounts <- MCKeyCounts
    RecordSizes <- MCRecordSizes
    Files <- MCFiles
    Readers = {}
    Batchers = {b}
    KeyScanners = {k}
    RecordScanners = {s}
    Batches <- MCBatches
    MaterializedMax = 1
SPECIFICATION Spec
INVARIANTS
    BatchExact
    KeyScanExact
    RecordScanExact
