\* One thread repeats a read that failed while another reads elsewhere.
CONSTANTS
    KeyCounts <- MCKeyCounts
    RecordSizes <- MCRecordSizes
    Files <- MCFiles
    Readers = {r1, r2}
    Batchers = {}
    KeyScanners = {}
    RecordScanners = {}
    Batches = {}
    MaterializedMax = 1
SPECIFICATION Spec
PROPERTY
    ReplaysIdentically
