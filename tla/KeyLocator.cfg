\* Two callers and any other reader.
CONSTANTS
    KeyCounts <- MCKeyCounts
    RecordSizes <- MCRecordSizes
    Files <- MCFiles
    NormKey <- MCNormKey
    NormLen <- MCNormLen
    Callers = {1, 2}
    LimitChoices <- MCLimitChoices
    MaxCalls = 3
SPECIFICATION FairSpec
INVARIANTS
    SingleFlight
PROPERTIES
    ImplementsOnce
    EveryLookupReturns
