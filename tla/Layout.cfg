SPECIFICATION KeyRowsSpec
CONSTANTS
    AttributeLimit = 4
    AttributeBytes = 48
    HeaderBytes = 360
    Written <- MCWritten
    HeaderTexts <- MCHeaderTexts
    FieldReads <- MCFieldReads
    FileDeltas <- MCFileDeltas
    MaxDamage = 2
    Options <- MCOptions
    WordMax = 1048575
    HalfMax = 4095
    Lzo = TRUE
    HeaderLimit = 64
    KeyIndexLimit = 300
    RecordIndexLimit = 64
    CompressedLimit = 280
    DecompressedLimit = 290
    MetadataLimit = 300
    EntriesLimit = 3
    KeyDescriptorBytes = 88
    RecordDescriptorBytes = 32
    CodecSlack = 3
    RowSamples <- MCRowSamples
    BlockContents <- MCBlockContents
INVARIANTS
    OpenTiles
    ParsedIsKept
    AllocationsCovered
    WrittenFilesOpen
    AliasOrderIrrelevant
    RowsExact
