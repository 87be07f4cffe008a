SPECIFICATION Spec
CONSTANTS
    SectionLens <- MCSectionLens
    ChunkBytes = 2
    PageSlots = 3
    Policies = {TRUE, FALSE}
    Damages <- MCDamages
INVARIANTS
    ReadExact
PROPERTY
    RejectionHasCause
