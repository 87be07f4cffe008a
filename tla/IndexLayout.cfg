SPECIFICATION LayoutSpec
CONSTANTS
    RowCounts = {0, 1, 7, 8, 16, 17}
    MaxOrdinal = 16
    TextLens = {0, 1, 64, 65}
    Options <- MCOptions
    FieldDeltas <- MCFieldDeltas
    MaxDamage = 2
INVARIANTS
    PlanExact
    RoundTrip
    AcceptedTiles
CHECK_DEADLOCK FALSE
