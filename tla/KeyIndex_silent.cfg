SPECIFICATION Spec
CONSTANTS
    Handles = {1}
    BlockOf <- MCBlockOf
    Keys <- MCKeys
    Queries <- MCOneQuery
    Prefixes <- MCPrefixes
    Windows <- MCOneWindow
    Policies = {TRUE, FALSE}
    SilentEdits = TRUE
    StaleBuilds = FALSE
    MaxEdits = 1
INVARIANTS
    RowsAreCurrent
