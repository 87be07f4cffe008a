SPECIFICATION Spec
CONSTANTS
    Handles = {1}
    BlockOf <- MCBlockOf
    Keys <- MCKeys
    Queries <- MCQueries
    Prefixes <- MCPrefixes
    Windows <- MCWindows
    Policies = {TRUE, FALSE}
    SilentEdits = TRUE
    StaleBuilds = TRUE
    MaxEdits = 1
INVARIANTS
    FreshBuildIsOfItsSource
    OpenIsOfItsSource
    FoundIsInSource
    AnswersComplete
    StampedRowsAreCurrent
