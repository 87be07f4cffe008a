\* Three tokens, a ceiling that two of the requests reach or exceed together, and
\* one request no budget of this size can grant.
CONSTANTS
    NTokens = 3
    MaxBytes = 2
    UsizeMax = 3
    Requests = {1, 2, 3}
SPECIFICATION Spec
INVARIANTS
    LedgerBalances
    WithinBudget
    PeakExact
