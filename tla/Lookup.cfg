\* Every table of three keys, every query and every window.  The locator takes 40
\* bytes of tables and up to 12 of text; one query is longer than its limit.
CONSTANTS
    Chars <- MCChars
    ToLowercase <- MCToLowercase
    Tables <- MCTables
    Headers <- MCHeaders
    Queries <- MCQueries
    Offsets = {0, 1, 3, 63}
    Limits = {0, 1, 2, 63}
    LocatorBytes = 52
    UsizeMax = 63
    Digest <- MCDigest
SPECIFICATION LookupSpec
INVARIANTS
    AnswersExactly
    BasisTruthful
    PagesFitReservation
    PrefixExact
    CopiesAgree
