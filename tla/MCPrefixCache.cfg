CONSTANTS
    p8 = p8
    p16 = p16
    p24 = p24
    q24 = q24
    Prefixes <- MCPrefixes
    PLen <- MCPLen
    Above <- MCAbove
    ROAs <- MCROAs
    Updates <- MCUpdates
    PrefixOf <- MCPrefixOf
    OriginOf <- MCOriginOf
    Reserved <- MCReserved
    MaxCopies = 1
    CounterSize = 16
SPECIFICATION PrefixSpec
INVARIANTS CoverageExact MatchesCounted
PROPERTIES ImplementsValidation
CHECK_DEADLOCK FALSE
