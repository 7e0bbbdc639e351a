CONSTANTS
    Roas = {r1}
    MaxSerial = 6
    MaxNodes = 6
    MaxLines = 2
    UINT32_MAX = 99
    BadFiles = TRUE
    Empties = TRUE
SPECIFICATION CacheSpec
INVARIANTS CacheTypeOK DeltaExact NothingMissing
CHECK_DEADLOCK FALSE
