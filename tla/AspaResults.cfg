SPECIFICATION AspaResultsSpec
CONSTANTS
    u1 = u1
    u2 = u2
    p1 = p1
    Updates = {u1, u2}
    Paths = {p1}
    PathOf <- MCPathOf
    DirOf <- MCOneDir
    Defaults <- MCInvalid
    Receipts = {TRUE}
    MaxRequests = 3
    MaxPdus = 2
    MaxClock = 2
    None = None
INVARIANTS Informed CurrentUnlessRaced
PROPERTY Validated
CHECK_DEADLOCK FALSE
