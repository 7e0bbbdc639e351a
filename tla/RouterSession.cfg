CONSTANTS
    Roas = {r1}
    MaxSerial = 3
    MaxNodes = 3
    MaxLines = 1
    UINT32_MAX = 99
    BadFiles = FALSE
    Empties = FALSE
    Routers = {a}
    SessionIDs = {0, 1}
    HasCallback = FALSE
    Disturbances = {"notify", "session", "restart", "loss", "alarm"}
    MaxDisturbances = 1
    MaxQueries = 3
    NoPDU = NoPDU
SPECIFICATION SessionSpec
INVARIANTS NothingLacking ExactUnlessRepeated
PROPERTIES LearnsAll
CHECK_DEADLOCK FALSE
