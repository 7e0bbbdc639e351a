CONSTANTS
    Descriptors = {1, 2, 3}
    Conns = {1, 2, 3}
    Faults = {"stop", "goodbye", "cut", "error", "send"}
    MaxFaults = 3
    OthersAllowed = TRUE
    HandshakeTimeout = TRUE
    MAX_SEND_QUEUE = 1
SPECIFICATION ClientSpec
INVARIANTS OneCaretaker OthersUntouched GreetedIfUp
PROPERTY ComesBack
CHECK_DEADLOCK FALSE
