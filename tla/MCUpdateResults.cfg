CONSTANTS
    Clients = {1, 2}
    Updates = {u1}
    States = {"valid", "invalid"}
    Undefined = "undefined"
    Defaults = {"undefined", "valid", "invalid"}
    MaxRequests = 3
    MaxChanges = 2
    None = None
SPECIFICATION ResultsSpec
INVARIANTS InformedUnlessRaced RequestersListed
PROPERTIES ValidationHappens
CHECK_DEADLOCK FALSE
