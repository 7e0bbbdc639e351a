CONSTANTS
    MaxElements = 3
    CounterSize = 8
    MaxAdditions = 7
    Mapping <- MCMapping
    HelloIDs = {1, 2}
    Sockets = {s1, s3}
    NoSocket = NoSocket
    s1 = s1
    s2 = s2
    s3 = s3
    ProxyOf <- MCProxyOf
    Updates = {u1, u2}
    MinClients = 2
    CountSize = 8
    MaxRequests = 3
    Requests = {"verify", "delete"}
    Departures = {"goodbye", "crash", "abort", "unknown"}
SPECIFICATION SessionsSpec
INVARIANTS CountIsExact CollectableIffUnused
PROPERTY EndUnregisters
CHECK_DEADLOCK FALSE
