CONSTANTS
    MaxElements = 3
    CounterSize = 8
    MaxAdditions = 7
    Mapping <- MCConfigured
    HelloIDs = {1, 2, 3}
    Sockets = {s1, s2, s3}
    NoSocket = NoSocket
    s1 = s1
    s2 = s2
    s3 = s3
    ProxyOf <- MCProxyOf
    Updates = {u1}
    MinClients = 2
    CountSize = 8
    MaxRequests = 2
    Requests = {"verify", "delete"}
    Departures = {"crash"}
SPECIFICATION FairSessions
INVARIANTS UniqueMapping NoSpuriousRefusal SocketOnlyWhileActive SessionKept NoDeadMapping MappingAndThreadAgree
PROPERTIES CrashedKeepsID ImplementsDirectory HelloAnswered LeftIsForgotten
CHECK_DEADLOCK FALSE
