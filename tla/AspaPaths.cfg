SPECIFICATION DatabaseSpec
CONSTANTS
    Customers <- MCCustomers
    ProvidersOf <- MCProvidersOf
    Afis <- MCAfis
    Paths <- MCPaths
    MaxCount = 6
    None = None
INVARIANTS ObjectsExact VerdictIsMeaning
