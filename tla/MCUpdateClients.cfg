CONSTANTS
    ClientIDs = {1, 2, 3, 4, 5}
    MinClients = 2
    SizeMod = 16
SPECIFICATION ClientsSpec
INVARIANTS ClientsTypeOK CompactAndUnique
PROPERTIES ImplementsSet
