SPECIFICATION KeysSpec
CONSTANTS
    Updates = {"twice"}
    Clients = {"a", "b"}
    ASes = {1, 256}
    SKIs = {"s", "r", "n"}
    Algos = {"ecdsa", "new"}
    Ecdsa = "ecdsa"
    Attr <- MCAttr
    Keys = {"k", "l"}
    KeysAt <- MCKeysAt
    Signer <- MCSigner
    Asking <- MCAsking
    CounterSize = 8
    MaxPdus = 5
    Gone = Gone
    None = None
INVARIANTS RegistrationsWhole KeysCounted ToldUnlessMissed
CHECK_DEADLOCK FALSE
