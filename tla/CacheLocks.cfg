CONSTANTS
    ClientThreads = {"client1", "client2"}
    NoThread = "none"
SPECIFICATION LocksSpec
INVARIANTS NoDeadlock
