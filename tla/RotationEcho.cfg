SPECIFICATION Spec
CONSTANTS
    Parts = {"rotation"}
    Rotators = {"x"}
    MaxThreads = 3
    MaxNonce = 3
    Clients = {"a", "b", "c", "d"}
    Addr <- Origin
    Cap <- PerAddress
    kMaxInboundConnections = 3
    kMaxLargeSlots = 1
INVARIANT KeysArePaired
CHECK_DEADLOCK FALSE
