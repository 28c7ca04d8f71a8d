SPECIFICATION Spec
CONSTANTS
    Parts = {"forwarding"}
    Rotators = {}
    MaxThreads = 3
    MaxNonce = 3
    Clients = {"a", "b", "c", "d"}
    Addr <- Origin
    Cap <- PerAddress
    kMaxInboundConnections = 3
    kMaxLargeSlots = 1
INVARIANT ClaimIsKept
CHECK_DEADLOCK FALSE
