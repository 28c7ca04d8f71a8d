SPECIFICATION Spec
CONSTANTS
    Parts = {"alone", "mining", "pow", "votes", "peers", "rotation", "forwarding",
             "relay", "directory", "sockets"}
    Rotators = {"x", "y"}
    MaxThreads = 3
    MaxNonce = 3
    Clients = {"a", "b", "c", "d"}
    Addr <- Origin
    Cap <- PerAddress
    kMaxInboundConnections = 3
    kMaxLargeSlots = 1
INVARIANTS PoolIndexesExact  SearchResultIsTrue
INVARIANTS ConflictsOnlyAfterFall StakingSectionIsRight 
INVARIANTS ForwardsAreLinked StatusIsTrue  ConnectionsAreBounded
PROPERTIES NothingLost 
CHECK_DEADLOCK FALSE
