SPECIFICATION HomeSpec
CONSTANTS
    Listeners = {1, 2}
    Connections = {1, 2}
    Slots = {1, 2}
    Leases = {1, 2}
    Blocks = {b1, b2}
    NoSlot = NoSlot
    NoLease = NoLease
    NoBlock = NoBlock
    BlockBytes = 2
    MaxResponse = 3
    ConnectionTimeout = 2
    HandlerTimeout = 1
    Share = 2
INVARIANTS
    ServingInv
    RequestsHaveTime
PROPERTY ShutdownEnds
CHECK_DEADLOCK FALSE
