SPECIFICATION Spec
CONSTANTS
    Clients = {c1}
    QueueSize = 1
    PageSize = 1
    MaxMessages = 4
    MaxCapacity = 2
    MaxTroubles = 1
    MaxRestarts = 1
CHECK_DEADLOCK FALSE
INVARIANTS
    TypeOK
    OutboxInOrder
    StreamsHaveNoGap
    CapacityReachesWatchers
PROPERTIES
    EverythingShown
