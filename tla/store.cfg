SPECIFICATION FairSpec
CONSTANTS
    Orders = {o1, o2}
    Parts = 2
    QueueMax = 3
    StreamMax = 1
    MaxLost = 1
    Repeated = {o1}
    Env = {"refuse", "cancel", "lose", "stop", "db_error"}
INVARIANTS StoreType DrainedExact
PROPERTIES ImplementsOrderLife EndStored
CHECK_DEADLOCK FALSE
