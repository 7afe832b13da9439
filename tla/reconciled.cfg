SPECIFICATION Spec
CONSTANTS
    Orders = {o1, o2}
    Parts = 1
    QueueMax = 3
    StreamMax = 1
    MaxLost = 1
    Repeated = {}
    Env = {"refuse", "cancel", "lose", "stop", "slow_ack", "reconcile"}
INVARIANT DrainedExact
CHECK_DEADLOCK FALSE
