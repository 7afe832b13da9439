SPECIFICATION Spec
CONSTANTS
    Action = "cancel_only"
    Policy = "pause"
    SellOnStop = FALSE
    Bootstrap = TRUE
    CancelRetryMax = 3
    ShutdownPolls = 1
    QueueMax = 3
    MaxEvents = 2
    Env = {"command"}
INVARIANT SilentOnceStopped
CHECK_DEADLOCK FALSE
