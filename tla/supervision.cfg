SPECIFICATION FairSpec
CONSTANTS
    Action = "cancel_only"
    Policy = "pause"
    SellOnStop = TRUE
    Bootstrap = TRUE
    CancelRetryMax = 2
    ShutdownPolls = 1
    QueueMax = 2
    MaxEvents = 2
    Env = {"submit", "down", "mute", "deaf", "crash", "command", "external", "rest_fails", "resend", "refuse"}
INVARIANTS SupervisionType EmptyMeansEmpty ClosedClean
PROPERTY StaysStopped DeafStreamEnds SilenceEnds EmergencyComesToEnd
CHECK_DEADLOCK FALSE
