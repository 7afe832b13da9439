SPECIFICATION FairSpec
CONSTANTS
    Lo <- MCLo
    Hi = 2
    Hole = 1
    StartMissed <- MCMissed
    MaxOrders = 4
    MaxCrashes = 1
    MaxBacklog = 1
    Env = {"lose", "refuse", "cancel", "timeout", "slow_ack"}
INVARIANTS RecoveryType KnownLines
PROPERTY FreedIsDead DeadFreed
CHECK_DEADLOCK FALSE
