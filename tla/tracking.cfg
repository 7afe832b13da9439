SPECIFICATION Spec
CONSTANTS
    Lo <- MCLo1
    Hi = 1
    InventoryMode = "prebalanced"
    BootType = "MARKET"
    ExternalPolicy = "pause"
    SeqMod = 100
    MaxOrders = 5
    Env = {"jump", "no_report", "user_cancel", "pause", "stop"}
INVARIANT TypeOK OneOrderPerLevel LevelTracked
PROPERTY SubmitsOnlyRunning
CHECK_DEADLOCK FALSE
