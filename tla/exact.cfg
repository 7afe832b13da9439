SPECIFICATION Spec
CONSTANTS
    Lo <- MCLo
    Hi = 2
    InventoryMode = "quote_only_bootstrap"
    BootType = "LIMIT_MAKER"
    ExternalPolicy = "pause"
    SeqMod = 100
    MaxOrders = 6
    Env = {"jump", "boot_refused", "slippage", "short_quote"}
INVARIANT NoDeadHolder
CHECK_DEADLOCK FALSE
