SPECIFICATION FairSpec
CONSTANTS
    Lo <- MCLo
    Hi = 2
    InventoryMode = "quote_only_bootstrap"
    BootType = "MARKET"
    ExternalPolicy = "pause"
    SeqMod = 1
    MaxOrders = 9
    Env = {}
INVARIANT OneSellPerBuy
PROPERTY ImplementsLadder FillAnswered BootstrapAnswered NothingDropped
CHECK_DEADLOCK FALSE
