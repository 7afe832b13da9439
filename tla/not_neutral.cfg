SPECIFICATION Spec
CONSTANTS
    D = 10
    Cent = 1
    Configs <- MCOne
    BaseFee = FALSE
    MaxTrades = 6
INVARIANT OffersCovered
CHECK_DEADLOCK FALSE
