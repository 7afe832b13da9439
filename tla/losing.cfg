SPECIFICATION Spec
CONSTANTS
    D = 10
    Cent = 4
    Configs <- MCArithmetic
    MaxFills = 4
    Traded = {}
INVARIANT NeverLoses
CHECK_DEADLOCK FALSE
