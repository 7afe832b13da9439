SPECIFICATION Spec
CONSTANTS
    D = 10
    Cent = 4
    Configs <- MCConfigs
    MaxFills = 4
    Traded <- MCTraded
INVARIANTS MoneyType LadderSound LossBounded TargetReached CapitalFits PlacedFits MatchesMost
PROPERTY MatchedKept ReportEnds
CHECK_DEADLOCK FALSE
