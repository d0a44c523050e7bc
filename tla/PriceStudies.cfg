SPECIFICATION StudiesSpec
CONSTANTS
    RiskBudget = 285
    MaxDeployed = 28000
    FeeScale = 2000
    BuyFee = 3
    SellFee = 5
    Slippage = 2
    MinStopTicks = 2
    Tp1Multiple = 2
    Tp2Multiple = 3
    Tp1Percent = 60
    SpeculativePercent = 60
    MinRewardToRisk = 175
    BarShapes <- MCShapes
    MaxBars = 7
    AtrPeriod = 2
    Day5 = 1
    Day10 = 2
    Day20 = 2
    Day50 = 3
    Day60 = 3
    FastRsi = 1
    SlowRsi = 2
    StudyHistory = 1
    Horizons <- MCHorizons
    ShortHold = 1
    MidHold = 2
    LongHold = 2
    StudyPrice = 51
    StudyTurnover = 190
INVARIANTS
    ExitIsPessimistic
    PlanIsSound
    RanksAreFair
PROPERTY DecisionsStand
CHECK_DEADLOCK FALSE
