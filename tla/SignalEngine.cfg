SPECIFICATION Spec
CONSTANTS
    RiskBudget = 285
    MaxDeployed = 28000
    FeeScale = 2000
    BuyFee = 3
    SellFee = 5
    Slippage = 2
    MinStopTicks = 2
    Tp1Multiple = 2
    Tp2Multiple = 3
    Tp1Percent = 60
    SpeculativePercent = 60
    MinRewardToRisk = 175
    Sessions <- MCSessions
    MaxDays = 3
    Strategy <- MCStrategy
    MinHistory = 1
    BaselineDays = 20
    FullBook = 12
    Horizon = 1
    StopPercent = 3
    MinPrice = 51
    MinTurnover = 200
INVARIANTS
    BuyIsTradable
    DecisionsLookBack
CHECK_DEADLOCK FALSE
