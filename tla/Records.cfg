SPECIFICATION FairSpec
CONSTANTS
    a = a
    b = b
    Symbols = {a, b}
    Openings <- MCOpenings
    Laggards <- MCLaggards
    Screens <- MCScreens
    Profile <- MCProfile
    Breakouts <- MCBreakouts
    Stops <- MCStops
    Worth <- MCWorth
    MaxDay = 4
    Window = 2
    HistoryBars = 2
    SnapshotBars = 2
    UniverseBars = 1
    SweepBars = 2
    ShadowBars = 1
    MinForward = 0
    MaxHolding = 2
    Limit = 3
    TopMax = 2
    MidMax = 2
    WatchlistMax = 2
    PlanMax = 1
    Shortlist = 1
    TechSize = 1
    PoolSize = 1
    MinPrice = 51
    MinTurnover = 100
    MinLiquid = 100
    MinRatio = 1
    MinCap = 30
    MaxCap = 50
    BackfillTop = 2
INVARIANTS
    ReplayDecidesOnThePast
    OutcomeOnNextSessions

PROPERTY
    ReadyPlansAreEvaluated
