SPECIFICATION FairSpec
CONSTANTS
    a = a
    b = b
    c = c
    Symbols = {a, b, c}
    Universe = {a}
    Turnover <- MCTurnover
    Kinds = {2, 3}
    FromWeek = 41
    BookDays = 1
    FreshDays = 3
    MaxRequests = 2
    MinRemaining = 1
    Quota = 4
    OthersMax = 1
    MaxBlind = 1
    QuarterDays = 6
    PayloadQuarters = 6
    Unavailable <- MCUnavailable
    FirstDay = 41
    MaxDay = 42
    Initial <- MCInitial
    Released = 5
    None = None
    Report <- MCReport
    Banks = {c}
    Lag = 6
    Listed = {a, b, c}
    Alphabet <- MCTurnover
    Return20 <- MCReturn20
    Cap <- MCCap
    DerMax = 2
    BestMax = 1
    Watched = {a, b}
    Trending = {b}
    Flow <- MCFlow
    WeekFlow <- MCFlow
    Traded <- MCTraded
    Close <- MCClose
    Shares <- MCShares
    Splits = {}
    WeeksOfMonth = 2
    MinBars = 4
    MinQuarters = 5
    MinXs = 2
    Horizons = {1, 3}
INVARIANTS ReserveKept OnlyPublicStatements
PROPERTY EverythingIsArchived
