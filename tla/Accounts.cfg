SPECIFICATION Spec
CONSTANTS
    Statuses <- ReportedStatuses
    None = None
    Unknown = Unknown
    Positions <- OnePosition
    Highs = {1}
    Handlers = {h1}
    MaxChanges = 3
    MaxRequests = 1
    NoMargin = NoMargin
    Price = 16
    Moves <- Betas
    Held <- Bought
    Equities = {5, 20, 40, 80}
    Levels = {0, 20, 50}
    Margins = {20, 40}
    Accounts = {"a"}
    Zone = 2
    Tolerance = 1
    MonthLength = 2
    CashAmounts = {2}
    ProfitAmounts <- Losses
    EntryKinds = {"INITIAL", "DEPOSIT"}
    MaxTime = 3
    MaxEvents = 3
    DayHours = 2
    LastDate = 5
    FirstDate = 3
    TradingDates = {0, 1, 2, 3, 5}
    Values = {6, 10, 11}
    Period = 3
    Band = 1
    Lookback = 2
    Drop = 500
    Slack = 0
    PairCount = 4
    MaxUnusual = 1
    NoRow = NoRow
INVARIANTS
    LoneChangeIsShown
    LineIsFirstTrigger
    LedgerIsTheAccount
    MonthsAddUp
    FilterAgreesWithBacktest
CHECK_DEADLOCK FALSE
