SPECIFICATION MCSpec
CONSTANTS
  Handlers = {h1, h2}
  Prices = {1, 2}
  Target = 1
  BatchMax = 2
  Lookback = 9
  FirstPoll = 9
  HistoryLag = FALSE
  CrashPoints <- SafePoints
  Kinds = {"timeout", "enqueue", "strategy", "crash", "bridge", "account", "cancel"}
  MaxTicks = 3
  MaxTime = 2
  MaxSpent = 1
SYMMETRY HandlerSymmetry
INVARIANTS
    CandlesAreTheirTicks
    EvaluatedCandlesAreFinal
    CloseIsEvaluated
    AlertFiresOnceInTime
CHECK_DEADLOCK FALSE
