SPECIFICATION Spec
CONSTANTS
  Handlers = {h1, h2}
  Prices = {1, 2}
  Target = 1
  BatchMax = 2
  Lookback = 9
  FirstPoll = 9
  HistoryLag = FALSE
  CrashPoints <- AllPoints
  Kinds = {"crash"}
  MaxTicks = 3
  MaxTime = 2
  MaxSpent = 1
INVARIANTS
  CloseIsEvaluated
CHECK_DEADLOCK FALSE
