SPECIFICATION Spec
CONSTANTS
  Handlers = {h1, h2}
  Prices = {1, 2}
  Target = 1
  BatchMax = 2
  Lookback = 9
  FirstPoll = 9
  HistoryLag = FALSE
  CrashPoints <- SafePoints
  Kinds = {}
  MaxTicks = 3
  MaxTime = 4
  MaxSpent = 1
INVARIANTS
  EveryEvaluatedCandleIsFinal
CHECK_DEADLOCK FALSE
