SPECIFICATION Spec
CONSTANTS
  Detector <- MCDetector
  Zones <- MCZones
  Supports <- MCSupports
  Entry <- MCEntry
  Session <- MCSession
  NewsZones <- MCNews
  Shift = 0
  BacktestWindow = 120
  ReplayWindow = 120
  LiveWindow = 300
  Runs = {r1}
  Shapes <- MCThreeShapes
  Mornings <- MCMornings
  Thresholds <- MCThresholds
  MaxCandles = 8
  Kinds = {"edit"}
  MaxSpent = 1

PROPERTY EntriesAreCycles
CHECK_DEADLOCK FALSE
