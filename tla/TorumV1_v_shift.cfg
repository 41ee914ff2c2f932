SPECIFICATION Spec
CONSTANTS
  Detector <- MCDetector
  Zones <- MCZones
  Supports <- MCSupports
  Entry <- MCEntry
  Session <- MCSession
  NewsZones <- MCNews
  Shift = 4
  BacktestWindow = 120
  ReplayWindow = 120
  LiveWindow = 300
  Runs = {r1}
  Shapes <- MCThreeShapes
  Mornings <- MCMornings
  Thresholds <- MCOneThreshold
  MaxCandles = 8
  Kinds = {}
  MaxSpent = 1

PROPERTY UnlockIsMonotonic
CHECK_DEADLOCK FALSE
