SPECIFICATION Spec
CONSTANTS
  Detector <- MCDetector
  Zones <- MCZones
  Supports <- MCSupports
  Entry <- MCEntry
  Session <- MCSession
  NewsZones <- MCNews
  Shift = 0
  BacktestWindow = 120
  ReplayWindow = 120
  LiveWindow = 300
  Runs = {r1, r2}
  Shapes <- MCThreeShapes
  Mornings <- MCMornings
  Thresholds <- MCOneThreshold
  MaxCandles = 7
  Kinds = {"fault", "override"}
  MaxSpent = 1

SYMMETRY RunSymmetry
PROPERTIES
    EntriesAreCycles
CHECK_DEADLOCK FALSE
