SPECIFICATION MainSpec
CONSTANTS
  MaxSteps = 3
  MaxDeps = 2
  CmdCap = 1
  RspCap = 1
  Clocks = {1200, 1600}
  Durations = {0, 2, 3}
  Baseline = 1000
  FastClock = 1500
  HeatFast = 5
  TempStart = 65
  TempFloor = 60
  TempLimit = 72
  UtilStart = 1
  UtilMod = 5
  UtilGoal = 2
  Answers = {TRUE, FALSE}
  Ecc = {0, 1}
  MaxEpisodes = 4
  NPages = 3
  PageLines = 11
  Threshold = 6
  OpWords = {6}
  Targets = {1}
  MaxOps = 2
  MaxNest = 1
  MaxExprs = 1
INVARIANTS DepsFirst StepsDone DeviceSafe PagesPlaced CallsSound
PROPERTIES RunEnds EveryEpisodeEnds
CHECK_DEADLOCK FALSE
