CONSTANTS
  Limit = 3
  HysSteps = 1
  Lens = 2
  MaxDone = 2
  Environment <- MCEnvironment
SPECIFICATION FairSpec
INVARIANT TimerKept
PROPERTIES CalibrationTrue WaitEnds
CHECK_DEADLOCK FALSE
