CONSTANTS
  Region = {r1, r2}
  MaxRefresh = 4
  Environment <- MCEnvironment
SPECIFICATION FairSpec
INVARIANT DrawsIdle
PROPERTIES ScreenSteady ComesOnScreen
CHECK_DEADLOCK TRUE
