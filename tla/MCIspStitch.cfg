CONSTANTS
  p1 = p1
  p2 = p2
  Bind <- TwoPipes
  Nobody = nobody
  Environment <- MCEnvironment
SPECIFICATION FairSpec
INVARIANTS RoundsRight
PROPERTIES GroupLives
