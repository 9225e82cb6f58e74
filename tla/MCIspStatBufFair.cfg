CONSTANTS
  MaxStat = 2
  MaxFrame = 6
  EarlyReturn = TRUE
SPECIFICATION FairSpec
INVARIANTS StatNodesKept OfferedAndHeld
PROPERTIES StatsMoveOn StatUsed
