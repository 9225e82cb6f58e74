CONSTANTS
  Waiter = {w1, w2}
  Nobody = nobody
  Environment <- MCEnvironment
SPECIFICATION FairSpec
INVARIANT ToldExactly
PROPERTIES CfgNotTorn CallReturns
