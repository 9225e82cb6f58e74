CONSTANTS
  Thread = {t1, t2}
  Main = main0
  None = nobody
  Environment <- RetryEnvironment
SPECIFICATION RetrySpec
INVARIANTS IntGuarded BuffersWhenUsed
PROPERTIES MemInitCleans StopCompletes Recovers
