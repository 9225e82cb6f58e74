CONSTANTS
  Thread = {t1, t2}
  Main = main0
  None = nobody
  Environment <- TwiceEnvironment
SPECIFICATION Spec
INVARIANT SingleRunTask
