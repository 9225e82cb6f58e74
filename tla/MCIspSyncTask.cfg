CONSTANTS
  t1 = t1
  t2 = t2
  t3 = t3
  Task = {t1, t2, t3}
  Caller = {c1, c2}
  Worker = worker
  Nobody = nobody
  Poison = poison
  Environment <- MCEnvironment
SPECIFICATION TaskFairSpec
INVARIANTS TaskTypeOK WalksRegistered ListMatchesCount
PROPERTY EveryTaskRuns
