SPECIFICATION PoolSpec
CONSTANTS
  w1 = w1
  w2 = w2
  t1 = t1
  t2 = t2
  t3 = t3
  Owner = Owner
  Nobody = Nobody
  NoTask = NoTask
  Workers <- MCWorkers
  Tasks <- MCTasks
INVARIANTS
  TaskInOnePlace
  NoSleeperMissesWork
  QuietWhenGone
PROPERTIES
  EveryTaskRuns
  DtorReturns
