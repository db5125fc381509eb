\* delete_thread_pool after the last call of thread_pool_run: liveness.
CONSTANTS
  s1 = s1 s2 = s2 t1 = t1 t2 = t2 t3 = t3
  NumWorkers = 2
  Submitters <- MCOneSubmitter
  Tasks <- MCTasks
  NoTask = NoTask
  Free = Free
  LateCalls = FALSE
SPECIFICATION FairSpec
PROPERTIES AcceptedRuns CallReturns DeleteFinishes
