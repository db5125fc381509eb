\* thread_pool_run and delete_thread_pool at the same time, as in the
\* teardown of the disk: safety.  A caller may block for ever there.
CONSTANTS
  s1 = s1 s2 = s2 t1 = t1 t2 = t2 t3 = t3
  NumWorkers = 2
  Submitters <- MCSubmitters
  Tasks <- MCTasks
  NoTask = NoTask
  Free = Free
  LateCalls = TRUE
SPECIFICATION Spec
SYMMETRY MCSymmetry
INVARIANTS TypeOK NeverWaitsForTask AcceptedNotDropped HeldNotFreed
PROPERTIES Service RefusedOnlyWhenFull
CHECK_DEADLOCK FALSE
