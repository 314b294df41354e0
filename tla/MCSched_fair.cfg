SPECIFICATION FairSpec
CONSTANTS
  Task = {t1, t2, t3}
  NULL = NULL
  GarbageLinks <- MCGarbageLinks
  PHASES = 1
  TASK_DEPTH = 0
  IRQ_DEPTH = 25
PROPERTIES EveryTaskRuns
CHECK_DEADLOCK FALSE
