SPECIFICATION Spec
CONSTANTS
  Task = {t1, t2, t3}
  NULL = NULL
  GarbageLinks <- MCGarbageLinks
  PHASES = 2
  TASK_DEPTH = 1
  IRQ_DEPTH = 25
INVARIANTS TypeOK ListOK KeepsGoing
PROPERTIES ImplementsRoundRobin
CHECK_DEADLOCK FALSE
