SPECIFICATION Spec
CONSTANTS
  None = None
  Tasks = {t1}
  t1 = t1
  t2 = t2
  t3 = t3
  Workers = {w1}
  w1 = w1
  Messages <- Varied
  QueueSize = 1
  Retries = 2
  FailLimit = 3
  OpenTicks = 1
  MaxTime = 0
INVARIANT GracefulStop
CHECK_DEADLOCK FALSE
