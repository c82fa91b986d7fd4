SPECIFICATION FairSpec
CONSTANTS
  None = None
  Tasks = {t1, t2, t3}
  t1 = t1
  t2 = t2
  t3 = t3
  Workers = {w1, w2}
  w1 = w1
  w2 = w2
  Messages <- Varied
  QueueSize = 1
  Retries = 2
  FailLimit = 2
  OpenTicks = 1
  MaxTime = 1
INVARIANTS TaskConservation StopDrains BreakerShields
PROPERTIES StopEnds AcceptedEnds
CHECK_DEADLOCK FALSE
