SPECIFICATION Spec
CONSTANTS
  Calls = {c1, c2}
  ReqIds = {r1, r2}
  Keys = {k1}
  Handlers = {h1}
  SyncRequests <- Unkeyed
  AsyncRequests <- Unkeyed
  None = None
  MaxPending = 1
  MaxIdempotentKeys = 1
  TTLs = {2}
  StatusRetention = 1
  MaxAnswers = 1
  MaxTime = 3
INVARIANTS ReportsFinalStatus
