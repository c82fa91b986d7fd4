SPECIFICATION FairSpec
CONSTANTS
  Calls = {c1, c2}
  ReqIds = {r1}
  Keys = {k1}
  Handlers = {h1, h2}
  SyncRequests <- AnyRequest
  AsyncRequests <- Unkeyed
  None = None
  MaxPending = 2
  MaxIdempotentKeys = 1
  TTLs = {1}
  StatusRetention = 1
  MaxAnswers = 1
  MaxTime = 0
INVARIANTS PendingOwnership NoLostResponse
PROPERTY EveryCallReturns
