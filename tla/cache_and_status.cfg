SPECIFICATION Spec
CONSTANTS
  Calls = {c1, c2}
  ReqIds = {r1, r2}
  Keys = {k1}
  Handlers = {h1}
  SyncRequests <- AnyRequest
  AsyncRequests <- Unkeyed
  None = None
  MaxPending = 1
  MaxIdempotentKeys = 1
  TTLs = {2}
  StatusRetention = 1
  MaxAnswers = 1
  MaxTime = 3
SYMMETRY Symmetry
INVARIANTS TypeOK BackpressureBound CorrelatedReply LatestWins
INVARIANTS StatusTellsOutcome CachedReply
PROPERTIES DedupWithinTTL ImplementsRequestReply
