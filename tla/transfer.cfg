SPECIFICATION FairSpec
CONSTANTS
  None = None
  Foreign = {f1}
  f1 = f1
  ForeignKinds <- MCForeignKinds
  Requests = {r1}
  r1 = r1
  Callbacks = {h1}
  h1 = h1
  MaxItems = 2
  Messages <- MCMessages
  Inputs <- MCInputs
  HttpDirect = TRUE
  CoapDirect = TRUE
  Retries = 2
  FailLimit = 2
  OpenTicks = 1
  MaxDeliveries = 2
  MaxTime = 1
INVARIANTS ExecutionsBounded RouteTellsPath RefusedNotSent BatchAccounts BreakerShields
PROPERTIES EveryTransferEnds
CHECK_DEADLOCK FALSE
