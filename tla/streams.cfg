SPECIFICATION FairSpec
CONSTANTS
  None = None
  Tenant = "default"
  Resource = "r"
  Streams = {s1, s2}
  s1 = s1
  s2 = s2
  Timeouts = {0, 1}
  Default = 2
  SweepTimeout = 2
  MaxIdle = 3
  MaxResends = 2
  MaxLog = 4
  Matches <- MockMatches
INVARIANTS CloseWins
PROPERTIES SessionsEnd ClosedInTheEnd
CHECK_DEADLOCK FALSE
