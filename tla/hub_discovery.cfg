SPECIFICATION FairSpec
CONSTANTS
  hub = hub
  edge = edge
  auth = auth
  Nodes <- MCNodes
  Role <- MCRole
  Skew <- MCSkew
  Interval = 2
  Ttl = 6
  MaxDelay = 1
  MaxMissed = 3
  MaxAge = 8
  None = None
INVARIANTS KnownWhileHeard NoGhost
PROPERTIES SilentForgotten
