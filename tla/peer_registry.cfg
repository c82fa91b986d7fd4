SPECIFICATION Spec
CONSTANTS
  None = None
  PeerIds = {p1}
  p1 = p1
  Resources = {r1}
  r1 = r1
  Calls = {c1, c2}
  c1 = c1
  c2 = c2
  LeaseTtl = 1
  Sweeping = TRUE
  MaxRemote = 2
  MaxTime = 2
SYMMETRY Symmetry
INVARIANT ProvidersCurrent
INVARIANT StoreConverges
INVARIANT ListedIsAlive
CHECK_DEADLOCK FALSE
