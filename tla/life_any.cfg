SPECIFICATION Spec
CONSTANTS
  d1 = d1
  d2 = d2
  d3 = d3
  f = f
  Hubs <- MCHubs
  Daemons <- MCDaemons
  MaxWrites = 1
  None = None
INVARIANTS TypeOK KnowsTheRows StaleFileNoObstacle
SYMMETRY SameDaemons
CHECK_DEADLOCK FALSE
VIEW Uncounted
