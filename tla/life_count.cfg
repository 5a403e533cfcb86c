SPECIFICATION Spec
CONSTANTS
  d1 = d1
  d2 = d2
  d3 = d3
  f = f
  Hubs <- MCDaemons
  Daemons <- MCDaemons
  MaxWrites = 1
  None = None
INVARIANT CountedWhenServing
SYMMETRY SameDaemons
CHECK_DEADLOCK FALSE
