SPECIFICATION LeaseSpec
CONSTANTS
  Proc = {p1, p2, p3}
  None = None
  TTL = 2
  MaxTime = 7
SYMMETRY Symmetry
INVARIANTS LeaseExclusive ExtractedOnce
CHECK_DEADLOCK FALSE
