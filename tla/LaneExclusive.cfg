SPECIFICATION Spec
CONSTANTS
  Proc = {p1, p2, p3}
  Thread = {g1}
  Inode = {i1, i2}
  Edit = {e1}
  None = None
  Closed = Closed
  MaxEvents = 0
  MaxWrites = 1
SYMMETRY Symmetry
INVARIANT LaneExclusive
CHECK_DEADLOCK FALSE
