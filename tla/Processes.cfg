SPECIFICATION FairSpec
CONSTANTS
  Proc = {p1, p2}
  Thread = {g1, g2}
  Inode = {i1, i2}
  Edit = {e1, e2}
  None = None
  Closed = Closed
  MaxEvents = 1
  MaxWrites = 3
INVARIANTS ExclusiveUnlessWeak OneOwnerUnlessCleared LocksHeld
PROPERTIES Settles LaneServed ImplementsStore
CHECK_DEADLOCK FALSE
