SPECIFICATION MCSpec
CONSTANTS
  p1 = p1
  p2 = p2
  p3 = p3
  None = None
  Peers = {p1, p2, p3}
  Slots = {1, 2, 3}
  MaxFailures = 2
INVARIANTS SlotsMatchConnections OverflowIsEvicted
PROPERTY PersistentRedialed
CHECK_DEADLOCK FALSE
