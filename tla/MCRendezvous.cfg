CONSTANTS
  c1 = c1
  c2 = c2
  c3 = c3
  Client = {c1, c2, c3}
  Nobody = Nobody
  TTL = 2
SPECIFICATION Spec
INVARIANTS TypeOK HostIsFindable
PROPERTY DeadRoomIsFreed
CHECK_DEADLOCK FALSE
