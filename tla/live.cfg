CONSTANTS
  p = p
  q = q
  s1 = s1
  s2 = s2
  Proc = {p, q}
  Socket = {s1, s2}
  Home <- MCHome
  Msg = {1, 2}
  MaxFaults = 1
  MaxHangUps = 1
SPECIFICATION MCSpec
INVARIANTS
  OnceEachWayInOrder
PROPERTIES
  OwedIsDelivered
CHECK_DEADLOCK FALSE
