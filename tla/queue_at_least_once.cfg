CONSTANTS
  Msg = {m1}
  Worker = {w1}
  MaxDeliveryAttempts = 3
  None = None
  MaxPublishes = 1
  MaxStops = 1
  MaxOutages = 0
  MaxRequeues = 0
  MaxThefts = 0
SPECIFICATION Spec
INVARIANTS
  AtLeastOnce
CHECK_DEADLOCK FALSE
