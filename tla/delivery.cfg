CONSTANTS
  Msg = {m1}
  Worker = {w1, w2}
  MaxDeliveryAttempts = 2
  None = None
  MaxPublishes = 1
  MaxStops = 1
  MaxOutages = 1
  MaxRequeues = 0
  MaxThefts = 1
  u1 = u1
  u2 = u2
  t1 = t1
  t2 = t2
  User = {u1, u2}
  Token = {t1, t2}
  Owner <- MCOwner
  ExpoToken = {t1, t2}
  Chunk = 1
  MaxDbFaults = 1
SPECIFICATION SosSpec
CONSTRAINT OneFault
SYMMETRY DeliverySymmetry
INVARIANTS
  DeliveredWasPosted
  RingsBounded
  NobodyPendingAfterwards
  DeadLetterShowsFailed
PROPERTIES
  OnlyDeadTokensRemoved
CHECK_DEADLOCK FALSE
