CONSTANTS
  Msg = {m1, m2}
  Worker = {w1, w2}
  MaxDeliveryAttempts = 3
  None = None
  MaxPublishes = 2
  MaxStops = 1
  MaxOutages = 1
  MaxRequeues = 1
  MaxThefts = 1
SPECIFICATION Spec
CONSTRAINT TwoCopies
SYMMETRY QueueSymmetry
INVARIANTS
  TypeOK
  NoLossWithoutFault
  DeadLettersAreExhausted
  DuplicatesHaveACause
  InFlightIsBacked
CHECK_DEADLOCK FALSE
