CONSTANTS
  Msg = {m1, m2}
  Worker = {w1}
  MaxDeliveryAttempts = 3
  None = None
  MaxPublishes = 1
  MaxStops = 1
  MaxOutages = 1
  MaxRequeues = 1
  MaxThefts = 0
SPECIFICATION FairSpec
PROPERTIES
  KeepsTheLifecycle
  EventuallySettled
  RequeueEndsUnlessRevivedFail
CHECK_DEADLOCK FALSE
