CONSTANTS
  Alert = {a1, a2}
  Loop = {w1, w2}
  Batch = 1
  MaxFaults = 1
  MaxOutages = 1
SPECIFICATION FairSpec
INVARIANTS
  OnlyCommittedAlertsPushed
  PushesBounded
PROPERTIES
  EventuallyPublished
CHECK_DEADLOCK FALSE
