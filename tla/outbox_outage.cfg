CONSTANTS
  Alert = {a1}
  Loop = {w1}
  Batch = 1
  MaxFaults = 0
  MaxOutages = 1
SPECIFICATION Spec
INVARIANTS
  PublishedMeansPushed
CHECK_DEADLOCK FALSE
