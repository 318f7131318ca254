CONSTANTS
  Other = {a, b}
  Me = me
  g1 = g1
  g2 = g2
  Group = {g1, g2}
  Type = {medical, custom}
  AlertType = medical
  Wanted = {"nurse", "doctor"}
  Priority <- MCPriority
  Profile <- MCProfile
  Unknown = Unknown
  Cap = {0, 1}
  MaxChanges = 2
SPECIFICATION MCSpec
SYMMETRY RoutingSymmetry
INVARIANTS
  StableContactsAreCalled
  CalledForACause
CHECK_DEADLOCK FALSE
