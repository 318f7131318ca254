CONSTANTS
  Person = {a, p}
  Group = {g1, g2}
  Title = {t1, t2}
  None = None
  Slot = {s1, s2}
  MaxRequests = 3
  MaxInvites = 2
  MaxCodes = 2
SPECIFICATION Spec
SYMMETRY CircleSymmetry
INVARIANTS
  DuplicatesHaveACause
  AnswersAgree
  PhoneInvitesAgree
PROPERTIES
  DirectoryFollowsRequest
  OwnersLeaveByName
CHECK_DEADLOCK FALSE
