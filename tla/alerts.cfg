CONSTANTS
  Slot = {s1, s2}
  Alert = {a1, a2}
  Recipient = {r1}
  Creator = c
  Answer = {yes, no, call}
  Nothing = Nothing
  MaxRequests = 4
SPECIFICATION FairSpec
INVARIANTS
  OneResponseEach
  CooldownUnlessOverlapping
  HeardAnswersAreStored
PROPERTIES
  ResolvedIsFinal
  EveryRequestEnds
CHECK_DEADLOCK FALSE
