CONSTANTS
  Slot = {s1, s2}
  MaxTrips = 2
  MaxRequests = 5
SPECIFICATION FairSpec
INVARIANTS
  OneActiveUnlessOverlapping
  FinishesAgree
  ToldOfOneArrival
  ArrivalByPositionIsExact
PROPERTIES
  NeverActiveAgain
  EveryRequestEnds
CHECK_DEADLOCK FALSE
