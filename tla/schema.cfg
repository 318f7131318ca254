CONSTANTS
  Circle = {c1}
  MaxWrites = 3
SPECIFICATION Spec
INVARIANTS
  SchemaIsTheRevisions
  HeadSpeaksTheSixTypes
  StuckOnlyForACause
PROPERTIES
  OnlyRevision11Reroutes
CHECK_DEADLOCK FALSE
