SPECIFICATION Spec
CONSTANTS
  Charms <- MCCharms
  RemoteUnits <- MCUnits
  None = None
INVARIANT PausedStaysDown
INVARIANT NothingForgotten
INVARIANT RunsOnFiles
INVARIANT OneUnit
PROPERTY ActiveIsTrue
CHECK_DEADLOCK FALSE
