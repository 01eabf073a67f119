SPECIFICATION Spec
CONSTANTS
  TicksPerMilli = 2
  MillisPerSecond = 2
  Start = 0
  Time <- MCTime
  Length <- MCLength
  MaxSteps = 4
  MaxPerKeyword = 2
INVARIANTS StrictlyIncreasing DriftBounded LengthsAddUp
PROPERTIES ImplementsClock
CHECK_DEADLOCK FALSE
