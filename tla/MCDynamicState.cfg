SPECIFICATION StateSpec
CONSTANTS
  Value <- MCValue
  Default = "default"
  MaxLength = 4
INVARIANTS CachedValueIsLast
PROPERTIES ImplementsTimedValue
