SPECIFICATION Spec
CONSTANTS
  Session <- Sessions
  InternalNames <- Names
  DeckName = {"A", "B", "C", "c"}
  ValidDeckName = {"A", "B", "C"}
  MaxInt = 20
  NaN = NaN
  NoDefault = NoDefault
  UnitSystem = {"METRIC", "FIELD"}
  Metric = "METRIC"
  SIScaling <- Scalings
INVARIANTS LastDefinitionReads NothingIsLost ReadAsWritten ValuesHaveTheirUnits
CHECK_DEADLOCK FALSE
