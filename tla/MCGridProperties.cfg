SPECIFICATION Spec
CONSTANTS
  NX = 2
  NY = 2
  NZ = 1
  Unit = 2
  One = 10
  NaN = NaN
  NoBox = NoBox
  PartialBox = PartialBox
  Defaulted = Defaulted
  SIScaling <- Scaling
  SwofTables <- Swof
  SgofTables <- Sgof
  EnptvdTables <- Enptvd
  ImptvdTables <- NoTables
  Item <- Items
  MaxItems = 5
INVARIANTS BoxesFollowTheDeck AsIfInOneScan
PROPERTIES RegionsAreFinal OnlyTheBoxChanges
CHECK_DEADLOCK FALSE
