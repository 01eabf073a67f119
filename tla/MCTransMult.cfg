SPECIFICATION Spec
CONSTANTS
  NX = 2
  NY = 2
  NZ = 2
  Fault = {"f", "g"}
  MultProperties <- Multx
  RegionProperties <- Regions
  FaultRecord <- Faces
  Factor = {3, 5}
  RegionRecord <- Records
  Defaulted = Defaulted
  MaxFaces = 2
  MaxFactors = 2
  MaxRegions = 3
  MaxPerKeyword = 2
INVARIANTS MultipliersAreProducts RegionIsInherited
CHECK_DEADLOCK FALSE
