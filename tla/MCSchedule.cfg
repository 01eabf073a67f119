SPECIFICATION Spec
CONSTANTS
  w1 = w1
  w2 = w2
  low = low
  high = high
  opened = opened
  shut = shut
  Well = {w1, w2}
  NotAWell = NotAWell
  Group = {"FIELD", "G1"}
  NoGroup = ""
  Root = "FIELD"
  WellHead <- Heads
  WelspecsNames <- Specs
  GruptreeNames <- Trees
  Pattern <- Patterns
  ProducerRecord <- Producers
  InjectorRecord <- Injectors
  Target = {low, high}
  Zero = low
  GroupInjectionRecord <- TwoPhases
  GroupProductionRecord <- TwoTargets
  Data = {opened, shut}
  CompdatRecord <- Records
  MaxRecords = 3
  Budget <- Budgets
  MaxSteps = 2
  MaxPerKeyword = 1
INVARIANTS ProductionModeAvailable InjectionModeAvailable LastRecordWins NothingBeforeItIsThere
PROPERTIES EachWellAsIfAlone PhaseIsSetOnce PlacesAreKept EarlierStepsAreKept
CHECK_DEADLOCK FALSE
