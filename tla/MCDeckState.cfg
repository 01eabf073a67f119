SPECIFICATION Spec
CONSTANTS
  NaN = NaN
  Deck <- Decks
INVARIANTS SectionsCoverTheDeck TablesFollowRecords DefaultsLieOnLines EvaluateInterpolates CellsAreStacked
CHECK_DEADLOCK FALSE
