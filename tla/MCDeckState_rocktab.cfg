SPECIFICATION Spec
CONSTANTS
  NaN = NaN
  Deck <- FewDecks
INVARIANTS RocktabIsRead
CHECK_DEADLOCK FALSE
