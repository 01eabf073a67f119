SPECIFICATION Spec
CONSTANTS
  Name <- FilesName
  Shape <- FilesShape
  Line <- FilesLine
  Value <- MCValue
  Readable <- MCReadable
  Strict = TRUE
  MaxLines = 6
  None = None
  Alias = Alias
  Blank = Blank
  Default = Default
  Word = Word
CHECK_DEADLOCK FALSE
INVARIANTS KeywordsKeepTheirLines AliasesAreLocal
PROPERTIES EndStopsEveryFile
