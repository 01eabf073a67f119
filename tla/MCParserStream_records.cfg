SPECIFICATION FairSpec
CONSTANTS
  Name <- RecordsName
  Shape <- RecordsShape
  Line <- RecordsLine
  Value <- MCValue
  Readable <- MCReadable
  Strict = FALSE
  MaxLines = 5
  None = None
  Alias = Alias
  Blank = Blank
  Default = Default
  Word = Word
CHECK_DEADLOCK FALSE
INVARIANTS DeckKeywordsAreWhole NoKeywordIsLost
PROPERTIES ParsingEnds
