SPECIFICATION JsonSpec
CONSTANTS
  MaxInt = 127
  MaxIndex = 2
  MemberNames = {0, 1}
  RightMargin = 9
  Docs <- MCDocs
INVARIANTS ValueSound ReaderSound SpellingSound
PROPERTIES ParseEnds
CHECK_DEADLOCK FALSE
