CONSTANTS
  MaxElements = 2
  Texts <- MCTexts
  None = None
  MaxReleases = 2
  MaxStarts = 2
SPECIFICATION Spec
CHECK_DEADLOCK FALSE
INVARIANTS
  TypeOK
  StripsTheHeader
  TypesAreWhole
  DoneIsCurrent
