CONSTANTS
  Langs = {"playwright-test", "python"}
  Pools = {"javascript", "python"}
  Codes = {"A", "B"}
  None = None
  MaxExecutions = 3
SPECIFICATION FairSpec
CHECK_DEADLOCK FALSE
INVARIANTS
  TypeOK
  ShownIsLatest
  SpinnerCoversLatest
  StaysOnlyIfThrown
  VideoIsOfTheAnswer
PROPERTIES
  SpinnerEnds
