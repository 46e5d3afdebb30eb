CONSTANTS
  Root = "root"
  Dirs = {"dir"}
  Files = {"shot", "tmp", "notes"}
  Ignored = {"tmp"}
  Allowed = {"shot", "tmp"}
  MaxCreates = 2
  MaxDeletes = 1
  Parent <- MCParent
SPECIFICATION FairSpec
CHECK_DEADLOCK FALSE
PROPERTIES
  CollectReturns
