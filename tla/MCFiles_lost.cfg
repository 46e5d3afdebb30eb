CONSTANTS
  Root = "root"
  Dirs = {"dir"}
  Files = {"shot", "tmp", "notes"}
  Ignored = {"tmp"}
  Allowed = {"shot", "tmp"}
  MaxCreates = 3
  MaxDeletes = 0
  Parent <- MCParent
SPECIFICATION Spec
CHECK_DEADLOCK FALSE
INVARIANTS
  AllCollected
