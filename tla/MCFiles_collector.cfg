CONSTANTS
  Root = "root"
  Dirs = {"dir"}
  Files = {"shot", "tmp", "notes"}
  Ignored = {"tmp"}
  Allowed = {"shot", "tmp"}
  MaxCreates = 4
  MaxDeletes = 2
  Parent <- MCParent
SPECIFICATION FairSpec
CHECK_DEADLOCK FALSE
INVARIANTS
  FilesTypeOK
  MissedOnlyByRace
  CollectedOnce
PROPERTIES
  RepliesUnlessDeleted
