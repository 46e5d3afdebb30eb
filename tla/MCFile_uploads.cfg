CONSTANTS
  Uploads = {u1, u2}
  Files = {"a/shot", "b/shot", "notes"}
  NameOf <- MCNameOf
  Allowed = {"a/shot", "b/shot"}
  MaxFaults = 2
  MaxEpochs = 2
SPECIFICATION Spec
CHECK_DEADLOCK FALSE
INVARIANTS
  FileTypeOK
  AnswerComplete
