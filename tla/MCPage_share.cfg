CONSTANTS
  Langs = {"js", "java"}
  Default = "js"
  Codes = {"", "A", "B", "C"}
  Empty = ""
  Ids = {"i1", "i2"}
  Example <- MCExample
  First <- MCFirst
  None = "none"
  MaxShares = 1
  MaxEntries = 1
SPECIFICATION Spec
INVARIANTS
  TypeOK
  LinksOpenWhatWasShared
  ReloadRestores
  LanguageOfCode
