SPECIFICATION Spec
CONSTANTS
  MaxPage = 3
  Value = {i0, v1}
  InitImage = i0
  MaxLsn = 3
  Faults = {"log_write"}
  Header = Header
  Blank = Blank
  Torn = Torn
  NoFile = NoFile
  Clean = Clean
INVARIANTS LogReadable

