SPECIFICATION FairSpec
CONSTANTS
  MaxPage = 3
  Value = {i0, v1, v2}
  InitImage = i0
  MaxLsn = 3
  Faults = {"crash", "log_write", "page_write", "extend", "files"}
  Header = Header
  Blank = Blank
  Torn = Torn
  NoFile = NoFile
  Clean = Clean
INVARIANTS OpenRefusesOnlyDamage Numbered AckedReadable
PROPERTIES DurableOK CloseKeepsAll LogKept Recovers
