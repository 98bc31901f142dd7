SPECIFICATION WalSpec
CONSTANTS
  MaxPage = 2
  Value = {v1, v2}
  MaxLsn = 3
  Faults = {"crash"}
PROPERTIES AppendResumes
