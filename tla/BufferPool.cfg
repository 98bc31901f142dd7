SPECIFICATION Spec
CONSTANTS
  Page = {p1, p2, p3}
  Value = {blank, v1}
  Blank = blank
  Handle = {h1, h2}
  MaxCapacity = 3
  MaxClock = 4
  Unallocated = Unallocated
  Torn = Torn
  NoPage = NoPage
  NoValue = NoValue
SYMMETRY Symmetry
INVARIANTS ResidentsFit NoDuplicatePages PinsMatchHandles FileCurrent
PROPERTIES PageViewOK
