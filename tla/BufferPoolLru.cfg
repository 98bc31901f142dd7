SPECIFICATION Spec
CONSTANTS
  Page = {p1, p2, p3, p4}
  Value = {blank}
  Blank = blank
  Handle = {h1, h2, h3}
  MaxCapacity = 3
  MaxClock = 5
  Unallocated = Unallocated
  Torn = Torn
  NoPage = NoPage
  NoValue = NoValue
SYMMETRY Symmetry
INVARIANTS StampsOrdered
PROPERTIES FullMeansHeld LruOK
