SPECIFICATION Spec
CONSTANTS
  PageSize = 8
  HeaderSize = 1
  SlotEntrySize = 1
  Byte = {zero, a}
  Zero = zero
  Deleted = Deleted
INVARIANTS Intact
PROPERTIES SlotMapOK Reclaims
