SPECIFICATION Spec
CONSTANTS
  slot = slot
  house = house
  v1 = v1
  v2 = v2
  v3 = v3
  w1 = w1
  w2 = w2
  r1 = r1
  r2 = r2
  NoViewing = NoViewing
  Slots = {slot, house}
  Viewings = {v1, v2, v3}
  Viewers = {w1, w2}
  Requests = {r1, r2}
  SlotOf <- MCSlotOf
  ViewerOf <- MCViewerOf
  SlotType <- MCSlotType
  MaxViewers <- MCMaxViewers
  BookingsPerDay = 1
  OtpMaxAttempts = 1
CONSTRAINT OneContendedRow
VIEW View
SYMMETRY RequestSymmetry
INVARIANTS
  SeatsAreSound
  DailyLimit
PROPERTIES
  CancelledIsFinal
