SPECIFICATION Spec
CONSTANTS
  parcel = parcel  letter = letter  c1 = c1  c2 = c2
  None = None
  Shipments = {parcel, letter}
  Call = {c1}
  Days = {3}
  Picks = {"delivered"}
  Handled = {parcel, letter}
  Offsets <- MCOffsets
  Earliest = 2
PROPERTIES
  DayKept
