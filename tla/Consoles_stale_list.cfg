SPECIFICATION Spec
CONSTANTS
  parcel = parcel  letter = letter  c1 = c1  c2 = c2
  None = None
  Shipments = {parcel, letter}
  Call = {c1, c2}
  Days = {}
  Picks = {"in_transit", "delivered"}
  Handled = {}
  Offsets = {0}
  Earliest = 2
INVARIANTS
  CancelsInTime
  TableIsTruth
