SPECIFICATION FairSpec
CONSTANTS
  parcel = parcel  letter = letter  c1 = c1  c2 = c2
  None = None
  Shipments = {parcel, letter}
  Call = {c1, c2}
  Days = {}
  Picks = {"delivered"}
  Handled = {letter}
  Offsets = {5}
  Earliest = 2
INVARIANTS
  OneByOneIsTrue
PROPERTIES
  DayKept
  ButtonReturns
