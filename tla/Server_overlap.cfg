SPECIFICATION ServerTagsSpec
CONSTANTS
  r1 = r1  r2 = r2  r3 = r3
  anna = anna  bob = bob  parcel = parcel  letter = letter
  FRAGILE = FRAGILE  HEAVY = HEAVY
  None = None
  Req = {r1, r2}
  Sellers = {anna, bob}
  Shipments = {parcel, letter}
  TagNames = {FRAGILE}
  Owner <- TwoOwners
  MaxInFlight = 2
  Alone = {}
  Releases = {6}
  Container = TRUE
INVARIANTS
  AddNeverFails
CHECK_DEADLOCK FALSE
