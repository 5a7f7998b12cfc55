SPECIFICATION ServerTagsSpec
CONSTANTS
  r1 = r1  r2 = r2  r3 = r3
  anna = anna  bob = bob  parcel = parcel  letter = letter
  FRAGILE = FRAGILE  HEAVY = HEAVY
  None = None
  Req = {r1, r2, r3}
  Sellers = {anna, bob}
  Shipments = {parcel, letter}
  TagNames = {FRAGILE, HEAVY}
  Owner <- TwoOwners
  MaxInFlight = 2
  Alone = {r3}
  Releases = {1, 2}
  Container = TRUE
INVARIANTS
  ReadyWhenServing
PROPERTIES
  ChangedByOwner
  AloneIsDone
CHECK_DEADLOCK FALSE
