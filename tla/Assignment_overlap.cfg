SPECIFICATION Spec
CONSTANTS
  n1 = n1  n2 = n2  n3 = n3  n4 = n4
  e1 = e1
  pat = pat  quinn = quinn
  alice = alice  bob = bob
  z1 = z1  z2 = z2
  None = None
  Req = {n1, n2, n3, n4}
  Edits = {e1}
  Partners <- MCPartners
  Sellers <- MCSellers
  Zips <- MCZips
  SellerOf <- MCSellerOf
  Dest <- OneDest
  Capacities <- UpToOne
  CapLimit = 1
  ZipLists <- OneZipLists
  MaxInFlight = 2
  Reopens = {n4}
  Alone = {n4}
INVARIANTS
  OverbookBound
PROPERTIES
  AloneIsServed
CHECK_DEADLOCK FALSE
