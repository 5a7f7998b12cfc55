SPECIFICATION FairSpec
CONSTANTS
  s1 = s1  s2 = s2
  alice = alice  bob = bob  pat = pat  quinn = quinn
  c1 = c1  c2 = c2
  None = None
  Req = {1, 2, 3, 4, 5}
  Shipments <- OneShipment
  Sellers <- MCSellers
  Partners <- MCPartners
  Codes <- OneCode
  SellerOf <- MCSellerOf
  PartnerOf <- MCPartnerOf
  HasEmail = {s1}
  HasPhone = {s1}
  Calls <- StrangerCalls
  MaxInFlight = 1
  Faults = FALSE
INVARIANTS
  EventsByParties
  DeliveriesPerCode
  ReviewsPerShipment
PROPERTIES
  Answered
CHECK_DEADLOCK FALSE
