SPECIFICATION Spec
CONSTANTS
  r1 = r1  r2 = r2  r3 = r3  r4 = r4  r5 = r5
  seller = seller  partner = partner
  ann = ann
  w1 = w1  w2 = w2
  s1 = s1
  None = None
  Req = {r1, r2, r3, r4}
  Turn <- MCTurn
  Roles = {seller, partner}
  Emails = {ann}
  Passwords = {w1, w2}
  Shipments = {s1}
  MaxInFlight = 2
  Faults = TRUE
INVARIANTS
  LinksProve
  SessionsHold
CHECK_DEADLOCK FALSE
