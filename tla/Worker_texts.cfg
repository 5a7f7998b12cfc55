SPECIFICATION Spec
CONSTANTS
  Codes = 1
  Contacts = {"sms"}
  MaxRetries = 5
  Faults = FALSE
INVARIANTS
  RetriedOnStatusOnly
  DroppedIsMailed
  BacksOff
CHECK_DEADLOCK FALSE
