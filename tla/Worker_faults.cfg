SPECIFICATION FairSpec
CONSTANTS
  Codes = 2
  Contacts = {"sms", "mail"}
  MaxRetries = 3
  Faults = TRUE
INVARIANTS
  LostOnlyOnBoth
PROPERTIES
  TasksEnd
CHECK_DEADLOCK FALSE
