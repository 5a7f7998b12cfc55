SPECIFICATION Spec
CONSTANTS
  Tags = {"EXPRESS", "FRAGILE"}
  Releases = {1, 2, 3, 4, 5, 6}
  Container = TRUE
INVARIANTS
  SchemaServed
CHECK_DEADLOCK FALSE
