SPECIFICATION Spec
CONSTANTS
  Modulus = 4
  PactIds = {0, 1}
  Descriptions = {d1}
  Kinds = {"http", "message"}
  Ports = {9000}
  OverflowChecks = FALSE
  LegacyMessages = TRUE
  MaxInteractions = 2
  MaxSerial = 4
  MaxRev = 1
  Nothing = Nothing
CHECK_DEADLOCK FALSE
INVARIANTS
  HandlesAreSound
PROPERTIES
  NoForeignWrite CheckedEditsAreServed
