SPECIFICATION Spec
CONSTANTS
  Notifications = {n1, n2}
  Oversized = {n2}
  Discord = TRUE
  MaxAttempts = 2
  MaxFaults = 2
INVARIANTS Safety DuplicatesExplained SpoiledRecordsBounded
PROPERTY EventuallyAccepted
CHECK_DEADLOCK FALSE
