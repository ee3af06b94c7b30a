SPECIFICATION Spec
CONSTANTS
  Sensors = {s1, s2}
  Sources = {"auto", "scraper"}
  PageSize = 1
  HttpAttempts = 2
  PageAttempts = 2
  TransactionAttempts = 2
  MaxChanges = 2
INVARIANTS Safety CompleteUnlessShifted
PROPERTY CollectionEnds
CHECK_DEADLOCK FALSE
