CONSTANTS
  Nobody = Nobody
  Collectors = {c1, c2}
  Looping = {c1}
  Readers = {r1}
  Savers = {s1}
  MaxSnapshot = 2
  MaxFaults = 2
SPECIFICATION Spec
INVARIANTS IInv LatestReadable ReadFailsOnlyIfReplaced RetentionUnlessFault LeftoversBounded
PROPERTY ImplementsAttemptLog
CHECK_DEADLOCK FALSE
