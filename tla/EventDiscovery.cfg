SPECIFICATION Spec
CONSTANTS
  MaxTime = 5
  Storms = {{1, 3}, {1, 2, 4}}
  Retained = 2
  Lookback = 1
  MergeGap = 2
  Before = 1
  After = 1
  MaxWindow = 4
  Alignment = 1
  MaxFaults = 2
  Absent = Absent
  Damaged = Damaged
INVARIANTS Safety PublishesUnlessDamaged
PROPERTIES FramesKeptUnlessAborted ReviewFinal
CHECK_DEADLOCK FALSE
