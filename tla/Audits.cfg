SPECIFICATION AuditSpec
CONSTANTS
  Lookback = 5
  MaxGap = 1
  Sources = {"gauges"}
  MinDuration = 3
  MinAttempts = 3
  MinSuccess = 70
  MinReadiness = 60
  Periods = 1
  SlotsPerDay = 2
  NoGrid = NoGrid
  Unknown = Unknown
  MaxTime = 5
  MaxHistory = 4
  MaxReferences = 3
  MaxCandidates = 2
  MaxEpochs = 6
INVARIANT GapsAccounted CoverageAccounted QueueRanked BestEpoch
CHECK_DEADLOCK FALSE
