SPECIFICATION Spec
CONSTANTS
  MaxTime = 3
  Contents = {"rain", "blank", "regridded"}
  Captured = {"rain"}
  Blank = {"blank"}
  Regridded = {"regridded"}
  InputLength = 2
  Horizon = 1
  MaxNew = 1
  MaxFaults = 2
INVARIANT Safety
PROPERTIES FailsOnlyIfSpoiled CommittedIsImmutable EventuallySettled
CHECK_DEADLOCK FALSE
