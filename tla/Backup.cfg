SPECIFICATION BackupSpec
CONSTANTS
  Collectors = {c1}
  Looping = {c1}
  Readers = {}
  MaxSnapshot = 2
  MaxFaults = 1
  Nobody = nobody
  Saver = saver
  Savers = {saver}
  MaxBackups = 2
  LockAttempts = 2
INVARIANTS Safety BackupsRestoreUnlessPruned HalfPairsBounded
CHECK_DEADLOCK FALSE
