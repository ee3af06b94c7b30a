CONSTANTS
  NoPid = NoPid
  Procs = {p1, p2, p3}
  Transient = {p1, p2}
  Suspendable = {p3}
SPECIFICATION Spec
INVARIANTS Safety ExclusiveUnlessMisjudged
PROPERTIES LockRecovered ImplementsMutex
