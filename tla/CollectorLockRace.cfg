CONSTANTS
  NoPid = NoPid
  Procs = {p1, p2, p3}
  Transient = {p1, p2, p3}
  Suspendable = {}
SPECIFICATION Spec
INVARIANTS MutualExclusion
CHECK_DEADLOCK FALSE
