SPECIFICATION Spec
CONSTANTS
  a = a
  b = b
  c = c
  d = d
  Absent = Absent
  Events <- EventsMC
  Candidates = {d}
  Manifests <- ManifestsMC
  Roots = {"old", "new"}
  MaxFaults = 1
  MaxBuilds = 2


CHECK_DEADLOCK FALSE
INVARIANT EvidenceDurable
