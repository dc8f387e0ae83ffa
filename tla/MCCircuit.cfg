SPECIFICATION FairSpec
CONSTANTS
  Callers = {c1, c2, c3}
  Hung = {c1}
  Threshold = 2
  MaxProbes = 1
INVARIANTS
  CircuitTypeOK
  ProbesBounded
PROPERTIES
  Recovers
