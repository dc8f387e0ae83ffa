SPECIFICATION BreakerSpec
CONSTANTS
  Callers = {c1, c2, c3}
  Threshold = 2
  OpenFor = 2
  MaxProbes = 2
  MaxTime = 5
SYMMETRY Symmetry
INVARIANTS
  BreakerTypeOK
  BreakerInv
  SlotsExact
PROPERTIES
  GenerationsSpaced
  CoolDownKept
  ImplementsCircuit
