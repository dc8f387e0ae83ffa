SPECIFICATION ExpirySpec
CONSTANTS
  Callers = {c1, c2}
  Threshold = 1
  OpenFor = 2
  MaxProbes = 1
  MaxTime = 5
PROPERTIES
  ExpiresOnlyWhenQuiet
