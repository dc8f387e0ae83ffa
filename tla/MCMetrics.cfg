CONSTANTS
  p1 = p1
  p2 = p2
  Hosts = {"h"}
  Paths <- MCPaths
  Kinds = {"req"}
  Durations = {1, 2}
  RingSize = 2
  WheelSeconds = 3
  Windows <- MCWindows
  MaxEndpoints = 2
  MaxTime = 4
  MaxEvents = 3
SPECIFICATION MetricsSpec
INVARIANTS EventsAccounted SamplesExact RatiosExact
SYMMETRY Symmetry
CHECK_DEADLOCK FALSE
