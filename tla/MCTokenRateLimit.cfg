SPECIFICATION RateSpec
CONSTANTS
  Callers = {c1}
  Stoppers = {}
  MaxRequests = 3
  WindowSeconds = 1
  Burst = 1
  MaxBucketCapacity = 1000000
  Millisecond = 1000000
  Capacity <- BucketCapacity
  PerTick <- TokensPerTick
  MaxTicks = 3
INVARIANTS
  HardLimit
