SPECIFICATION ManagerSpec
CONSTANTS
  Clients = {k1, k2}
  Names = {n1, n2}
  Breakers = {b1, b2, b3}
  Configs = {good, other, unsound}
  Sound = {good, other}
  None = None
INVARIANTS
  ConfigsMatch
  StrictAnswers
  NoneOrphaned
PROPERTIES
  RejectedWhole
  RemovedStop
