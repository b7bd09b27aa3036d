SPECIFICATION Spec
CONSTANTS
  None = None
  Ladder <- TwoRungs
  Releases = {"r1", "r2"}
  Clients = {c1}
  Evaluators = {x}
  EvidenceOf <- EvidenceSets
  Comparable <- AllPairs
  Configs <- SomeConfigs
  RollbackConfigs <- SomeRollbacks
  Modes = {"strict", "permissive"}
  Approvals = {"approved", "denied"}
  Percents = {1}
  Metrics <- SomeMetrics
  Lag = 1
  MaxVersion <- Moves
  MaxFaults = 1
INVARIANTS
  TypeOK
  HistoryComplete
  LadderClimbed
  FloorHeld
  CanaryEpisodes
  FindingFollowsMove
  StricterAdmitsLess
PROPERTIES
  StrictlyRecorded
  ImplementsRollout
CHECK_DEADLOCK FALSE
