SPECIFICATION FairSpec
CONSTANTS
  Nodes <- PairNodes
  Edges <- PairEdges
  CondEdges <- PairEdges
  Refused = {"b"}
  Handlers = {h1}
  Watchdogs = {w}
  Errors = {"transient"}
  Requests = {"cancel"}
  MaxRetries = 1
  MaxFaults = 1
  MaxStalls = 1
  ExecTimeout = TRUE
  EventualReads = FALSE
INVARIANTS
  RetryBudget
PROPERTIES
  ImplementsWorkflow
  EventuallyEnds
CHECK_DEADLOCK FALSE
