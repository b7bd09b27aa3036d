SPECIFICATION Spec
CONSTANTS
  Nodes <- PairNodes
  Edges <- NoEdges
  CondEdges = {}
  Refused = {}
  Handlers = {h1, h2}
  Watchdogs = {w}
  Errors = {}
  Requests = {}
  MaxRetries = 0
  MaxFaults = 0
  MaxStalls = 0
  ExecTimeout = FALSE
  EventualReads = FALSE
INVARIANTS
  FinalizedOnce
CHECK_DEADLOCK FALSE
