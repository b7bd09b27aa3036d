SPECIFICATION Spec
CONSTANTS
  Nodes <- PairNodes
  Edges <- PairEdges
  CondEdges = {}
  Refused = {"b"}
  Handlers = {h1}
  Watchdogs = {w}
  Errors = {}
  Requests = {}
  MaxRetries = 0
  MaxFaults = 0
  MaxStalls = 0
  ExecTimeout = FALSE
  EventualReads = FALSE
INVARIANTS
  FailureIsTerminal
CHECK_DEADLOCK FALSE
