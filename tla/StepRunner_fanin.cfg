SPECIFICATION Spec
CONSTANTS
  Nodes <- FanInNodes
  Edges <- FanInEdges
  CondEdges <- FanInConditions
  Refused = {}
  Handlers = {h1}
  Watchdogs = {w}
  Errors = {"fatal"}
  Requests = {"resume"}
  MaxRetries = 0
  MaxFaults = 0
  MaxStalls = 0
  ExecTimeout = FALSE
  EventualReads = TRUE
INVARIANTS
  TypeOK
  DispatchOncePerGrant
  DispatchAfterPredecessors
  FinalizedAfterAllTerminal
CHECK_DEADLOCK FALSE
