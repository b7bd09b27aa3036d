SPECIFICATION FairSpec
CONSTANTS
  Nodes <- FanInNodes
  Edges <- FanInEdges
  CondEdges = {}
  Refused = {}
  Handlers = {h1, h2}
  Watchdogs = {}
  Errors = {"transient"}
  Requests = {"resume"}
  MaxRetries = 1
  MaxFaults = 0
  MaxStalls = 0
  ExecTimeout = FALSE
  EventualReads = FALSE
INVARIANTS
  AllAttemptsMade
PROPERTIES
  CompletionKept
  FanInReached
CHECK_DEADLOCK FALSE
