SPECIFICATION FairSpec
CONSTANTS
  Cases = {"talk", "flow"}
  Conversations = {"talk"}
  Stuck = {}
  Starters = {s1, s2}
  MaxReceives = 3
  MaxFaults = 0
PROPERTY
  CompletedCasesScored
CHECK_DEADLOCK FALSE
