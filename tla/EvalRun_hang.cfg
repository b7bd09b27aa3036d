SPECIFICATION FairSpec
CONSTANTS
  Cases = {"talk", "flow"}
  Conversations = {"talk"}
  Stuck = {"talk"}
  Starters = {s1, s2}
  MaxReceives = 3
  MaxFaults = 0
PROPERTY
  RunCompletes
CHECK_DEADLOCK FALSE
