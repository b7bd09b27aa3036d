SPECIFICATION FairSpec
CONSTANTS
  Cases = {"talk", "flow", "jam"}
  Conversations = {"talk"}
  Stuck = {"jam"}
  Starters = {s1, s2}
  MaxReceives = 3
  MaxFaults = 1
INVARIANTS
  TypeOK
  CounterAccounts
  CompletedOnce
  OutcomeIsItsOwn

  
CHECK_DEADLOCK FALSE
