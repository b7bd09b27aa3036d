SPECIFICATION Spec
CONSTANTS
  Calls = {c1, c2, c3}
  MaxGeneration = 2
  MaxExpired = 1
SYMMETRY CallSymmetry
INVARIANTS
  TypeOK
  OneHolder
  OnceUnlessOutcomeLost
  ResultsAgree
  SupersededNeverExecutes
PROPERTIES
  TerminalKept
  ImplementsOneShot
CHECK_DEADLOCK FALSE
