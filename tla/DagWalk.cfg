SPECIFICATION Spec
CONSTANT Size = 4
INVARIANTS
  UnreachableIsExact
  NeverStranded
PROPERTY PruneOnlyPending
CHECK_DEADLOCK FALSE
