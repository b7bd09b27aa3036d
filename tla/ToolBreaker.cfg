SPECIFICATION FairSpec
CONSTANTS
  Workers = {w1, w2}
  Threshold = 2
  MaxWindow = 2
  MaxFailures = 3
  MaxFaults = 1
INVARIANTS
  TypeOK
  OneLiveProber
  OneFindingPerOpening
  ThresholdActedOn
PROPERTIES
  OpenedOnEvidence
  RecoversEventually
