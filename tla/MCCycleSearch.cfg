SPECIFICATION Spec
CONSTANTS
  Count = 3
  Nets <- MCNets
  Circuits <- MCCircuits
INVARIANTS
  ReportIsSound
  ReportIsComplete
PROPERTY
  SearchEnds
CHECK_DEADLOCK FALSE
