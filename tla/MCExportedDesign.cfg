SPECIFICATION Spec
CONSTANTS
  Designs <- MCDesigns
  ExportLimits <- MCLimits
INVARIANTS
  SettledAsTheNetlist
  ProjectIsWhole
  SoundIsExported
PROPERTY
  ChangesSettle
CHECK_DEADLOCK FALSE
