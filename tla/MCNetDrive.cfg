SPECIFICATION Spec
CONSTANTS
  Widths = {0, 1, 3}
  Connections <- MCConnections
  MaxAttachments = 4
INVARIANTS
  ConflictListExact
  NoDriverExact
  ReportedRangesSound
CHECK_DEADLOCK FALSE
