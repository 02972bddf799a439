SPECIFICATION HdlSpec
CONSTANTS
  Processes = {p1, p2}
  Me = p1
  Parts = 2
  Platforms = {"linux", "unix", "windows"}
  Faults = {"scratch", "populate", "claim", "rename", "remove"}
INVARIANTS
  PublishedIsWhole
  SuccessMeansPublished
  FailureLeavesNothing
  PublishedAsChecked
PROPERTIES
  ContentIsKept
  CommandReturns
CHECK_DEADLOCK FALSE
