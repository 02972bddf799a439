SPECIFICATION Spec
CONSTANTS
  import1 = import1
  import2 = import2
  compile = compile
  canonical = canonical
  verilog = verilog
  Processes <- MCProcesses
  Paths <- MCPaths
  Plan <- MCPlan
  Settings <- MCSettings
  Faults <- MCAllFaults
INVARIANTS
  TargetsAreWhole
  SuccessMeansWritten
  NoLitter
PROPERTIES
  ExistingIsKept
