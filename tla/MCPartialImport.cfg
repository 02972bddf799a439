SPECIFICATION Spec
CONSTANTS
  import1 = import1
  import2 = import2
  compile = compile
  canonical = canonical
  verilog = verilog
  Processes <- MCProcesses
  Paths <- MCPaths
  Plan <- MCPlan
  Settings <- MCRace
  Faults <- MCNoFaults
INVARIANT
  FailedRunLeavesNoPartialSet
