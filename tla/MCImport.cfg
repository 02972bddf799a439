SPECIFICATION ImportSpec
CONSTANTS
  Letters <- LMLetters
  Others <- LMOthers
  Spaces <- LMSpaces
  Controls <- LMControls
  Keywords <- LMKeywords
  Limits <- LMLimits
  SheetLimits <- LMSheetLimits
  Invocations <- MIInvocations
  MaxDepth = 3
  MaxChips = 4
  MaxFileBytes = 2
  MaxProjectBytes = 6
  MaxInstances = 3
  MaxNodes = 16
INVARIANTS
  LoadsAsIfAlone
  DocumentKeepsSignals
  DriverCheckIsExact
  KernelFindsOnlyUserErrors
  KernelSeesTheDrawing
  DocumentComputesDrawing
  ZeroMeansEverything
  EveryUnitIsAccountedFor
CHECK_DEADLOCK FALSE
