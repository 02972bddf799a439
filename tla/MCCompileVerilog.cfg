CONSTANTS
  Letters   <- MCLetters
  Others    <- MCOthers
  Spaces    <- MCSpaces
  Controls  <- MCControls
  Keywords  <- MCKeywords
  Limits    <- MCLimits
  SchemaLimits <- MCSchemaLimits
  Documents <- MCDocuments
  Tried     <- MCTried
SPECIFICATION AnswersSpec
INVARIANTS
  AnswersAreTrue
  NamesSafeAndDistinct
  OutputIsWellFormed
  ReadBitsDrivenOnce
  SourceMapExact
  ReaderAndValidatorAgree
