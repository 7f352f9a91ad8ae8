SPECIFICATION FairSpec
CONSTANTS
  Bytes <- MCBytes
  Names <- MCNames
  Boundary <- Letter
  Forms <- FairForms
  Bodies <- FairFormsBodies
  ConstraintSets <- FairLimits
  ChunkSizes <- OneOrMany
  PollBudget = 2
  SourceMayFail = FALSE
  U64Max = 100
  UsizeMax = 100
  MaxHeaders = 2
  MaxErrors = 0
PROPERTIES CallReturns Completes
