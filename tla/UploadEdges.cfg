SPECIFICATION UploadSpec
CONSTANTS
  Bytes <- MCBytes
  Names <- MCNames
  Boundary <- Hyphen
  Forms <- EdgeForms
  Bodies <- EdgeFormsBodies
  ConstraintSets <- LargeLimits
  ChunkSizes <- SmallAndLarge
  PollBudget = 2
  SourceMayFail = FALSE
  U64Max = 14
  UsizeMax = 14
  MaxHeaders = 2
  MaxErrors = 0
INVARIANTS TypeOK LimitsHold BoundaryReached
PROPERTIES ImplementsFieldSequence
