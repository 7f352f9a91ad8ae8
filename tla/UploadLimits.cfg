SPECIFICATION UploadSpec
CONSTANTS
  Bytes <- MCBytes
  Names <- MCNames
  Boundary <- Letter
  Forms <- LimitForms
  Bodies <- LimitFormsBodies
  ConstraintSets <- Limits
  ChunkSizes <- SmallAndLarge
  PollBudget = 2
  SourceMayFail = FALSE
  U64Max = 100
  UsizeMax = 100
  MaxHeaders = 2
  MaxErrors = 0
INVARIANTS BacklogBounded
PROPERTIES ImplementsFieldSequence
