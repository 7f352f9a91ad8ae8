SPECIFICATION UploadSpec
CONSTANTS
  Bytes <- MCBytes
  Names <- MCNames
  Boundary <- Letter
  Forms <- AllForms
  Bodies <- AllFormsBodies
  ConstraintSets <- Unlimited
  ChunkSizes <- SmallAndLarge
  PollBudget = 2
  SourceMayFail = FALSE
  U64Max = 100
  UsizeMax = 100
  MaxHeaders = 2
  MaxErrors = 0
INVARIANTS FieldDataExact FieldReadsItsOwnData ClosingSeen
PROPERTIES ImplementsFieldSequence
