SPECIFICATION UploadSpec
CONSTANTS
  Bytes <- MCBytes
  Names <- MCNames
  Boundary <- Letter
  Forms <- RefusedForms
  Bodies <- RefusedFormsBodies
  ConstraintSets <- SomeAllowed
  ChunkSizes <- SmallAndLarge
  PollBudget = 2
  SourceMayFail = TRUE
  U64Max = 100
  UsizeMax = 100
  MaxHeaders = 2
  MaxErrors = 3
INVARIANTS DataHeldToItsPart 
