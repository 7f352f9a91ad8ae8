SPECIFICATION Spec
CONSTANTS
  Bytes <- MCBytes
  Names <- MCNames
  Boundary <- MCBoundary
  Bodies <- MCBodies
  ConstraintSets <- MCConstraintSets
  ChunkSizes <- MCChunkSizes
  PollBudget = 2
  SourceMayFail = TRUE
  U64Max = 100
  UsizeMax = 100
  MaxHeaders = 2
  MaxErrors = 2
INVARIANTS NoLostWakeup CachedSearchSound LimitsHold BufferIsPrefix
