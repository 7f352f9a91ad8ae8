SPECIFICATION Spec
CONSTANTS
  Bytes <- MCBytes
  ContentTypes <- MCContentTypes
  Boundaries <- MCBoundaries
  Alphanumeric <- MCAlphanumeric
  FieldNames <- MCFieldNames
  Paddings <- MCPaddings
  Sizes <- MCSizes
  U64Max = 2147483647
  UsizeMax = 2147483647
  MaxCalls = 0
INVARIANTS DelimitersDisjoint PaddingNeverBoundary
CHECK_DEADLOCK FALSE
