SPECIFICATION Spec
CONSTANTS
  Bytes <- MCBytes
  ContentTypes <- NoContentTypes
  Boundaries <- OneBoundary
  Alphanumeric <- MCAlphanumeric
  FieldNames <- MCFieldNames
  Paddings <- MCPaddings
  Sizes <- MCSizes
  U64Max = 2147483647
  UsizeMax = 2147483647
  MaxCalls = 3
INVARIANTS LimitsAsConfigured
CHECK_DEADLOCK FALSE
