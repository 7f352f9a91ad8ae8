SPECIFICATION FairBytesSpec
CONSTANTS
  Bytes <- CharBytes
  Names <- MCNames
  Boundary <- Letter
  Forms <- AllCharForms
  Bodies <- CharFormsBodies
  ConstraintSets <- FairLimits
  ChunkSizes <- OneOrThree
  PollBudget = 1
  SourceMayFail = FALSE
  U64Max = 100
  UsizeMax = 100
  MaxHeaders = 2
  MaxErrors = 0
  Labels <- MCLabels
  Encodings <- MCEncodings
  Charset <- MCCharset
  Decode <- MCDecode
  Deserialize <- MCDeserialize
INVARIANTS ReturnsRestOfField ReturnsWhatWasSent SingleChunkNotCopied
PROPERTIES MethodReturns
