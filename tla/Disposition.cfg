SPECIFICATION Spec
CONSTANTS
  PartHeaders <- MCPartHeaders
  Spellings <- MCSpellings
  HexPairs <- MCHexPairs
  NotUtf8 <- MCNotUtf8
  Undecodable <- MCUndecodable
INVARIANTS
  ReadsWhatWasWritten ScannersAgree
CHECK_DEADLOCK FALSE
