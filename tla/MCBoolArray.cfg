CONSTANTS
  NULL = NULL
  MaxFlags = 10
  PageDataSize = 8
SPECIFICATION BoolSpec
INVARIANT
  BoolArrayRoundTrip
CHECK_DEADLOCK FALSE
