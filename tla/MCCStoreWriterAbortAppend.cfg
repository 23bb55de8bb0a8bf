CONSTANTS
  NULL = NULL
  Schema <- MCSchema
  Rows <- MCRows
  Compressions <- MCCompressions
  StripeMaxRowCounts = {2, 3}
  BlockRowCounts = {2}
  PageDataSize = 8
  MaxRows = 3
  MaxSessions = 3
  Aborts = TRUE
SPECIFICATION MCSpec
INVARIANT
  RoundTrip
CHECK_DEADLOCK FALSE
