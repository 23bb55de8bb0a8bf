CONSTANTS
  NULL = NULL
  Schema <- MCSchema
  Rows <- MCRows
  Compressions <- MCCompressions
  StripeMaxRowCounts = {3}
  BlockRowCounts = {2, 3}
  PageDataSize = 8
  MaxRows = 4
  MaxSessions = 2
  Aborts = FALSE
SPECIFICATION MCSpec
INVARIANT
  NextRowIndexInBounds
CHECK_DEADLOCK FALSE
