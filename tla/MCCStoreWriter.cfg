CONSTANTS
  NULL = NULL
  Schema <- MCSchema
  Rows <- MCRows
  Compressions <- MCCompressions
  StripeMaxRowCounts = {2, 3}
  BlockRowCounts = {2}
  PageDataSize = 8
  MaxRows = 4
  MaxSessions = 2
  Aborts = FALSE
SPECIFICATION MCFairSpec
INVARIANTS
  TypeOK
  RoundTrip
  CursorMatchesFork
  BlockStatsSound
  

  
  
CHECK_DEADLOCK FALSE
