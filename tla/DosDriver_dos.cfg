SPECIFICATION Spec
CONSTANTS
  Units = {0}
  Slots = {0, 1}
  ReadOnly = {1}
  NumLba = 2
  CacheSize = 3
  MaxBatch = 2
  IoRetries = 1
  Retries = 1
  MaxStale = 1
  MaxLate = 1
  Written = {1}
  MaxCount = 2
  MaxMedia = 1
  MaxRequests = 4
INVARIANTS
  TypeOK
  NoForeignData
  ReadsAreCurrent
PROPERTIES
  RequestsEnd
CHECK_DEADLOCK FALSE
