SPECIFICATION Spec
CONSTANTS
  ResponseLen = 3
  ReadBuf = 2
  DrainIdle = 3
  DrainCap = 11
  DrainSteps = 3
  MaxQuiet = 2
  MaxLine = 4
INVARIANTS
  TypeOK
  RequestsAreOwned
  LossIsReported
  
PROPERTIES
  CallsEnd
