SPECIFICATION Spec
CONSTANTS
  Readers = {r1}
  Writers = {w1}
  NULL = NULL
  Enables <- MCEnables
  RingSize = 4
  MaxLength = 2
  MaxBytes = 5
INVARIANTS
  TypeOK
  OneHolder
  GapsAreReported
  WriteOnWire
PROPERTIES
  ImplementsLifecycle
  RequestsEnd
CHECK_DEADLOCK FALSE
