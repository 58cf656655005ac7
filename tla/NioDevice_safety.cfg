SPECIFICATION Spec
CONSTANTS
  c1 = c1
  c2 = c2
  Clients <- MCClients
  Tool = tool
  NULL = NULL
INVARIANTS
  ExactlyOneHolder
  AbortIsReported
  NoLostWakeup
  ExchangeOnFreshBackend
  WorkerOutlivedByBase
  OnlyLatecomersStranded
PROPERTIES
  ServesInOrder
  EveryRequestAnswered
CHECK_DEADLOCK FALSE
