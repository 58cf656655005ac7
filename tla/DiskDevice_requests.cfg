SPECIFICATION Spec
CONSTANTS
  a1 = a1
  a2 = a2
  a3 = a3
  b1 = b1
  unitA = unitA
  unitB = unitB
  Requests <- MCRequests
  Units <- MCUnits
  UnitOf <- MCUnitOf
  Uses <- MCUses
  NULL = NULL
  EagerRemove = 0
CHECK_DEADLOCK FALSE
INVARIANTS
  CompletedOnce
  OneHolder
  IdleFlagHonest
  NoLostWork
  ExpungedIdle
  EveryRegistrationCaused
PROPERTIES
  ServedInOrder
  RunnableServed
