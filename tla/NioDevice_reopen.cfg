SPECIFICATION Spec
CONSTANTS
  c1 = c1
  c2 = c2
  Clients <- MCClients
  Tool = tool
  NULL = NULL
PROPERTY FreedOnlyWhenIdle
CHECK_DEADLOCK FALSE
