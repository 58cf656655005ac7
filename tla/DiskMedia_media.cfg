SPECIFICATION Spec
CONSTANTS
  rw = rw
  ro = ro
  bad = bad
  Images <- MCImages
  Usable <- MCUsable
  Protected <- MCProtected
  BootImages <- MCImages
  NULL = NULL
  LostReplies = 0
  MaxCount = 6
INVARIANTS
  EtdSeesItsMedium
  WriteProtectHonoured
  ChangeWillBeAcknowledged
  MappingNamesMedium
